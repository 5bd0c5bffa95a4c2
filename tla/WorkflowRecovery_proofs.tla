------------------------ MODULE WorkflowRecovery_proofs ------------------------
(***************************************************************************)
(* More theorems about WorkflowRuns: what is left of a run when a worker   *)
(* dies or loses it, for every definition and every number of runs,        *)
(* workers, administrators and crashes.                                    *)
(***************************************************************************)
EXTENDS WorkflowRuns_proofs, SequenceTheorems, WellFoundedInduction

-----------------------------------------------------------------------------
(* Induction, with sets for predicates: the least counterexample. *)

\* A set of natural numbers with an element has a least one.
LEMMA LeastNumber ==
  ASSUME NEW T, T \subseteq Nat, T # {}
  PROVE  \E x \in T : \A y \in T : x <= y
  <1>1. IsWellFoundedOn(OpToRel(<, Nat), Nat)
    BY NatLessThanWellFounded
  <1>2. PICK x \in T : \A y \in T : ~(<<y, x>> \in OpToRel(<, Nat))
    BY <1>1, WFMin
  <1>3. \A y \in T : ~(y < x)
    BY <1>2 DEF OpToRel
  <1> QED
    BY <1>3

\* A set of positions in a sequence with an element has a greatest one.
LEMMA GreatestNumber ==
  ASSUME NEW n \in Nat, NEW T, T \subseteq 1 .. n, T # {}
  PROVE  \E x \in T : \A y \in T : y <= x
  <1> DEFINE U == {n - y : y \in T}
  <1>1. U \subseteq Nat /\ U # {}
    <2>1. \A y \in T : n - y \in Nat
      OBVIOUS
    <2>2. PICK y \in T : TRUE
      OBVIOUS
    <2> QED
      BY <2>1, <2>2
  <1>2. PICK u \in U : \A v \in U : u <= v
    <2> HIDE DEF U
    <2> QED
      BY <1>1, LeastNumber
  <1>3. PICK x \in T : u = n - x
    OBVIOUS
  <1>4. \A y \in T : n - x <= n - y
    BY <1>2, <1>3
  <1> QED
    BY <1>4

\* f goes from a on, step by step as g says.
Iterates(f, S, n, a, g) == f \in [0 .. n -> S] /\ f[0] = a /\ \A i \in 1 .. n : f[i] = g[i][f[i - 1]]

LEMMA IterationExists ==
  ASSUME NEW S, NEW n \in Nat, NEW a \in S, NEW g \in [1 .. n -> [S -> S]]
  PROVE  \E f : Iterates(f, S, n, a, g)
  <1> DEFINE Good(k) == \E f : Iterates(f, S, k, a, g)
             Bad == {k \in 0 .. n : ~Good(k)}
  <1>1. SUFFICES ASSUME Bad # {} PROVE FALSE
    <2>1. n \in 0 .. n
      OBVIOUS
    <2>2. Bad = {} => Good(n)
      <3> HIDE DEF Good
      <3> QED
        BY <2>1
    <2> QED
      BY <2>2
  <1>2. PICK k \in Bad : \A y \in Bad : k <= y
    <2>1. Bad \subseteq Nat
      OBVIOUS
    <2> HIDE DEF Bad
    <2> QED
      BY <1>1, <2>1, LeastNumber
  <1>3. k # 0
    <2>1. Iterates([j \in 0 .. 0 |-> a], S, 0, a, g)
      BY DEF Iterates
    <2> QED
      BY <2>1
  <1>4. Good(k - 1)
    <2>1. k - 1 \in 0 .. n /\ ~(k <= k - 1)
      BY <1>2, <1>3
    <2>2. k - 1 \notin Bad
      <3> HIDE DEF Bad
      <3> QED
        BY <1>2, <2>1
    <2> HIDE DEF Good
    <2> QED
      BY <2>1, <2>2
  <1>5. PICK f : Iterates(f, S, k - 1, a, g)
    BY <1>4
  <1> DEFINE h == [j \in 0 .. k |-> IF j = k THEN g[k][f[k - 1]] ELSE f[j]]
  <1>6. g[k][f[k - 1]] \in S
    BY <1>2, <1>3, <1>5 DEF Iterates
  <1>7. h \in [0 .. k -> S] /\ h[0] = a
    BY <1>2, <1>3, <1>5, <1>6 DEF Iterates
  <1>8. \A i \in 1 .. k : h[i] = g[i][h[i - 1]]
    BY <1>2, <1>3, <1>5 DEF Iterates
  <1>9. Iterates(h, S, k, a, g)
    <2> HIDE DEF h
    <2> QED
      BY <1>7, <1>8 DEF Iterates
  <1> QED
    BY <1>2, <1>9

\* What every step keeps in S stays in S.
LEMMA IterationStays ==
  ASSUME NEW S, NEW n \in Nat, NEW f, f[0] \in S, \A i \in 1 .. n : f[i - 1] \in S => f[i] \in S
  PROVE  f[n] \in S
  <1> DEFINE Bad == {i \in 0 .. n : f[i] \notin S}
  <1>1. SUFFICES ASSUME Bad # {} PROVE FALSE
    OBVIOUS
  <1>2. PICK k \in Bad : \A y \in Bad : k <= y
    <2>1. Bad \subseteq Nat
      OBVIOUS
    <2> HIDE DEF Bad
    <2> QED
      BY <1>1, <2>1, LeastNumber
  <1>3. k # 0
    OBVIOUS
  <1>4. f[k - 1] \in S
    <2>1. k - 1 \in 0 .. n /\ ~(k <= k - 1)
      BY <1>2, <1>3
    <2> QED
      BY <1>2, <2>1
  <1> QED
    BY <1>2, <1>3, <1>4

-----------------------------------------------------------------------------
(* The queue of a run. *)

LEMMA WithoutType ==
  ASSUME NEW S, NEW q \in Seq(S), NEW n
  PROVE  Without(q, n) \in Seq(S)
  <1> DEFINE P(f) == f = [i \in 0 .. Len(q) |-> IF i = 0 THEN <<>>
                                                ELSE IF q[i] = n THEN f[i - 1] ELSE Append(f[i - 1], q[i])]
             left == CHOOSE f : P(f)
  <1>1. Without(q, n) = left[Len(q)]
    BY DEF Without
  <1>2. \E f : P(f)
    <2> DEFINE U == Seq(S)
               m == Len(q)
               e == <<>>
               g == [i \in 1 .. m |-> [x \in U |-> IF q[i] = n THEN x ELSE Append(x, q[i])]]
    <2>1. m \in Nat /\ e \in U /\ g \in [1 .. m -> [U -> U]]
      OBVIOUS
    <2>2. \E h : Iterates(h, U, m, e, g)
      <3> HIDE DEF U, m, e, g
      <3> QED
        BY <2>1, IterationExists
    <2>3. PICK h : Iterates(h, U, m, e, g)
      BY <2>2
    <2>4. P(h)
      <3>1. \A i \in 0 .. Len(q) : i # 0 => i \in 1 .. Len(q) /\ h[i - 1] \in Seq(S)
        BY <2>3 DEF Iterates
      <3> QED
        BY <2>3, <3>1 DEF Iterates
    <2> QED
      BY <2>4
  <1>3. P(left)
    <2> HIDE DEF P
    <2> QED
      BY <1>2
  <1> HIDE DEF left
  <1>4. left[0] \in Seq(S)
    BY <1>3
  <1>5. ASSUME NEW i \in 1 .. Len(q), left[i - 1] \in Seq(S) PROVE left[i] \in Seq(S)
    <2>1. i \in 0 .. Len(q) /\ i # 0
      OBVIOUS
    <2>2. left[i] = IF q[i] = n THEN left[i - 1] ELSE Append(left[i - 1], q[i])
      BY <1>3, <2>1
    <2> QED
      BY <1>5, <2>2
  <1>6. left[Len(q)] \in Seq(S)
    <2> DEFINE U == Seq(S)
               m == Len(q)
    <2>1. m \in Nat /\ left[0] \in U /\ \A i \in 1 .. m : left[i - 1] \in U => left[i] \in U
      BY <1>4, <1>5
    <2>2. left[m] \in U
      <3> HIDE DEF U, m
      <3> QED
        BY <2>1, IterationStays
    <2> QED
      BY <2>2
  <1> QED
    BY <1>1, <1>6

LEMMA JoinedType ==
  ASSUME NEW S, NEW q \in Seq(S), NEW targets \in Seq(S)
  PROVE  Joined(q, targets) \in Seq(S)
  <1> DEFINE P(f) == f = [i \in 0 .. Len(targets) |->
                            IF i = 0 THEN q
                            ELSE IF Contains(f[i - 1], targets[i]) THEN f[i - 1] ELSE Append(f[i - 1], targets[i])]
             grown == CHOOSE f : P(f)
  <1>1. Joined(q, targets) = grown[Len(targets)]
    BY DEF Joined
  <1>2. \E f : P(f)
    <2> DEFINE U == Seq(S)
               m == Len(targets)
               g == [i \in 1 .. m |-> [x \in U |-> IF Contains(x, targets[i]) THEN x ELSE Append(x, targets[i])]]
    <2>1. m \in Nat /\ q \in U /\ g \in [1 .. m -> [U -> U]]
      OBVIOUS
    <2>2. \E h : Iterates(h, U, m, q, g)
      <3> HIDE DEF U, m, g
      <3> QED
        BY <2>1, IterationExists
    <2>3. PICK h : Iterates(h, U, m, q, g)
      BY <2>2
    <2>4. P(h)
      <3>1. \A i \in 0 .. Len(targets) : i # 0 => i \in 1 .. Len(targets) /\ h[i - 1] \in Seq(S)
        BY <2>3 DEF Iterates
      <3> QED
        BY <2>3, <3>1 DEF Iterates
    <2> QED
      BY <2>4
  <1>3. P(grown)
    <2> HIDE DEF P
    <2> QED
      BY <1>2
  <1> HIDE DEF grown
  <1>4. grown[0] \in Seq(S)
    BY <1>3
  <1>5. ASSUME NEW i \in 1 .. Len(targets), grown[i - 1] \in Seq(S) PROVE grown[i] \in Seq(S)
    <2>1. i \in 0 .. Len(targets) /\ i # 0
      OBVIOUS
    <2>2. grown[i] = IF Contains(grown[i - 1], targets[i]) THEN grown[i - 1] ELSE Append(grown[i - 1], targets[i])
      BY <1>3, <2>1
    <2> QED
      BY <1>5, <2>2
  <1>6. grown[Len(targets)] \in Seq(S)
    <2> DEFINE U == Seq(S)
               m == Len(targets)
    <2>1. m \in Nat /\ grown[0] \in U /\ \A i \in 1 .. m : grown[i - 1] \in U => grown[i] \in U
      BY <1>4, <1>5
    <2>2. grown[m] \in U
      <3> HIDE DEF U, m
      <3> QED
        BY <2>1, IterationStays
    <2> QED
      BY <2>2
  <1> QED
    BY <1>1, <1>6

-----------------------------------------------------------------------------
(* Types.  They depend on each other: the node a worker is at comes from a  *)
(* queue, a queue is rebuilt from what an administrator's request read, and *)
(* the row that request read is still there when it writes.                 *)

StateSet == [queue : Seq(Nodes), completed : SUBSET Nodes, attempts : [Nodes -> 0 .. MaxRetries + 1]]
RunRows == [status : Statuses, st : StateSet, asleep : BOOLEAN,
            owner : Workers \cup {None, "dead"}, lease : {"none", "live", "lapsed"}]
NodeRows == [node : Nodes, st : {"running", "needs_attention", "skipped"}]
Requests == [run : Runs \cup {NoRun}, st : StateSet, row : Nat]

\* Places of a worker with a row of its own, the last of its run; and without one.
Open == {"execute", "ask", "done", "failed", "park", "parked"}
Bare == {"loop", "begin", "checkpoint", "suspend", "requeue"}

Outcomes ==
  \A w \in Workers : /\ pc[w] \in Open \cup {"begin"} => node[w] \in Nodes
                     /\ pc[w] = "done" => out[w] \in Ports
                     /\ pc[w] = "finish" => out[w] \in FINISHED
WorkerTypes == /\ node \in [Workers -> Nodes \cup {None}] /\ loc \in [Workers -> StateSet]
               /\ out \in [Workers -> Ports \cup FINISHED \cup {None}]
Typed == /\ run \in [Runs -> RunRows] /\ rows \in [Runs -> Seq(NodeRows)]
         /\ req \in [Admins -> Requests] /\ acted \in [Runs -> SUBSET Nodes]
         /\ crashes \in 0 .. MaxCrashes
         /\ WorkerTypes /\ Outcomes

\* The row a request looked at stays, in front of any row a worker has open.
Looked ==
  \A a \in Admins : req[a] # NoRequest =>
    /\ req[a].run \in Runs /\ req[a].row \in 1 .. Len(rows[req[a].run])
    /\ \A w \in Workers : pc[w] \in Open /\ cur[w] = req[a].run => req[a].row < Len(rows[req[a].run])

LEMMA StatesAreStates ==
  /\ NoState \in StateSet /\ NoState.queue = <<>>
  /\ \A r \in Runs : NewState(r) \in StateSet
  <1>1. \A r \in Runs : Start[r] \in Nodes
    BY ConstantsAssumption
  <1>2. 0 \in 0 .. MaxRetries + 1
    BY ConstantsAssumption
  <1> QED
    BY <1>1, <1>2 DEF NoState, NewState, StateSet

\* What happens to a state: something leaves the queue, enters it, or is counted.
LEMMA StateUpdates ==
  ASSUME NEW s \in StateSet, NEW n \in Nodes
  PROVE  /\ [s EXCEPT !.queue = <<n>> \o @] \in StateSet
         /\ [s EXCEPT !.completed = @ \cup {n}] \in StateSet
         /\ \A q \in Seq(Nodes) : /\ [s EXCEPT !.completed = @ \cup {n}, !.queue = q] \in StateSet
                                  /\ [s EXCEPT !.queue = q] \in StateSet
         /\ [s EXCEPT !.attempts[n] = Attempted(@)] \in StateSet
  <1>1. s.queue \in Seq(Nodes) /\ s.completed \cup {n} \in SUBSET Nodes
    BY DEF StateSet
  <1>2. <<n>> \o s.queue \in Seq(Nodes)
    BY <1>1
  <1>3. Attempted(s.attempts[n]) \in 0 .. MaxRetries + 1
    BY ConstantsAssumption DEF StateSet, Attempted
  <1>4. [s.attempts EXCEPT ![n] = Attempted(s.attempts[n])] \in [Nodes -> 0 .. MaxRetries + 1]
    BY <1>3 DEF StateSet
  <1> QED
    BY <1>1, <1>2, <1>4 DEF StateSet

LEMMA RetriedAndSkipped ==
  ASSUME NEW s \in StateSet, NEW n \in Nodes
  PROVE  Retried(s, n) \in StateSet /\ Skipped(s, n) \in StateSet
  <1>1. s.queue \in Seq(Nodes) /\ Targets[n]["default"] \in Seq(Nodes)
    BY ConstantsAssumption DEF StateSet, Ports
  <1>2. Joined(Without(s.queue, n), Targets[n]["default"]) \in Seq(Nodes)
    BY <1>1, WithoutType, JoinedType
  <1>3. Skipped(s, n) \in StateSet
    BY <1>2, StateUpdates DEF Skipped
  <1>4. Retried(s, n) \in StateSet
    <2>1. CASE Contains(s.queue, n)
      BY <2>1 DEF Retried, StateSet
    <2>2. CASE ~Contains(s.queue, n)
      <3>1. <<n>> \o s.queue \in Seq(Nodes)
        BY <1>1
      <3> QED
        BY <2>2, <3>1 DEF Retried, StateSet
    <2> QED
      BY <2>1, <2>2
  <1> QED
    BY <1>3, <1>4

\* A step of a worker leaves the others where they are.
LEMMA OthersStay ==
  ASSUME Shape, Typed, NEW w \in Workers, WorkerStep(w), NEW v \in Workers \ {w}
  PROVE  /\ pc'[v] = pc[v] /\ cur'[v] = cur[v] /\ node'[v] = node[v]
         /\ loc'[v] = loc[v] /\ out'[v] = out[v]
  <1> USE DEF Shape, WorkerShape, Typed, WorkerTypes
  <1>1. ASSUME UNCHANGED worker PROVE pc'[v] = pc[v] /\ cur'[v] = cur[v] /\ node'[v] = node[v] /\ loc'[v] = loc[v] /\ out'[v] = out[v]
    BY <1>1 DEF worker
  <1>2. CASE \E place, s : GoTo(w, place, s)
    BY <1>2 DEF GoTo
  <1>3. CASE Leave(w) \/ Failed(w) \/ \E x : Done(w, x) \/ ToFinish(w, x)
    BY <1>2, <1>3 DEF Leave, Failed, Done, ToFinish
  <1>4. CASE Look(w)
    BY <1>2, <1>3, <1>4 DEF Look
  <1> QED
    BY <1>2, <1>3, <1>4
    DEF WorkerStep, BeginNode, Execute, Act, ReadWait, CreateWait, FinishNode, FailNode,
        Checkpoint, Park, FinishWaiting, GiveBack, FinishRun, SaveAnd

\* The first node of a queue, and what stays behind it.
LEMMA QueueHead ==
  ASSUME NEW q \in Seq(Nodes), q # <<>>
  PROVE  /\ Head(q) \in Nodes /\ Tail(q) \in Seq(Nodes) /\ Contains(q, Head(q))
         /\ \A n : Contains(Tail(q), n) => Contains(q, n)
  <1>1. Len(q) \in Nat /\ Len(q) >= 1
    BY EmptySeq, LenProperties
  <1>2. Head(q) = q[1] /\ q[1] \in Nodes /\ Tail(q) \in Seq(Nodes)
    BY <1>1
  <1>3. Len(Tail(q)) = Len(q) - 1 /\ \A i \in 1 .. Len(q) - 1 : Tail(q)[i] = q[i + 1]
    BY <1>1
  <1> QED
    BY <1>1, <1>2, <1>3 DEF Contains

LEMMA WorkerTypesStep ==
  ASSUME Shape, Typed, NEW w \in Workers, WorkerStep(w)
  PROVE  WorkerTypes' /\ Outcomes'
  <1> USE DEF Shape, WorkerShape, Typed
  <1>0. loc[w] \in StateSet /\ loc[w].queue \in Seq(Nodes) /\ cur[w] \in Runs /\ pc[w] # "idle"
    <2>1. pc[w] # "idle"
      BY DEF WorkerStep, Look, BeginNode, Execute, Act, ReadWait, CreateWait, FinishNode, FailNode,
         Checkpoint, Park, FinishWaiting, GiveBack, FinishRun, Here
    <2> QED
      BY <2>1 DEF WorkerTypes, StateSet
  <1>1. ASSUME NEW place \in Places, NEW s \in StateSet, GoTo(w, place, s), place \notin {"done", "finish"},
               place \in Open \cup {"begin"} => node[w] \in Nodes
        PROVE  WorkerTypes' /\ Outcomes'
    BY <1>1 DEF GoTo, WorkerTypes, Outcomes
  <1>2. ASSUME NEW port \in Ports, Done(w, port), node[w] \in Nodes PROVE WorkerTypes' /\ Outcomes'
    BY <1>2 DEF Done, WorkerTypes, Outcomes, Open
  <1>3. ASSUME NEW status \in FINISHED, ToFinish(w, status) PROVE WorkerTypes' /\ Outcomes'
    BY <1>3 DEF ToFinish, WorkerTypes, Outcomes, Open
  <1>4. CASE Leave(w)
    BY <1>4, StatesAreStates DEF Leave, WorkerTypes, Outcomes, Open
  <1>5. CASE Failed(w) /\ node[w] \in Nodes
    BY <1>0, <1>1, <1>5 DEF Failed, Places
  <1>6. pc[w] \in Open \cup {"begin"} => node[w] \in Nodes
    BY DEF Outcomes
  <1>7. CASE Look(w)
    <2> DEFINE s == loc[w]
               n == Head(s.queue)
               rest == [s EXCEPT !.queue = Tail(@)]
    <2>1. CASE ToFinish(w, "succeeded") \/ ToFinish(w, "timed_out") \/ ToFinish(w, "failed")
      BY <1>3, <2>1 DEF FINISHED
    <2>2. CASE Leave(w)
      BY <1>4, <2>2
    <2>3. CASE s.queue # <<>> /\ GoTo(w, "loop", rest)
      <3>1. rest \in StateSet
        BY <1>0, <2>3, QueueHead DEF StateSet
      <3> HIDE DEF rest
      <3> QED
        BY <1>1, <2>3, <3>1 DEF Places, Open
    <2>4. CASE /\ s.queue # <<>>
               /\ pc' = [pc EXCEPT ![w] = "begin"]
               /\ node' = [node EXCEPT ![w] = n]
               /\ loc' = [loc EXCEPT ![w] = [rest EXCEPT !.attempts[n] = Attempted(@)]]
               /\ UNCHANGED <<cur, out>>
      <3>1. rest \in StateSet /\ n \in Nodes
        BY <1>0, <2>4, QueueHead DEF StateSet
      <3> HIDE DEF rest, n
      <3> DEFINE t == [rest EXCEPT !.attempts[n] = Attempted(@)]
      <3>2. t \in StateSet
        BY <3>1, StateUpdates
      <3>3. loc' = [loc EXCEPT ![w] = t]
        BY <2>4
      <3> HIDE DEF t
      <3> QED
        BY <2>4, <3>1, <3>2, <3>3 DEF WorkerTypes, Outcomes
    <2> QED
      BY <1>7, <2>1, <2>2, <2>3, <2>4 DEF Look
  <1>8. CASE BeginNode(w) \/ CreateWait(w) \/ FinishWaiting(w)
    BY <1>0, <1>1, <1>6, <1>8 DEF BeginNode, CreateWait, FinishWaiting, Places, Open
  <1>9. CASE Execute(w) \/ Act(w) \/ ReadWait(w)
    <2>1. node[w] \in Nodes
      BY <1>6, <1>9 DEF Execute, Act, ReadWait, Here, Open
    <2>2. (\E port \in Ports : Done(w, port)) \/ Failed(w) \/ GoTo(w, "ask", loc[w]) \/ GoTo(w, "park", loc[w])
      BY <1>9 DEF Execute, Act, ReadWait, Ports
    <2> QED
      BY <1>0, <1>1, <1>2, <1>5, <2>1, <2>2 DEF Places
  <1>10. CASE FinishNode(w) \/ FailNode(w)
    <2>1. node[w] \in Nodes
      BY <1>6, <1>10 DEF FinishNode, FailNode, Open
    <2>2. \A port \in Ports : Followed(w, port) \in StateSet
      <3>1. \A port \in Ports : loc[w].queue \o Targets[node[w]][port] \in Seq(Nodes)
        BY <1>0, <2>1, ConstantsAssumption
      <3> QED
        BY <1>0, <2>1, <3>1 DEF Followed, Completed, StateSet
    <2>3. [loc[w] EXCEPT !.queue = <<node[w]>> \o @] \in StateSet
      BY <1>0, <2>1, StateUpdates
    <2>4. pc[w] = "done" => out[w] \in Ports
      BY DEF Outcomes
    <2>5. \/ \E status \in FINISHED : ToFinish(w, status)
          \/ \E port \in Ports : GoTo(w, "checkpoint", Followed(w, port))
          \/ GoTo(w, "requeue", [loc[w] EXCEPT !.queue = <<node[w]>> \o @])
      BY <1>10, <2>4 DEF FinishNode, FailNode, FINISHED, Ports
    <2> HIDE DEF Typed
    <2> QED
      BY <1>1, <1>3, <2>2, <2>3, <2>5 DEF Places, Open
  <1>11. CASE Checkpoint(w) \/ Park(w)
    <2>1. pc[w] = "park" => node[w] \in Nodes
      BY <1>6 DEF Open
    <2>2. pc[w] = "park" => [loc[w] EXCEPT !.queue = <<node[w]>> \o @] \in StateSet
      BY <1>0, <2>1, StateUpdates
    <2>3. \/ ToFinish(w, "failed") \/ GoTo(w, "loop", loc[w])
          \/ pc[w] = "park" /\ GoTo(w, "parked", [loc[w] EXCEPT !.queue = <<node[w]>> \o @])
      BY <1>11 DEF Checkpoint, Park, SaveAnd
    <2> HIDE DEF Typed
    <2> QED
      BY <1>0, <1>1, <1>3, <2>1, <2>2, <2>3 DEF Places, Open, FINISHED
  <1>12. CASE GiveBack(w) \/ FinishRun(w)
    BY <1>4, <1>12 DEF GiveBack, FinishRun
  <1> QED
    BY <1>7, <1>8, <1>9, <1>10, <1>11, <1>12 DEF WorkerStep

LEMMA WorkerTypesNext ==
  ASSUME Shape, Typed, [Next]_vars
  PROVE  WorkerTypes' /\ Outcomes'
  <1> USE DEF Shape, WorkerShape, Typed
  <1>1. CASE UNCHANGED worker
    BY <1>1 DEF worker, WorkerTypes, Outcomes
  <1>2. CASE Crash
    BY <1>2, StatesAreStates DEF Crash, WorkerTypes, Outcomes, Open
  <1>3. ASSUME NEW w \in Workers, NEW r \in Runs, Claim(w, r) PROVE WorkerTypes' /\ Outcomes'
    <2>1. CASE /\ pc' = [pc EXCEPT ![w] = "loop"]
               /\ loc' = [loc EXCEPT ![w] = run[r].st] /\ UNCHANGED <<node, out>>
      <3>1. run[r].st \in StateSet
        BY DEF RunRows
      <3> QED
        BY <2>1, <3>1 DEF WorkerTypes, Outcomes, Open
    <2> QED
      BY <1>1, <1>3, <2>1 DEF Claim, MarkUncertain
  <1>4. ASSUME NEW w \in Workers, WorkerStep(w) PROVE WorkerTypes' /\ Outcomes'
    BY <1>4, WorkerTypesStep
  <1> QED
    BY <1>1, <1>2, <1>3, <1>4
    DEF Next, Enqueue, Cancel, Wake, LeaseLapses, ResolveWait, ExpireWaits, AttentionRead, AttentionWrite,
        vars, worker

\* An open row is the last one of its run and says what the worker is at.
Ours ==
  \A w \in Workers : pc[w] \in Open =>
    LET q == rows[cur[w]] IN Len(q) > 0 /\ q[Len(q)] = [node |-> node[w], st |-> "running"]

LEMMA FrontOf ==
  ASSUME NEW S, NEW q \in Seq(S), Len(q) > 0
  PROVE  /\ Front(q) \in Seq(S) /\ Len(Front(q)) = Len(q) - 1
         /\ \A i \in 1 .. Len(q) - 1 : Front(q)[i] = q[i]
  <1>1. Len(q) \in Nat
    OBVIOUS
  <1>2. 1 \in Int /\ Len(q) - 1 \in Int /\ \A i \in 1 .. Len(q) - 1 : q[i] \in S
    BY <1>1
  <1>3. /\ SubSeq(q, 1, Len(q) - 1) \in Seq(S)
        /\ Len(SubSeq(q, 1, Len(q) - 1)) = IF 1 <= Len(q) - 1 THEN Len(q) - 1 - 1 + 1 ELSE 0
        /\ \A i \in 1 .. Len(q) - 1 - 1 + 1 : SubSeq(q, 1, Len(q) - 1)[i] = q[1 + i - 1]
    BY <1>2, SubSeqProperties
  <1>4. Len(q) - 1 - 1 + 1 = Len(q) - 1 /\ \A i \in Int : 1 + i - 1 = i
    BY <1>1
  <1> QED
    BY <1>1, <1>3, <1>4 DEF Front

\* The row at place i of q marked as st.
LEMMA RowMarked ==
  ASSUME NEW q \in Seq(NodeRows), NEW i \in 1 .. Len(q), NEW st \in {"running", "needs_attention", "skipped"}
  PROVE  /\ [q EXCEPT ![i].st = st] \in Seq(NodeRows)
         /\ Len([q EXCEPT ![i].st = st]) = Len(q)
         /\ \A j \in 1 .. Len(q) \ {i} : [q EXCEPT ![i].st = st][j] = q[j]
         /\ [q EXCEPT ![i].st = st][i] = [node |-> q[i].node, st |-> st]
  <1>1. q[i] \in NodeRows
    OBVIOUS
  <1> DEFINE row == [q[i] EXCEPT !.st = st]
  <1>2. row \in NodeRows /\ row = [node |-> q[i].node, st |-> st]
    BY <1>1 DEF NodeRows
  <1>3. [q EXCEPT ![i].st = st] = [q EXCEPT ![i] = row]
    OBVIOUS
  <1> HIDE DEF row
  <1>4. /\ [q EXCEPT ![i] = row] \in Seq(NodeRows)
        /\ Len([q EXCEPT ![i] = row]) = Len(q)
        /\ \A j \in 1 .. Len(q) : [q EXCEPT ![i] = row][j] = IF j = i THEN row ELSE q[j]
    BY <1>2, ExceptSeq
  <1> QED
    BY <1>2, <1>3, <1>4

\* What a step may do to the rows: a row is opened, the open one closed, or one
\* of a run that nobody holds marked.
RowOpened(w) == /\ pc[w] = "begin" /\ pc'[w] = "execute" /\ UNCHANGED run
                /\ rows' = [rows EXCEPT ![cur[w]] = Append(@, [node |-> node[w], st |-> "running"])]
RowClosed(w) == /\ pc[w] \in {"done", "failed", "parked"} /\ pc'[w] \notin Open /\ UNCHANGED run
                /\ rows' = [rows EXCEPT ![cur[w]] = Front(@)]
RowInDoubt(r, i) == /\ Free(r) /\ i \in InDoubt(r) /\ UNCHANGED worker
                    /\ run' = [run EXCEPT ![r].status = "needs_attention", ![r].owner = None, ![r].lease = "none"]
                    /\ rows' = [rows EXCEPT ![r] = [@ EXCEPT ![i].st = "needs_attention"]]
RowSkipped(a) == /\ req[a] # NoRequest /\ UNCHANGED worker /\ \E action : AttentionWrite(a, action)
                 /\ rows' = [rows EXCEPT ![req[a].run] = [@ EXCEPT ![req[a].row].st = "skipped"]]

LEMMA RowCases ==
  ASSUME Shape, Custody, Typed, [Next]_vars
  PROVE  \/ UNCHANGED rows
         \/ \E w \in Workers : WorkerStep(w) /\ (RowOpened(w) \/ RowClosed(w))
         \/ \E r \in Runs : \E i \in 1 .. Len(rows[r]) : RowInDoubt(r, i)
         \/ \E a \in Admins : RowSkipped(a)
  <1> USE DEF Shape, WorkerShape
  <1>1. ASSUME NEW w \in Workers, BeginNode(w) PROVE RowOpened(w)
    BY <1>1 DEF BeginNode, GoTo, RowOpened
  <1>2. ASSUME NEW w \in Workers, FinishNode(w) \/ FailNode(w) \/ FinishWaiting(w) PROVE RowClosed(w)
    <2>1. \E place \in Places \ Open : pc' = [pc EXCEPT ![w] = place]
      BY <1>2 DEF FinishNode, FailNode, FinishWaiting, GoTo, ToFinish, Places, Open
    <2> QED
      BY <1>2, <2>1 DEF FinishNode, FailNode, FinishWaiting, RowClosed, Closed
  <1>3. ASSUME NEW w \in Workers, NEW r \in Runs, Claim(w, r), rows' # rows
        PROVE  \E i \in 1 .. Len(rows[r]) : RowInDoubt(r, i)
    <2>1. PICK i \in InDoubt(r) : MarkUncertain(r, i)
      BY <1>3 DEF Claim
    <2>2. i \in 1 .. Len(rows[r])
      BY DEF InDoubt, Unfinished, Typed
    <2>3. Free(r)
      <3>1. \A x \in Workers : x # "dead"
        BY ConstantsAssumption
      <3> QED
        BY <1>3, <3>1 DEF Claim, Eligible, Recoverable, Free, Custody, Holding, Lapses
    <2> QED
      BY <2>1, <2>2, <2>3 DEF MarkUncertain, Marked, RowInDoubt
  <1>4. ASSUME NEW a \in Admins, NEW action \in {"retry", "skip", "terminate"}, AttentionWrite(a, action), rows' # rows
        PROVE  RowSkipped(a)
    BY <1>4 DEF AttentionWrite, RowSkipped
  <1>5. SUFFICES ASSUME rows' # rows
                PROVE  \/ \E w \in Workers : WorkerStep(w) /\ (RowOpened(w) \/ RowClosed(w))
                       \/ \E r \in Runs : \E i \in 1 .. Len(rows[r]) : RowInDoubt(r, i)
                       \/ \E a \in Admins : RowSkipped(a)
    OBVIOUS
  <1>6. ASSUME NEW w \in Workers, WorkerStep(w) PROVE RowOpened(w) \/ RowClosed(w)
    BY <1>1, <1>2, <1>5, <1>6
    DEF WorkerStep, Look, Execute, Act, ReadWait, CreateWait, Checkpoint, Park, GiveBack, FinishRun
  <1>7. \/ \E w \in Workers : WorkerStep(w)
        \/ \E w \in Workers, r \in Runs : Claim(w, r)
        \/ \E a \in Admins, action \in {"retry", "skip", "terminate"} : AttentionWrite(a, action)
    BY <1>5 DEF Next, Enqueue, Cancel, Wake, LeaseLapses, ResolveWait, ExpireWaits, AttentionRead, Crash, vars
  <1> HIDE DEF Shape, WorkerShape
  <1> QED
    BY <1>3, <1>4, <1>5, <1>6, <1>7

LEMMA RowTypes ==
  ASSUME Shape, Custody, Typed, Looked, Ours, [Next]_vars
  PROVE  rows' \in [Runs -> Seq(NodeRows)]
  <1> USE DEF Typed, Shape, WorkerShape
  <1>1. ASSUME NEW w \in Workers, RowOpened(w) PROVE rows' \in [Runs -> Seq(NodeRows)]
    <2>1. cur[w] \in Runs /\ [node |-> node[w], st |-> "running"] \in NodeRows
      BY <1>1 DEF RowOpened, Outcomes, NodeRows
    <2>2. Append(rows[cur[w]], [node |-> node[w], st |-> "running"]) \in Seq(NodeRows)
      BY <2>1
    <2> QED
      BY <1>1, <2>1, <2>2 DEF RowOpened
  <1>2. ASSUME NEW w \in Workers, RowClosed(w) PROVE rows' \in [Runs -> Seq(NodeRows)]
    <2>1. cur[w] \in Runs /\ Len(rows[cur[w]]) > 0
      BY <1>2 DEF RowClosed, Ours, Open
    <2>2. Front(rows[cur[w]]) \in Seq(NodeRows)
      BY <2>1, FrontOf
    <2> QED
      BY <1>2, <2>1, <2>2 DEF RowClosed
  <1>3. ASSUME NEW r \in Runs, NEW i \in 1 .. Len(rows[r]), RowInDoubt(r, i) PROVE rows' \in [Runs -> Seq(NodeRows)]
    <2>1. [rows[r] EXCEPT ![i].st = "needs_attention"] \in Seq(NodeRows)
      BY RowMarked
    <2> QED
      BY <1>3, <2>1 DEF RowInDoubt
  <1>4. ASSUME NEW a \in Admins, RowSkipped(a) PROVE rows' \in [Runs -> Seq(NodeRows)]
    <2> DEFINE r == req[a].run
               i == req[a].row
    <2>1. r \in Runs /\ i \in 1 .. Len(rows[r])
      BY <1>4 DEF Looked, RowSkipped
    <2> HIDE DEF r, i
    <2>2. [rows[r] EXCEPT ![i].st = "skipped"] \in Seq(NodeRows)
      BY <2>1, RowMarked
    <2>3. rows' = [rows EXCEPT ![r] = [rows[r] EXCEPT ![i].st = "skipped"]]
      BY <1>4, <2>1 DEF RowSkipped, r, i
    <2> QED
      BY <2>1, <2>2, <2>3
  <1> QED
    BY <1>1, <1>2, <1>3, <1>4, RowCases

\* What the steps do to the row of a run.
Owners == Workers \cup {None, "dead"}
LEMMA RunUpdates ==
  ASSUME NEW row \in RunRows
  PROVE  /\ \A status \in Statuses : [row EXCEPT !.status = status] \in RunRows
         /\ \A status \in Statuses, owner \in Owners, lease \in {"none", "live", "lapsed"} :
              [row EXCEPT !.status = status, !.owner = owner, !.lease = lease] \in RunRows
         /\ \A status \in Statuses : [row EXCEPT !.status = status, !.asleep = FALSE] \in RunRows
         /\ \A status \in Statuses, s \in StateSet :
              [row EXCEPT !.status = status, !.asleep = FALSE, !.st = s] \in RunRows
         /\ \A s \in StateSet : [row EXCEPT !.st = s] \in RunRows
         /\ [row EXCEPT !.asleep = FALSE] \in RunRows
         /\ [row EXCEPT !.lease = "lapsed"] \in RunRows
         /\ [row EXCEPT !.owner = "dead"] \in RunRows
  BY DEF RunRows, Owners

LEMMA RunTypes ==
  ASSUME Shape, Typed, Looked, [Next]_vars
  PROVE  run' \in [Runs -> RunRows]
  <1> USE DEF Shape, WorkerShape, Typed
  <1>0. ASSUME NEW r \in Runs PROVE run[r] \in RunRows
    OBVIOUS
  <1>1. ASSUME NEW r \in Runs, NEW row \in RunRows, run' = [run EXCEPT ![r] = row] PROVE run' \in [Runs -> RunRows]
    BY <1>1
  <1>2. ASSUME NEW r \in Runs, Enqueue(r) \/ Cancel(r) \/ Wake(r) \/ LeaseLapses(r) PROVE run' \in [Runs -> RunRows]
    <2>1. \E row \in RunRows : run' = [run EXCEPT ![r] = row]
      <3>1. \A status \in {"queued", "canceled"} : status \in Statuses
        BY DEF Statuses, FINISHED
      <3>2. run[r] \in RunRows /\ None \in Owners
        BY <1>0 DEF Owners
      <3>3. CASE Cancel(r)
        <4>1. run' = [run EXCEPT ![r] = [run[r] EXCEPT !.status = "canceled", !.owner = None, !.lease = "none"]]
          BY <3>3 DEF Cancel
        <4>2. [run[r] EXCEPT !.status = "canceled", !.owner = None, !.lease = "none"] \in RunRows
          BY <3>1, <3>2, RunUpdates
        <4> QED
          BY <4>1, <4>2
      <3>4. CASE Enqueue(r)
        BY <3>1, <3>2, <3>4, RunUpdates DEF Enqueue
      <3>5. CASE Wake(r)
        BY <3>2, <3>5, RunUpdates DEF Wake
      <3>6. CASE LeaseLapses(r)
        BY <3>2, <3>6, RunUpdates DEF LeaseLapses
      <3> QED
        BY <1>2, <3>3, <3>4, <3>5, <3>6
    <2> HIDE DEF Typed
    <2> QED
      BY <1>1, <2>1
  <1>3. ASSUME NEW r \in Runs, NEW n \in Nodes, ResolveWait(r, n) \/ ExpireWaits(r, n) PROVE run' \in [Runs -> RunRows]
    <2>1. Requeued(r) \in RunRows
      BY <1>0, RunUpdates DEF Requeued, Statuses
    <2> QED
      BY <1>1, <1>3, <2>1 DEF ResolveWait, ExpireWaits
  <1>4. ASSUME NEW a \in Admins, NEW action \in {"retry", "skip", "terminate"}, AttentionWrite(a, action)
        PROVE  run' \in [Runs -> RunRows]
    <2> DEFINE r == req[a].run
               n == rows[r][req[a].row].node
               s == IF action = "retry" THEN Retried(req[a].st, n) ELSE Skipped(req[a].st, n)
    <2>1. r \in Runs /\ n \in Nodes
      <3>1. r \in Runs /\ req[a].row \in 1 .. Len(rows[r])
        BY <1>4 DEF AttentionWrite, Looked
      <3>2. rows[r][req[a].row] \in NodeRows
        BY <3>1
      <3> QED
        BY <3>1, <3>2 DEF NodeRows
    <2>2. s \in StateSet
      <3>1. req[a].st \in StateSet
        BY DEF Requests
      <3> QED
        BY <2>1, <3>1, RetriedAndSkipped
    <2>3. \/ run' = run
          \/ run' = [run EXCEPT ![r].status = "failed"]
          \/ run' = [run EXCEPT ![r].status = "queued", ![r].asleep = FALSE, ![r].st = s]
      BY <1>4 DEF AttentionWrite
    <2> HIDE DEF r, s
    <2>4. run[r] \in RunRows /\ "failed" \in Statuses /\ "queued" \in Statuses
      BY <1>0, <2>1 DEF Statuses, FINISHED
    <2>5. run' = run \/ \E row \in RunRows : run' = [run EXCEPT ![r] = row]
      <3>1. CASE run' = [run EXCEPT ![r].status = "failed"]
        BY <2>4, <3>1, RunUpdates
      <3>2. CASE run' = [run EXCEPT ![r].status = "queued", ![r].asleep = FALSE, ![r].st = s]
        <4>1. run' = [run EXCEPT ![r] = [run[r] EXCEPT !.status = "queued", !.asleep = FALSE, !.st = s]]
          BY <2>1, <3>2
        <4>2. [run[r] EXCEPT !.status = "queued", !.asleep = FALSE, !.st = s] \in RunRows
          BY <2>2, <2>4, RunUpdates
        <4> QED
          BY <4>1, <4>2
      <3> QED
        BY <2>3, <3>1, <3>2
    <2> QED
      BY <1>1, <2>1, <2>5
  <1>5. ASSUME NEW w \in Workers, Checkpoint(w) \/ Park(w) PROVE run' \in [Runs -> RunRows]
    <2>1. cur[w] \in Runs /\ loc[w] \in StateSet
      BY <1>5 DEF Checkpoint, Park, WorkerTypes
    <2>2. pc[w] = "park" => [loc[w] EXCEPT !.queue = <<node[w]>> \o @] \in StateSet
      BY <2>1, StateUpdates DEF Outcomes, Open
    <2>3. CASE UNCHANGED run
      BY <2>3
    <2>4. ASSUME NEW s \in StateSet, run' = [run EXCEPT ![cur[w]].st = s] PROVE run' \in [Runs -> RunRows]
      <3>1. [run[cur[w]] EXCEPT !.st = s] \in RunRows
        BY <1>0, <2>1, <2>4, RunUpdates
      <3> QED
        BY <1>1, <2>1, <2>4, <3>1
    <2>5. UNCHANGED run \/ run' = [run EXCEPT ![cur[w]].st = loc[w]]
          \/ (pc[w] = "park" /\ run' = [run EXCEPT ![cur[w]].st = [loc[w] EXCEPT !.queue = <<node[w]>> \o @]])
      BY <1>5 DEF Checkpoint, Park, SaveAnd
    <2> HIDE DEF Typed
    <2> QED
      BY <2>1, <2>2, <2>3, <2>4, <2>5
  <1>6. ASSUME NEW w \in Workers, GiveBack(w) PROVE run' \in [Runs -> RunRows]
    <2>1. cur[w] \in Runs /\ loc[w] \in StateSet
      BY <1>6 DEF GiveBack, WorkerTypes
    <2> DEFINE row == [status |-> IF pc[w] = "suspend" THEN "waiting" ELSE "queued", st |-> loc[w],
                       asleep |-> pc[w] = "requeue", owner |-> None, lease |-> "none"]
    <2>2. row \in RunRows
      BY <2>1 DEF RunRows, Statuses
    <2>3. run' = [run EXCEPT ![cur[w]] = row]
      BY <1>6 DEF GiveBack
    <2> HIDE DEF row
    <2> QED
      BY <1>1, <2>1, <2>2, <2>3
  <1>7. ASSUME NEW w \in Workers, FinishRun(w) PROVE run' \in [Runs -> RunRows]
    <2>1. cur[w] \in Runs /\ out[w] \in FINISHED
      BY <1>7 DEF FinishRun, Outcomes
    <2> QED
      <3>1. run[cur[w]] \in RunRows /\ out[w] \in Statuses /\ None \in Owners
        BY <1>0, <2>1 DEF Statuses, Owners
      <3>2. [run[cur[w]] EXCEPT !.status = out[w], !.owner = None, !.lease = "none"] \in RunRows
        BY <3>1, RunUpdates
      <3> QED
        BY <1>1, <1>7, <2>1, <3>2 DEF FinishRun
  <1>8. ASSUME NEW w \in Workers, NEW r \in Runs, Claim(w, r) PROVE run' \in [Runs -> RunRows]
    <2>1. \/ run' = [run EXCEPT ![r].status = "needs_attention", ![r].owner = None, ![r].lease = "none"]
          \/ run' = [run EXCEPT ![r].status = "running", ![r].owner = w, ![r].lease = "live"]
      BY <1>8 DEF Claim, MarkUncertain
    <2>2. run[r] \in RunRows /\ "needs_attention" \in Statuses /\ "running" \in Statuses /\ None \in Owners /\ w \in Owners
      BY <1>0 DEF Statuses, Owners
    <2>3. \E row \in RunRows : run' = [run EXCEPT ![r] = row]
      <3>1. CASE run' = [run EXCEPT ![r].status = "needs_attention", ![r].owner = None, ![r].lease = "none"]
        <4>1. run' = [run EXCEPT ![r] = [run[r] EXCEPT !.status = "needs_attention", !.owner = None, !.lease = "none"]]
          BY <3>1
        <4>2. [run[r] EXCEPT !.status = "needs_attention", !.owner = None, !.lease = "none"] \in RunRows
          BY <2>2, RunUpdates
        <4> QED
          BY <4>1, <4>2
      <3>2. CASE run' = [run EXCEPT ![r].status = "running", ![r].owner = w, ![r].lease = "live"]
        <4>1. run' = [run EXCEPT ![r] = [run[r] EXCEPT !.status = "running", !.owner = w, !.lease = "live"]]
          BY <3>2
        <4>2. [run[r] EXCEPT !.status = "running", !.owner = w, !.lease = "live"] \in RunRows
          BY <2>2, RunUpdates
        <4> QED
          BY <4>1, <4>2
      <3> QED
        BY <2>1, <3>1, <3>2
    <2> QED
      BY <1>1, <2>3
  <1>9. CASE Crash
    BY <1>0, <1>9, RunUpdates DEF Crash
  <1>10. CASE UNCHANGED run
    BY <1>10
  <1> HIDE DEF Shape, WorkerShape, Typed
  <1> QED
    BY <1>2, <1>3, <1>4, <1>5, <1>6, <1>7, <1>8, <1>9, <1>10, RunCases

LEMMA OtherTypes ==
  ASSUME Shape, Typed, [Next]_vars
  PROVE  /\ req' \in [Admins -> Requests] /\ acted' \in [Runs -> SUBSET Nodes]
         /\ crashes' \in 0 .. MaxCrashes
  <1> USE DEF Typed, Shape, WorkerShape
  <1>1. crashes' \in 0 .. MaxCrashes
    <2>1. crashes' = crashes \/ (crashes < MaxCrashes /\ crashes' = crashes + 1)
      BY DEF Next, WorkerStep, Look, BeginNode, Execute, Act, ReadWait, CreateWait, FinishNode,
         FailNode, Checkpoint, Park, FinishWaiting, GiveBack, FinishRun, Claim, Enqueue, Cancel, Wake, LeaseLapses,
         ResolveWait, ExpireWaits, AttentionRead, AttentionWrite, Crash, vars
    <2> QED
      BY <2>1, ConstantsAssumption
  <1>2. acted' \in [Runs -> SUBSET Nodes]
    <2>1. ASSUME NEW w \in Workers, Act(w) PROVE acted' \in [Runs -> SUBSET Nodes]
      <3>1. cur[w] \in Runs /\ node[w] \in Nodes
        BY <2>1 DEF Act, Here, Outcomes, Open
      <3> QED
        BY <2>1, <3>1 DEF Act
    <2> QED
      BY <2>1 DEF Next, WorkerStep, Look, BeginNode, Execute, ReadWait, CreateWait, FinishNode,
         FailNode, Checkpoint, Park, FinishWaiting, GiveBack, FinishRun, Claim, Enqueue, Cancel, Wake, LeaseLapses,
         ResolveWait, ExpireWaits, AttentionRead, AttentionWrite, Crash, vars
  <1>3. req' \in [Admins -> Requests]
    <2>1. ASSUME NEW a \in Admins, NEW r \in Runs, AttentionRead(a, r) PROVE req' \in [Admins -> Requests]
      <3> DEFINE i == CHOOSE i \in ToSeeTo(r) : \A j \in ToSeeTo(r) : j <= i
                 new == [run |-> r, st |-> run[r].st, row |-> i]
      <3>1. i \in ToSeeTo(r)
        <4>1. ToSeeTo(r) \subseteq 1 .. Len(rows[r]) /\ ToSeeTo(r) # {} /\ Len(rows[r]) \in Nat
          BY <2>1 DEF ToSeeTo, AttentionRead
        <4>2. \E x \in ToSeeTo(r) : \A j \in ToSeeTo(r) : j <= x
          BY <4>1, GreatestNumber
        <4> QED
          BY <4>2
      <3>2. i \in Nat /\ run[r].st \in StateSet
        BY <3>1 DEF ToSeeTo, RunRows
      <3> HIDE DEF i
      <3>3. new \in Requests
        BY <3>2 DEF Requests
      <3>4. req' = [req EXCEPT ![a] = new]
        BY <2>1 DEF AttentionRead, i
      <3> HIDE DEF new
      <3> QED
        BY <3>3, <3>4
    <2>2. NoRequest \in Requests
      BY StatesAreStates DEF NoRequest, Requests
    <2>3. ASSUME NEW a \in Admins, NEW action, AttentionWrite(a, action) PROVE req' \in [Admins -> Requests]
      BY <2>2, <2>3 DEF AttentionWrite
    <2>4. CASE Crash
      BY <2>2, <2>4 DEF Crash
    <2> QED
      BY <2>1, <2>3, <2>4
      DEF Next, WorkerStep, Look, BeginNode, Execute, Act, ReadWait, CreateWait, FinishNode,
         FailNode, Checkpoint, Park, FinishWaiting, GiveBack, FinishRun, Claim, Enqueue, Cancel, Wake, LeaseLapses,
         ResolveWait, ExpireWaits, vars
  <1> QED
    BY <1>1, <1>2, <1>3

\* How a worker comes to have a row of its own, or none.
LEMMA PlaceCases ==
  ASSUME Shape, Typed, [Next]_vars, NEW w \in Workers
  PROVE  /\ pc'[w] \in Open => /\ cur'[w] = cur[w] /\ node'[w] = node[w]
                               /\ pc[w] \in Open \/ (pc[w] = "begin" /\ RowOpened(w))
         /\ pc'[w] \in Bare => \/ pc[w] \in Bare /\ cur'[w] = cur[w]
                               \/ pc[w] \in Open /\ cur'[w] = cur[w] /\ RowClosed(w)
                               \/ \E r \in Runs : Claim(w, r) /\ InDoubt(r) = {} /\ pc'[w] = "loop" /\ cur'[w] = r
                                                  /\ UNCHANGED rows
  <1> USE DEF Shape, WorkerShape
  <1>1. CASE UNCHANGED worker
    BY <1>1 DEF worker
  <1>2. CASE Crash
    BY <1>2 DEF Crash, Open, Bare
  <1>3. ASSUME NEW v \in Workers, NEW r \in Runs, Claim(v, r)
        PROVE  \/ UNCHANGED worker
               \/ v # w /\ pc'[w] = pc[w] /\ cur'[w] = cur[w] /\ node'[w] = node[w]
               \/ v = w /\ InDoubt(r) = {} /\ pc'[w] = "loop" /\ cur'[w] = r /\ UNCHANGED rows
    BY <1>3 DEF Claim, MarkUncertain
  <1>4. CASE pc'[w] = pc[w] /\ cur'[w] = cur[w] /\ node'[w] = node[w]
    BY <1>4
  <1>5. ASSUME NEW v \in Workers \ {w}, WorkerStep(v) PROVE pc'[w] = pc[w] /\ cur'[w] = cur[w] /\ node'[w] = node[w]
    BY <1>5, OthersStay
  <1>6. CASE Look(w)
    BY <1>6 DEF Look, GoTo, ToFinish, Leave, Open, Bare
  <1>7. CASE BeginNode(w)
    BY <1>7 DEF BeginNode, GoTo, RowOpened, Open, Bare
  <1>8. CASE Execute(w) \/ Act(w) \/ ReadWait(w) \/ CreateWait(w)
    BY <1>8 DEF Execute, Act, ReadWait, CreateWait, Here, Done, Failed, GoTo, Open, Bare
  <1>9. CASE FinishNode(w) \/ FailNode(w) \/ FinishWaiting(w)
    <2>1. \E place \in Places \ Open : pc' = [pc EXCEPT ![w] = place] /\ UNCHANGED cur
      BY <1>9 DEF FinishNode, FailNode, FinishWaiting, GoTo, ToFinish, Places, Open
    <2> QED
      BY <1>9, <2>1 DEF FinishNode, FailNode, FinishWaiting, RowClosed, Closed, Open
  <1>10. CASE Checkpoint(w) \/ Park(w)
    BY <1>10 DEF Checkpoint, Park, SaveAnd, GoTo, ToFinish, Open, Bare
  <1>11. CASE GiveBack(w) \/ FinishRun(w)
    BY <1>11 DEF GiveBack, FinishRun, Leave, Open, Bare
  <1>12. CASE \E v \in Workers : WorkerStep(v)
    <2>1. WorkerStep(w) \/ \E v \in Workers \ {w} : WorkerStep(v)
      BY <1>12
    <2>2. CASE WorkerStep(w)
      BY <2>2, <1>6, <1>7, <1>8, <1>9, <1>10, <1>11 DEF WorkerStep
    <2> QED
      BY <1>4, <1>5, <2>1, <2>2
  <1>13. CASE \E v \in Workers, r \in Runs : Claim(v, r)
    <2>1. PICK v \in Workers, r \in Runs : Claim(v, r)
      BY <1>13
    <2>2. CASE v = w /\ InDoubt(r) = {} /\ pc'[w] = "loop" /\ cur'[w] = r /\ UNCHANGED rows
      BY <2>1, <2>2 DEF Open
    <2> QED
      BY <1>1, <1>3, <1>4, <2>1, <2>2
  <1> QED
    BY <1>1, <1>2, <1>12, <1>13
    DEF Next, Enqueue, Cancel, Wake, LeaseLapses, ResolveWait, ExpireWaits, AttentionRead, AttentionWrite,
        vars, worker

\* What becomes of the rows of a run that somebody else than w works on, or nobody.
LEMMA RowsOfOthers ==
  ASSUME Shape, Custody, Typed, Looked, Ours, [Next]_vars, NEW r \in Runs
  PROVE  \/ rows'[r] = rows[r]
         \/ \E w \in Workers : cur[w] = r /\ pc[w] # "idle" /\ (RowOpened(w) \/ RowClosed(w))
         \/ \E i \in 1 .. Len(rows[r]) : RowInDoubt(r, i)
         \/ \E a \in Admins : RowSkipped(a) /\ req[a].run = r
  <1> USE DEF Typed
  <1>1. ASSUME NEW w \in Workers, RowOpened(w) \/ RowClosed(w), rows'[r] # rows[r] PROVE cur[w] = r /\ pc[w] # "idle"
    BY <1>1 DEF RowOpened, RowClosed
  <1>2. ASSUME NEW x \in Runs, NEW i \in 1 .. Len(rows[x]), RowInDoubt(x, i), rows'[r] # rows[r] PROVE x = r
    BY <1>2 DEF RowInDoubt
  <1>3. ASSUME NEW a \in Admins, RowSkipped(a), rows'[r] # rows[r] PROVE req[a].run = r
    <2>1. req[a].run \in Runs
      BY <1>3 DEF RowSkipped, Looked
    <2> QED
      BY <1>3, <2>1 DEF RowSkipped
  <1> HIDE DEF Typed
  <1> QED
    BY <1>1, <1>2, <1>3, RowCases

\* The rows of a run after a row was opened, closed or marked in it.
LEMMA AfterOpened ==
  ASSUME Shape, Typed, NEW w \in Workers, RowOpened(w), NEW r \in Runs, cur[w] = r
  PROVE  /\ Len(rows'[r]) = Len(rows[r]) + 1 /\ \A i \in 1 .. Len(rows[r]) : rows'[r][i] = rows[r][i]
         /\ rows'[r][Len(rows[r]) + 1] = [node |-> node[w], st |-> "running"]
  <1>1. [node |-> node[w], st |-> "running"] \in NodeRows
    BY DEF RowOpened, Outcomes, NodeRows, Typed
  <1>2. rows'[r] = Append(rows[r], [node |-> node[w], st |-> "running"]) /\ rows[r] \in Seq(NodeRows)
    BY DEF RowOpened, Typed
  <1> QED
    BY <1>1, <1>2, AppendProperties

LEMMA AfterClosed ==
  ASSUME Shape, Typed, Ours, NEW w \in Workers, RowClosed(w), NEW r \in Runs, cur[w] = r
  PROVE  /\ Len(rows[r]) > 0 /\ Len(rows'[r]) = Len(rows[r]) - 1
         /\ \A i \in 1 .. Len(rows[r]) - 1 : rows'[r][i] = rows[r][i]
  <1>1. Len(rows[r]) > 0 /\ rows'[r] = Front(rows[r]) /\ rows[r] \in Seq(NodeRows)
    BY DEF RowClosed, Ours, Open, Typed
  <1> QED
    BY <1>1, FrontOf

LEMMA AfterDoubt ==
  ASSUME Shape, Typed, NEW r \in Runs, NEW i \in 1 .. Len(rows[r]), RowInDoubt(r, i)
  PROVE  /\ Len(rows'[r]) = Len(rows[r]) /\ \A j \in 1 .. Len(rows[r]) \ {i} : rows'[r][j] = rows[r][j]
         /\ rows'[r][i] = [node |-> rows[r][i].node, st |-> "needs_attention"]
  <1>1. rows'[r] = [rows[r] EXCEPT ![i].st = "needs_attention"] /\ rows[r] \in Seq(NodeRows)
    BY DEF RowInDoubt, Typed
  <1> DEFINE q == rows[r]
  <1>2. /\ Len([q EXCEPT ![i].st = "needs_attention"]) = Len(q)
        /\ \A j \in 1 .. Len(q) \ {i} : [q EXCEPT ![i].st = "needs_attention"][j] = q[j]
        /\ [q EXCEPT ![i].st = "needs_attention"][i] = [node |-> q[i].node, st |-> "needs_attention"]
    <2>1. q \in Seq(NodeRows) /\ i \in 1 .. Len(q)
      BY <1>1
    <2> HIDE DEF q
    <2> QED
      BY <2>1, RowMarked
  <1> QED
    BY <1>1, <1>2

LEMMA AfterSkipped ==
  ASSUME Shape, Typed, Looked, NEW a \in Admins, RowSkipped(a), NEW r \in Runs, req[a].run = r
  PROVE  /\ Len(rows'[r]) = Len(rows[r]) /\ req[a].row \in 1 .. Len(rows[r])
         /\ \A j \in 1 .. Len(rows[r]) \ {req[a].row} : rows'[r][j] = rows[r][j]
         /\ rows'[r][req[a].row] = [node |-> rows[r][req[a].row].node, st |-> "skipped"]
  <1> DEFINE q == rows[r]
             i == req[a].row
  <1>1. rows'[r] = [q EXCEPT ![i].st = "skipped"] /\ q \in Seq(NodeRows) /\ i \in 1 .. Len(q)
    BY DEF RowSkipped, Typed, Looked
  <1>2. /\ Len([q EXCEPT ![i].st = "skipped"]) = Len(q)
        /\ \A j \in 1 .. Len(q) \ {i} : [q EXCEPT ![i].st = "skipped"][j] = q[j]
        /\ [q EXCEPT ![i].st = "skipped"][i] = [node |-> q[i].node, st |-> "skipped"]
    <2>1. q \in Seq(NodeRows) /\ i \in 1 .. Len(q)
      BY <1>1
    <2> HIDE DEF q, i
    <2> QED
      BY <2>1, RowMarked
  <1> QED
    BY <1>1, <1>2

LEMMA OursNext ==
  ASSUME Shape, Custody, Typed, Looked, Ours, [Next]_vars
  PROVE  Ours'
  <1> SUFFICES ASSUME NEW w \in Workers, pc'[w] \in Open
               PROVE  /\ Len(rows'[cur'[w]]) > 0
                      /\ rows'[cur'[w]][Len(rows'[cur'[w]])] = [node |-> node'[w], st |-> "running"]
    BY DEF Ours
  <1> DEFINE r == cur[w]
  <1>0. /\ cur'[w] = r /\ node'[w] = node[w] /\ pc[w] # "idle" /\ r \in Runs
        /\ pc[w] \in Open \/ (pc[w] = "begin" /\ RowOpened(w))
    <2>1. cur'[w] = cur[w] /\ node'[w] = node[w] /\ (pc[w] \in Open \/ (pc[w] = "begin" /\ RowOpened(w)))
      BY PlaceCases
    <2> QED
      BY <2>1 DEF Open, Shape, WorkerShape
  <1> HIDE DEF r
  <1>1. Len(rows[r]) \in Nat
    BY <1>0 DEF Typed
  <1>2. CASE pc[w] = "begin" /\ RowOpened(w)
    BY <1>0, <1>1, <1>2, AfterOpened DEF r
  <1>3. CASE pc[w] \in Open
    <2>1. Len(rows[r]) > 0 /\ rows[r][Len(rows[r])] = [node |-> node[w], st |-> "running"]
      BY <1>3 DEF Ours, r
    <2>2. CASE rows'[r] = rows[r]
      BY <1>0, <2>1, <2>2
    <2>3. ASSUME NEW v \in Workers, cur[v] = r, pc[v] # "idle", RowOpened(v) \/ RowClosed(v) PROVE FALSE
      <3>1. v = w
        BY <1>0, <2>3 DEF Custody, OneExecutor, r
      <3> QED
        BY <1>3, <2>3, <3>1 DEF RowOpened, RowClosed, Open
    <2>4. ASSUME NEW i \in 1 .. Len(rows[r]), RowInDoubt(r, i) PROVE FALSE
      BY <1>0, <2>4 DEF RowInDoubt, Free, r
    <2>5. ASSUME NEW a \in Admins, RowSkipped(a), req[a].run = r
          PROVE  Len(rows'[r]) > 0 /\ rows'[r][Len(rows'[r])] = rows[r][Len(rows[r])]
      <3>1. req[a].row < Len(rows[r])
        BY <1>3, <2>5 DEF RowSkipped, Looked, r
      <3> QED
        <4>1. /\ Len(rows'[r]) = Len(rows[r])
              /\ \A j \in 1 .. Len(rows[r]) \ {req[a].row} : rows'[r][j] = rows[r][j]
          BY <1>0, <2>5, AfterSkipped
        <4> QED
          BY <1>1, <2>1, <3>1, <4>1
    <2> QED
      BY <1>0, <2>1, <2>2, <2>3, <2>4, <2>5, RowsOfOthers
  <1> QED
    BY <1>0, <1>2, <1>3

LEMMA LookedNext ==
  ASSUME Shape, Custody, Typed, Looked, Ours, [Next]_vars
  PROVE  Looked'
  <1> SUFFICES ASSUME NEW a \in Admins, req'[a] # NoRequest
               PROVE  /\ req'[a].run \in Runs /\ req'[a].row \in 1 .. Len(rows'[req'[a].run])
                      /\ \A w \in Workers : pc'[w] \in Open /\ cur'[w] = req'[a].run =>
                           req'[a].row < Len(rows'[req'[a].run])
    BY DEF Looked
  <1>1. CASE req'[a] = req[a]
    <2> DEFINE r == req[a].run
               i == req[a].row
    <2>1. /\ r \in Runs /\ i \in 1 .. Len(rows[r]) /\ Len(rows[r]) \in Nat
          /\ \A w \in Workers : pc[w] \in Open /\ cur[w] = r => i < Len(rows[r])
      BY <1>1 DEF Looked, Typed
    <2> HIDE DEF r, i
    <2>2. ASSUME NEW w \in Workers, pc'[w] \in Open, cur'[w] = r
          PROVE  (pc[w] \in Open /\ i < Len(rows[r]) /\ cur[w] = r) \/ (cur[w] = r /\ RowOpened(w))
      BY <2>1, <2>2, PlaceCases
    <2>3. CASE rows'[r] = rows[r]
      <3>1. ASSUME NEW w \in Workers, cur[w] = r, RowOpened(w) PROVE FALSE
        <4>1. Len(rows'[r]) = Len(rows[r]) + 1
          BY <2>1, <3>1, AfterOpened
        <4> QED
          BY <2>1, <2>3, <4>1
      <3> QED
        BY <1>1, <2>1, <2>2, <2>3, <3>1 DEF r, i
    <2>4. ASSUME NEW v \in Workers, cur[v] = r, pc[v] # "idle", RowOpened(v)
          PROVE  i < Len(rows'[r])
      <3>1. Len(rows'[r]) = Len(rows[r]) + 1
        BY <2>1, <2>4, AfterOpened
      <3> QED
        BY <2>1, <3>1
    <2>5. ASSUME NEW v \in Workers, cur[v] = r, pc[v] # "idle", RowClosed(v)
          PROVE  i <= Len(rows'[r]) /\ Len(rows'[r]) \in Nat /\ \A w \in Workers : ~(pc'[w] \in Open /\ cur'[w] = r)
      <3>1. i < Len(rows[r]) /\ Len(rows'[r]) = Len(rows[r]) - 1
        BY <2>1, <2>5, AfterClosed DEF RowClosed, Open
      <3>2. ASSUME NEW w \in Workers, pc'[w] \in Open, cur'[w] = r PROVE FALSE
        <4>1. cur[w] = r /\ pc[w] # "idle"
          BY <2>2, <3>2 DEF Open, RowOpened
        <4>2. w = v
          BY <2>5, <4>1 DEF Custody, OneExecutor
        <4> QED
          BY <2>5, <3>2, <4>2 DEF RowClosed
      <3> QED
        BY <2>1, <3>1, <3>2
    <2>6. ASSUME \/ \E j \in 1 .. Len(rows[r]) : RowInDoubt(r, j)
                 \/ \E b \in Admins : RowSkipped(b) /\ req[b].run = r
          PROVE  Len(rows'[r]) = Len(rows[r]) /\ \A w \in Workers : ~RowOpened(w) \/ cur[w] # r
      <3>1. Len(rows'[r]) = Len(rows[r])
        BY <2>1, <2>6, AfterDoubt, AfterSkipped
      <3>2. ASSUME NEW w \in Workers, RowOpened(w), cur[w] = r PROVE FALSE
        <4>1. Len(rows'[r]) = Len(rows[r]) + 1
          BY <2>1, <3>2, AfterOpened
        <4> QED
          BY <2>1, <3>1, <4>1
      <3> QED
        BY <3>1, <3>2
    <2>7. i \in 1 .. Len(rows'[r]) /\ \A w \in Workers : pc'[w] \in Open /\ cur'[w] = r => i < Len(rows'[r])
      <3>1. CASE \E v \in Workers : cur[v] = r /\ pc[v] # "idle" /\ RowOpened(v)
        <4>1. i < Len(rows'[r]) /\ Len(rows'[r]) = Len(rows[r]) + 1
          BY <2>1, <2>4, <3>1, AfterOpened
        <4> QED
          BY <2>1, <4>1
      <3>2. CASE \E v \in Workers : cur[v] = r /\ pc[v] # "idle" /\ RowClosed(v)
        BY <2>1, <2>5, <3>2
      <3>3. CASE \/ \E j \in 1 .. Len(rows[r]) : RowInDoubt(r, j)
                 \/ \E b \in Admins : RowSkipped(b) /\ req[b].run = r
        BY <2>1, <2>2, <2>6, <3>3
      <3> QED
        BY <1>1, <2>1, <2>3, <3>1, <3>2, <3>3, RowsOfOthers DEF r, i
    <2> QED
      BY <1>1, <2>1, <2>7 DEF r, i
  <1>2. ASSUME NEW r \in Runs, AttentionRead(a, r)
        PROVE  /\ req'[a].run = r /\ req'[a].row \in ToSeeTo(r) /\ UNCHANGED <<rows, worker>>
    <2> DEFINE i == CHOOSE i \in ToSeeTo(r) : \A j \in ToSeeTo(r) : j <= i
    <2>1. i \in ToSeeTo(r)
      <3>1. ToSeeTo(r) \subseteq 1 .. Len(rows[r]) /\ ToSeeTo(r) # {} /\ Len(rows[r]) \in Nat
        BY <1>2 DEF ToSeeTo, AttentionRead, Typed
      <3>2. \E x \in ToSeeTo(r) : \A j \in ToSeeTo(r) : j <= x
        BY <3>1, GreatestNumber
      <3> QED
        BY <3>2
    <2> HIDE DEF i
    <2>2. req' = [req EXCEPT ![a] = [run |-> r, st |-> run[r].st, row |-> i]]
      BY <1>2 DEF AttentionRead, i
    <2>3. req'[a] = [run |-> r, st |-> run[r].st, row |-> i]
      BY <2>2 DEF Typed
    <2>4. req'[a].run = r /\ req'[a].row = i
      BY <2>3
    <2>5. UNCHANGED <<rows, worker>>
      BY <1>2 DEF AttentionRead
    <2> QED
      BY <2>1, <2>4, <2>5
  <1>3. ASSUME NEW r \in Runs, AttentionRead(a, r)
        PROVE  /\ req'[a].run \in Runs /\ req'[a].row \in 1 .. Len(rows'[req'[a].run])
               /\ \A w \in Workers : pc'[w] \in Open /\ cur'[w] = req'[a].run =>
                    req'[a].row < Len(rows'[req'[a].run])
    <2>1. req'[a].run = r /\ rows' = rows /\ pc' = pc /\ cur' = cur
          /\ req'[a].row \in 1 .. Len(rows[r]) /\ rows[r][req'[a].row].st = "needs_attention"
      BY <1>2, <1>3 DEF worker, ToSeeTo, Typed
    <2>2. ASSUME NEW w \in Workers, pc[w] \in Open, cur[w] = r PROVE req'[a].row # Len(rows[r])
      <3>1. rows[r][Len(rows[r])] = [node |-> node[w], st |-> "running"]
        BY <2>2 DEF Ours
      <3> QED
        BY <2>1, <3>1
    <2>3. Len(rows[r]) \in Nat
      BY DEF Typed
    <2> QED
      BY <2>1, <2>2, <2>3
  <1>4. req'[a] = req[a] \/ \E r \in Runs : AttentionRead(a, r)
    <2>1. ASSUME NEW b \in Admins, NEW action, AttentionWrite(b, action) PROVE req'[a] \in {req[a], NoRequest}
      BY <2>1 DEF AttentionWrite, Typed
    <2>2. ASSUME NEW b \in Admins, NEW r \in Runs, AttentionRead(b, r) PROVE req'[a] = req[a] \/ b = a
      BY <2>2 DEF AttentionRead, Typed
    <2> QED
      BY <2>1, <2>2 DEF Next, WorkerStep, Look, BeginNode, Execute, Act, ReadWait, CreateWait, FinishNode,
         FailNode, Checkpoint, Park, FinishWaiting, GiveBack, FinishRun, Claim, Enqueue, Cancel, Wake, LeaseLapses,
         ResolveWait, ExpireWaits, Crash, vars
  <1> QED
    BY <1>1, <1>3, <1>4

-----------------------------------------------------------------------------
(* Writes in doubt.  The write a dead worker leaves open is the last row of *)
(* its run, and as long as it is open no worker comes to hold the run.      *)

Doubtful(r) == {i \in Unfinished(r) : Kind[rows[r][i].node] \in WriteKinds}
DoubtLast == \A r \in Runs : \A i \in Doubtful(r) : i = Len(rows[r])
DoubtFree == /\ \A w \in Workers : pc[w] \in Bare => Doubtful(cur[w]) = {}
             /\ \A r \in Runs : Doubtful(r) # {} => run[r].status \in FINISHED \cup {"running"}

\* A claim marks the write in doubt, or takes a run that has none.
LEMMA ClaimCases ==
  ASSUME Shape, Custody, Typed, NEW w \in Workers, NEW r \in Runs, Claim(w, r)
  PROVE  /\ Free(r) /\ \A x \in Runs \ {r} : run'[x] = run[x]
         /\ run'[r].st = run[r].st
         /\ \/ \E i \in 1 .. Len(rows[r]) : RowInDoubt(r, i) /\ MarkUncertain(r, i)
            \/ /\ InDoubt(r) = {} /\ run[r].status \in {"queued", "running"} /\ run'[r].status = "running"
               /\ UNCHANGED <<rows, waits>>
  <1> USE DEF Shape, WorkerShape
  <1>1. Free(r) /\ run[r].status \in {"queued", "running"}
    <2>1. \A x \in Workers : x # "dead"
      BY ConstantsAssumption
    <2> QED
      BY <2>1 DEF Claim, Eligible, Recoverable, Free, Custody, Holding, Lapses
  <1>2. ASSUME NEW i \in InDoubt(r), MarkUncertain(r, i)
        PROVE  i \in 1 .. Len(rows[r]) /\ RowInDoubt(r, i)
    <2>1. i \in 1 .. Len(rows[r])
      BY <1>2 DEF InDoubt, Unfinished, Typed
    <2> QED
      BY <1>1, <1>2, <2>1 DEF MarkUncertain, Marked, RowInDoubt
  <1>3. run[r] \in RunRows /\ run \in [Runs -> RunRows]
    BY DEF Typed
  <1>4. ASSUME run' = [run EXCEPT ![r].status = "needs_attention", ![r].owner = None, ![r].lease = "none"]
        PROVE  run'[r].st = run[r].st /\ \A x \in Runs \ {r} : run'[x] = run[x]
    BY <1>3, <1>4 DEF RunRows
  <1>5. ASSUME run' = [run EXCEPT ![r].status = "running", ![r].owner = w, ![r].lease = "live"]
        PROVE  run'[r].st = run[r].st /\ run'[r].status = "running" /\ \A x \in Runs \ {r} : run'[x] = run[x]
    BY <1>3, <1>5 DEF RunRows
  <1>6. run'[r].st = run[r].st /\ \A x \in Runs \ {r} : run'[x] = run[x]
    BY <1>4, <1>5 DEF Claim, MarkUncertain
  <1>7. CASE \E i \in InDoubt(r) : MarkUncertain(r, i)
    BY <1>1, <1>2, <1>6, <1>7
  <1>8. CASE ~ \E i \in InDoubt(r) : MarkUncertain(r, i)
    <2>1. run'[r].status = "running" /\ InDoubt(r) = {} /\ UNCHANGED <<rows, waits>>
      BY <1>3, <1>8 DEF Claim, RunRows
    <2> QED
      BY <1>1, <1>6, <2>1
  <1> QED
    BY <1>7, <1>8

\* What a step may do to the status and the state of a run.
LEMMA StatusCases ==
  ASSUME Shape, Custody, Typed, Looked, [Next]_vars, NEW r \in Runs
  PROVE  \/ /\ run'[r].st = run[r].st
            /\ \/ run'[r].status = run[r].status
               \/ run'[r].status \in FINISHED
               \/ run[r].status \in {"absent", "waiting"} /\ run'[r].status = "queued"
         \/ \E w \in Workers : cur[w] = r /\ (Checkpoint(w) \/ Park(w)) /\ run'[r].status = run[r].status
         \/ \E w \in Workers : cur[w] = r /\ GiveBack(w)
         \/ \E w \in Workers : Claim(w, r)
         \/ \E a \in Admins : /\ req[a].run = r /\ \E action : AttentionWrite(a, action)
                              /\ run[r].status = "needs_attention" /\ run'[r].status \in {"failed", "queued"}
  <1>0. run \in [Runs -> RunRows] /\ \A x \in Runs : run[x] \in RunRows
    BY DEF Typed
  <1>1. ASSUME NEW x \in Runs, Enqueue(x) \/ Cancel(x) \/ Wake(x) \/ LeaseLapses(x)
        PROVE  /\ run'[r].st = run[r].st
               /\ \/ run'[r].status = run[r].status \/ run'[r].status \in FINISHED
                  \/ run[r].status \in {"absent", "waiting"} /\ run'[r].status = "queued"
    <2>1. CASE x # r
      BY <1>0, <1>1, <2>1 DEF Enqueue, Cancel, Wake, LeaseLapses
    <2>2. CASE x = r
      <3>1. run[r] \in RunRows
        BY <1>0
      <3> QED
        BY <1>0, <1>1, <2>2, <3>1 DEF Enqueue, Cancel, Wake, LeaseLapses, Exists, RunRows, FINISHED
    <2> QED
      BY <2>1, <2>2
  <1>2. ASSUME NEW x \in Runs, NEW n \in Nodes, ResolveWait(x, n) \/ ExpireWaits(x, n)
        PROVE  /\ run'[r].st = run[r].st
               /\ \/ run'[r].status = run[r].status
                  \/ run[r].status \in {"absent", "waiting"} /\ run'[r].status = "queued"
    <2>1. run'[r] = IF r = x THEN Requeued(r) ELSE run[r]
      BY <1>0, <1>2 DEF ResolveWait, ExpireWaits
    <2>2. run[r] \in RunRows
      BY <1>0
    <2> QED
      BY <2>1, <2>2 DEF Requeued, RunRows
  <1>3. ASSUME NEW a \in Admins, NEW action \in {"retry", "skip", "terminate"}, AttentionWrite(a, action)
        PROVE  \/ run'[r] = run[r]
               \/ /\ req[a].run = r /\ run[r].status = "needs_attention" /\ run'[r].status \in {"failed", "queued"}
    <2>1. req[a].run \in Runs
      BY <1>3 DEF AttentionWrite, Looked
    <2>2. \/ run' = run
          \/ /\ run[req[a].run].status = "needs_attention"
             /\ run' = [run EXCEPT ![req[a].run].status = "failed"]
          \/ /\ run[req[a].run].status = "needs_attention"
             /\ \E s : run' = [run EXCEPT ![req[a].run].status = "queued", ![req[a].run].asleep = FALSE,
                                         ![req[a].run].st = s]
      BY <1>3 DEF AttentionWrite
    <2>3. CASE run' = run
      BY <2>3
    <2>4. CASE req[a].run # r
      BY <1>0, <2>1, <2>2, <2>4
    <2>5. CASE req[a].run = r /\ run' # run
      <3>1. run[r] \in RunRows /\ run[r].status = "needs_attention"
        BY <1>0, <2>2, <2>5
      <3>2. CASE run' = [run EXCEPT ![r].status = "failed"]
        BY <1>0, <2>5, <3>1, <3>2 DEF RunRows
      <3>3. ASSUME NEW s, run' = [run EXCEPT ![r].status = "queued", ![r].asleep = FALSE, ![r].st = s]
            PROVE  run'[r].status = "queued"
        BY <1>0, <2>5, <3>1, <3>3 DEF RunRows
      <3> QED
        BY <2>2, <2>5, <3>1, <3>2, <3>3
    <2> QED
      BY <2>3, <2>4, <2>5
  <1>4. ASSUME NEW w \in Workers, Checkpoint(w) \/ Park(w)
        PROVE  run'[r] = run[r] \/ (cur[w] = r /\ run'[r].status = run[r].status)
    <2>1. UNCHANGED run \/ \E s : run' = [run EXCEPT ![cur[w]].st = s]
      BY <1>4 DEF Checkpoint, Park, SaveAnd
    <2>2. ASSUME NEW s, run' = [run EXCEPT ![cur[w]].st = s], cur[w] = r PROVE run'[r].status = run[r].status
      <3>1. run[r] \in RunRows
        BY <1>0
      <3> QED
        BY <1>0, <2>2, <3>1 DEF RunRows
    <2> QED
      BY <1>0, <2>1, <2>2
  <1>5. ASSUME NEW w \in Workers, GiveBack(w), cur[w] # r PROVE run'[r] = run[r]
    BY <1>0, <1>5 DEF GiveBack
  <1>6. ASSUME NEW w \in Workers, FinishRun(w)
        PROVE  run'[r].st = run[r].st /\ (run'[r] = run[r] \/ run'[r].status \in FINISHED)
    <2>1. out[w] \in FINISHED
      BY <1>6 DEF FinishRun, Typed, Outcomes
    <2>2. run[r] \in RunRows
      BY <1>0
    <2>3. CASE cur[w] = r
      BY <1>0, <1>6, <2>1, <2>2, <2>3 DEF FinishRun, RunRows
    <2>4. CASE cur[w] # r
      BY <1>0, <1>6, <2>4 DEF FinishRun
    <2> QED
      BY <2>3, <2>4
  <1>7. ASSUME NEW w \in Workers, NEW x \in Runs, Claim(w, x), x # r PROVE run'[r] = run[r]
    BY <1>7, ClaimCases
  <1>8. CASE Crash
    <2>1. run'[r] = IF run[r].owner = None THEN run[r] ELSE [run[r] EXCEPT !.owner = "dead"]
      BY <1>8 DEF Crash
    <2>2. run[r] \in RunRows
      BY <1>0
    <2>3. run'[r].st = run[r].st /\ run'[r].status = run[r].status
      BY <2>1, <2>2 DEF RunRows
    <2> QED
      BY <2>3
  <1>9. CASE UNCHANGED run
    BY <1>9
  <1> QED
    BY <1>1, <1>2, <1>3, <1>4, <1>5, <1>6, <1>7, <1>8, <1>9, RunCases

\* Where a write in doubt comes from.
LEMMA DoubtKept ==
  ASSUME Shape, Custody, Typed, Looked, Ours, DoubtLast, DoubtFree, [Next]_vars, NEW r \in Runs, NEW i \in Doubtful(r)'
  PROVE  \/ /\ i \in Doubtful(r) /\ i = Len(rows'[r]) /\ rows'[r][i] = rows[r][i]
            /\ \A w \in Workers : cur[w] = r => ~RowOpened(w) /\ ~RowClosed(w)
            /\ \A k \in 1 .. Len(rows[r]) : ~RowInDoubt(r, k)
         \/ \E w \in Workers : cur[w] = r /\ RowOpened(w) /\ i = Len(rows'[r]) /\ rows'[r][i].node = node[w]
  <1>0. /\ Len(rows[r]) \in Nat /\ Len(rows'[r]) \in Nat
        /\ i \in 1 .. Len(rows'[r]) /\ rows'[r][i].st = "running" /\ Kind[rows'[r][i].node] \in WriteKinds
    <2>1. rows \in [Runs -> Seq(NodeRows)] /\ rows' \in [Runs -> Seq(NodeRows)]
      BY RowTypes DEF Typed
    <2> QED
      BY <2>1 DEF Doubtful, Unfinished
  <1>1. ASSUME i \in 1 .. Len(rows[r]), rows'[r][i] = rows[r][i] PROVE i \in Doubtful(r) /\ i = Len(rows[r])
    <2>1. i \in Doubtful(r)
      BY <1>0, <1>1 DEF Doubtful, Unfinished, Typed
    <2> QED
      BY <2>1 DEF DoubtLast
  <1>2. ASSUME NEW w \in Workers, cur[w] = r, RowOpened(w)
        PROVE  Len(rows'[r]) = Len(rows[r]) + 1 /\ (i \in Doubtful(r) \/ (i = Len(rows'[r]) /\ rows'[r][i].node = node[w]))
    <2>1. /\ Len(rows'[r]) = Len(rows[r]) + 1 /\ \A j \in 1 .. Len(rows[r]) : rows'[r][j] = rows[r][j]
          /\ rows'[r][Len(rows[r]) + 1] = [node |-> node[w], st |-> "running"]
      BY <1>2, AfterOpened
    <2> QED
      BY <1>0, <1>1, <2>1
  <1>3. ASSUME NEW w \in Workers, cur[w] = r, RowClosed(w) PROVE FALSE
    <2>1. /\ Len(rows[r]) > 0 /\ Len(rows'[r]) = Len(rows[r]) - 1
          /\ \A j \in 1 .. Len(rows[r]) - 1 : rows'[r][j] = rows[r][j]
      BY <1>3, AfterClosed
    <2> QED
      BY <1>0, <1>1, <2>1
  <1>4. ASSUME NEW k \in 1 .. Len(rows[r]), RowInDoubt(r, k) PROVE FALSE
    <2>1. /\ Len(rows'[r]) = Len(rows[r]) /\ \A j \in 1 .. Len(rows[r]) \ {k} : rows'[r][j] = rows[r][j]
          /\ rows'[r][k] = [node |-> rows[r][k].node, st |-> "needs_attention"]
      BY <1>4, AfterDoubt
    <2>2. i # k /\ i = Len(rows[r])
      BY <1>0, <1>1, <2>1
    <2>3. k \in Unfinished(r) /\ Kind[rows[r][k].node] \in WriteKinds
      BY <1>4 DEF RowInDoubt, InDoubt
    <2>4. k = Len(rows[r])
      BY <2>3 DEF DoubtLast, Doubtful
    <2> QED
      BY <2>2, <2>4
  <1>5. CASE rows'[r] = rows[r]
    <2>1. i \in Doubtful(r) /\ i = Len(rows'[r])
      BY <1>0, <1>1, <1>5
    <2>2. ASSUME NEW w \in Workers, cur[w] = r, RowOpened(w) PROVE FALSE
      BY <1>0, <1>2, <1>5, <2>2
    <2> QED
      BY <1>3, <1>4, <1>5, <2>1, <2>2
  <1>6. ASSUME NEW a \in Admins, RowSkipped(a), req[a].run = r
        PROVE  i \in Doubtful(r) /\ i = Len(rows'[r]) /\ rows'[r][i] = rows[r][i] /\ Len(rows'[r]) = Len(rows[r])
    <2>1. /\ Len(rows'[r]) = Len(rows[r]) /\ req[a].row \in 1 .. Len(rows[r])
          /\ \A j \in 1 .. Len(rows[r]) \ {req[a].row} : rows'[r][j] = rows[r][j]
          /\ rows'[r][req[a].row] = [node |-> rows[r][req[a].row].node, st |-> "skipped"]
      BY <1>6, AfterSkipped
    <2> QED
      BY <1>0, <1>1, <2>1
  <1>7. ASSUME NEW w \in Workers, cur[w] = r, RowOpened(w), i \in Doubtful(r) PROVE FALSE
    BY <1>7 DEF DoubtFree, RowOpened, Bare
  <1>8. ASSUME NEW a \in Admins, RowSkipped(a), req[a].run = r, NEW w \in Workers, cur[w] = r, RowOpened(w) PROVE FALSE
    BY <1>0, <1>2, <1>6, <1>8
  <1> QED
    BY <1>2, <1>3, <1>4, <1>5, <1>6, <1>7, <1>8, RowsOfOthers

LEMMA DoubtNext ==
  ASSUME Shape, Custody, Typed, Looked, Ours, DoubtLast, DoubtFree, [Next]_vars
  PROVE  DoubtLast' /\ DoubtFree'
  <1>1. DoubtLast'
    BY DoubtKept DEF DoubtLast
  <1>2. ASSUME NEW w \in Workers, pc'[w] \in Bare, NEW r \in Runs, cur'[w] = r PROVE Doubtful(r)' = {}
    <2>2. SUFFICES ASSUME NEW i \in Doubtful(r)' PROVE FALSE
      OBVIOUS
    <2>3. \/ /\ i \in Doubtful(r) /\ \A v \in Workers : cur[v] = r => ~RowClosed(v)
          \/ \E v \in Workers : cur[v] = r /\ RowOpened(v)
      BY <2>2, DoubtKept
    <2>4. CASE pc[w] \in Bare /\ cur'[w] = cur[w]
      <3>1. Doubtful(r) = {}
        BY <1>2, <2>4 DEF DoubtFree
      <3>2. PICK v \in Workers : cur[v] = r /\ RowOpened(v)
        BY <2>3, <3>1
      <3>3. v = w
        BY <1>2, <2>4, <3>2 DEF Custody, OneExecutor, RowOpened, Bare
      <3> QED
        BY <1>2, <3>2, <3>3 DEF RowOpened, Bare
    <2>5. CASE pc[w] \in Open /\ cur'[w] = cur[w] /\ RowClosed(w)
      <3>1. PICK v \in Workers : cur[v] = r /\ RowOpened(v)
        BY <1>2, <2>3, <2>5
      <3>2. v = w
        BY <1>2, <2>5, <3>1 DEF Custody, OneExecutor, RowOpened, Open
      <3> QED
        BY <2>5, <3>1, <3>2 DEF RowOpened, Open
    <2>6. ASSUME NEW x \in Runs, Claim(w, x), InDoubt(x) = {}, cur'[w] = x, UNCHANGED rows PROVE FALSE
      <3>1. i \in Doubtful(x)
        BY <1>2, <2>2, <2>6 DEF Doubtful, Unfinished
      <3>2. run[x].status = "running"
        BY <2>6, <3>1, ClaimCases DEF DoubtFree, FINISHED, Claim, Eligible, Recoverable
      <3>3. i = Len(rows[x])
        BY <3>1 DEF DoubtLast
      <3>4. \A j \in Unfinished(x) : j <= i
        BY <3>3 DEF Unfinished, Typed
      <3>5. i \in InDoubt(x)
        BY <3>1, <3>2, <3>4 DEF InDoubt, Doubtful
      <3> QED
        BY <2>6, <3>5
    <2>7. \/ pc[w] \in Bare /\ cur'[w] = cur[w]
          \/ pc[w] \in Open /\ cur'[w] = cur[w] /\ RowClosed(w)
          \/ \E x \in Runs : Claim(w, x) /\ InDoubt(x) = {} /\ cur'[w] = x /\ UNCHANGED rows
      BY <1>2, PlaceCases
    <2> QED
      BY <2>4, <2>5, <2>6, <2>7
  <1>3. ASSUME NEW r \in Runs, NEW i \in Doubtful(r)' PROVE run'[r].status \in FINISHED \cup {"running"}
    <2>1. ASSUME NEW w \in Workers, cur[w] = r, RowOpened(w) PROVE run'[r].status \in FINISHED \cup {"running"}
      BY <2>1 DEF RowOpened, Custody, Holding, FINISHED
    <2>2. ASSUME i \in Doubtful(r), \A k \in 1 .. Len(rows[r]) : ~RowInDoubt(r, k)
          PROVE  run'[r].status \in FINISHED \cup {"running"}
      <3>1. run[r].status \in FINISHED \cup {"running"}
        BY <2>2 DEF DoubtFree
      <3>2. ASSUME NEW w \in Workers, cur[w] = r, GiveBack(w) PROVE FALSE
        BY <2>2, <3>2 DEF GiveBack, DoubtFree, Bare
      <3>3. ASSUME NEW w \in Workers, Claim(w, r) PROVE run'[r].status = "running"
        BY <2>2, <3>3, ClaimCases
      <3> QED
        BY <3>1, <3>2, <3>3, StatusCases DEF FINISHED
    <2> QED
      BY <1>3, <2>1, <2>2, DoubtKept
  <1>4. \A w \in Workers : pc'[w] \in Bare => cur'[w] \in Runs
    BY ShapeNext DEF Shape, WorkerShape, Bare
  <1>5. \A w \in Workers : pc'[w] \in Bare => \A r \in Runs : cur'[w] = r => Doubtful(r)' = {}
    BY <1>2
  <1>6. (\A w \in Workers : pc[w] \in Bare => Doubtful(cur[w]) = {})'
    BY <1>4, <1>5
  <1>7. (\A r \in Runs : Doubtful(r) # {} => run[r].status \in FINISHED \cup {"running"})'
    BY <1>3
  <1> QED
    BY <1>1, <1>6, <1>7 DEF DoubtFree

Recovered == Shape /\ Custody /\ Typed /\ Looked /\ Ours /\ DoubtLast /\ DoubtFree

LEMMA RecoveredInit == Init => Recovered
  <1> SUFFICES ASSUME Init PROVE Recovered
    OBVIOUS
  <1>1. Shape /\ Custody
    BY ShapeInit DEF Init, Custody, Lapses, Holding, OneExecutor
  <1>2. run \in [Runs -> RunRows]
    <2>1. \A r \in Runs : [status |-> "absent", st |-> NewState(r), asleep |-> FALSE, owner |-> None, lease |-> "none"]
                            \in RunRows
      BY StatesAreStates DEF RunRows, Statuses
    <2> QED
      BY <2>1 DEF Init
  <1>3. NoRequest \in Requests
    BY StatesAreStates DEF NoRequest, Requests
  <1>4. WorkerTypes /\ Outcomes
    BY StatesAreStates DEF Init, WorkerTypes, Outcomes, Open
  <1>5. crashes \in 0 .. MaxCrashes
    BY ConstantsAssumption DEF Init
  <1>6. Typed
    BY <1>2, <1>3, <1>4, <1>5 DEF Init, Typed
  <1>7. Looked /\ Ours
    BY DEF Init, Looked, Ours, Open
  <1>8. \A r \in Runs : Doubtful(r) = {}
    BY DEF Init, Doubtful, Unfinished
  <1>9. DoubtLast /\ DoubtFree
    BY <1>8 DEF Init, DoubtLast, DoubtFree, Bare
  <1> QED
    BY <1>1, <1>6, <1>7, <1>9 DEF Recovered

LEMMA RecoveredNext ==
  ASSUME Recovered, [Next]_vars
  PROVE  Recovered'
  <1> USE DEF Recovered
  <1>1. Shape' /\ Custody'
    BY ShapeNext, CustodyNext
  <1>2. Typed'
    BY RunTypes, RowTypes, OtherTypes, WorkerTypesNext DEF Typed
  <1>3. Looked' /\ Ours' /\ DoubtLast' /\ DoubtFree'
    BY LookedNext, OursNext, DoubtNext
  <1> QED
    BY <1>1, <1>2, <1>3

\* A write whose outcome a crash left unknown is not begun again before an administrator
\* has seen it: the claim that finds it marks it instead of taking the run
\* (claim_run(), _mark_uncertain_write(), begin_node()).
THEOREM NoWriteIsRepeatedBlindly == Spec => []NoBlindRepeat
  <1>1. Recovered => NoBlindRepeat
    <2> SUFFICES ASSUME Recovered, NEW r \in Runs, NEW i \in Unfinished(r), NEW j \in Unfinished(r),
                        rows[r][i].node = rows[r][j].node, Kind[rows[r][i].node] \in WriteKinds
                 PROVE  i = j
      BY DEF NoBlindRepeat
    <2>1. i \in Doubtful(r) /\ j \in Doubtful(r)
      BY DEF Doubtful
    <2> QED
      BY <2>1 DEF Recovered, DoubtLast
  <1> QED
    BY <1>1, RecoveredInit, RecoveredNext, PTL DEF Spec

-----------------------------------------------------------------------------
(* Rows left behind.  A crash leaves one unfinished row, a check-in that is *)
(* refused another one, of a run that is over then.                         *)

Tidy(r) == (\E w \in Workers : cur[w] = r /\ pc[w] \in Bare) \/ (Free(r) /\ run[r].status \notin FINISHED)
Counted == \A r \in Runs : Len(rows[r]) <= crashes + 1 /\ (Tidy(r) => Len(rows[r]) <= crashes)

\* How a run comes to be held by nobody.
LEMMA LeftCases ==
  ASSUME Shape, Typed, [Next]_vars, NEW w \in Workers, pc[w] # "idle", pc'[w] = "idle"
  PROVE  Crash \/ FinishRun(w) \/ (pc[w] \in Bare /\ UNCHANGED rows)
  <1> USE DEF Shape, WorkerShape
  <1>1. ASSUME UNCHANGED worker PROVE FALSE
    BY <1>1 DEF worker
  <1>2. ASSUME NEW v \in Workers, NEW r \in Runs, Claim(v, r) PROVE FALSE
    BY <1>1, <1>2 DEF Claim, MarkUncertain
  <1>3. ASSUME NEW v \in Workers \ {w}, WorkerStep(v) PROVE FALSE
    BY <1>3, OthersStay
  <1>4. CASE Look(w)
    BY <1>4 DEF Look, Bare
  <1>5. ASSUME \/ BeginNode(w) \/ Execute(w) \/ Act(w) \/ ReadWait(w) \/ CreateWait(w)
               \/ FinishNode(w) \/ FailNode(w) \/ Checkpoint(w) \/ Park(w) \/ FinishWaiting(w)
        PROVE  FALSE
    BY <1>5 DEF BeginNode, Execute, Act, ReadWait, CreateWait, FinishNode, FailNode, Checkpoint, Park,
       FinishWaiting, SaveAnd, GoTo, Done, Failed, ToFinish
  <1>6. CASE GiveBack(w)
    BY <1>6 DEF GiveBack, Bare
  <1>7. CASE WorkerStep(w)
    BY <1>4, <1>5, <1>6, <1>7 DEF WorkerStep
  <1> QED
    BY <1>1, <1>2, <1>3, <1>7
    DEF Next, Enqueue, Cancel, Wake, LeaseLapses, ResolveWait, ExpireWaits, AttentionRead, AttentionWrite,
        vars, worker

LEMMA CrashCount ==
  ASSUME Typed, [Next]_vars
  PROVE  crashes \in Nat /\ crashes' \in Nat /\ crashes <= crashes' /\ (Crash => crashes' = crashes + 1)
  <1>1. crashes' = crashes \/ crashes' = crashes + 1
    BY DEF Next, WorkerStep, Look, BeginNode, Execute, Act, ReadWait, CreateWait, FinishNode,
       FailNode, Checkpoint, Park, FinishWaiting, GiveBack, FinishRun, Claim, Enqueue, Cancel, Wake, LeaseLapses,
       ResolveWait, ExpireWaits, AttentionRead, AttentionWrite, Crash, vars
  <1>2. Crash => crashes' = crashes + 1
    BY DEF Crash
  <1>3. crashes \in Nat
    BY ConstantsAssumption DEF Typed
  <1> QED
    BY <1>1, <1>2, <1>3

\* A tidy run was tidy before, or its row has just been closed, or its worker has died.
LEMMA TidyBefore ==
  ASSUME Shape, Custody, Typed, Looked, [Next]_vars, NEW r \in Runs, Tidy(r)'
  PROVE  Tidy(r) \/ Crash \/ \E w \in Workers : cur[w] = r /\ RowClosed(w)
  <1>1. ASSUME NEW w \in Workers, cur'[w] = r, pc'[w] \in Bare
        PROVE  Tidy(r) \/ \E v \in Workers : cur[v] = r /\ RowClosed(v)
    <2>1. ASSUME NEW x \in Runs, Claim(w, x), cur'[w] = x PROVE Tidy(r)
      BY <1>1, <2>1, ClaimCases DEF Tidy, FINISHED, Claim, Eligible, Recoverable
    <2> QED
      BY <1>1, <2>1, PlaceCases DEF Tidy
  <1>2. ASSUME Free(r)', run'[r].status \notin FINISHED, ~Crash PROVE Tidy(r)
    <2>1. CASE ~Free(r)
      <3>1. PICK w \in Workers : pc[w] # "idle" /\ cur[w] = r
        BY <2>1 DEF Free
      <3>2. pc'[w] = "idle" \/ (pc'[w] # "idle" /\ cur'[w] # r)
        BY <1>2 DEF Free
      <3>3. ASSUME pc'[w] # "idle", cur'[w] # r PROVE FALSE
        <4>1. ASSUME NEW v \in Workers, WorkerStep(v) PROVE FALSE
          BY <3>1, <3>3, <4>1, KeptPlaces
        <4>2. ASSUME NEW v \in Workers, NEW x \in Runs, Claim(v, x) PROVE FALSE
          BY <3>1, <3>3, <4>2 DEF Claim, MarkUncertain, Shape, WorkerShape, worker
        <4> QED
          BY <1>2, <3>1, <3>3, <4>1, <4>2
          DEF Next, Enqueue, Cancel, Wake, LeaseLapses, ResolveWait, ExpireWaits, AttentionRead, AttentionWrite,
              vars, worker
      <3>4. CASE FinishRun(w)
        <4>1. run'[r].status = out[w] /\ out[w] \in FINISHED
          BY <3>1, <3>4 DEF FinishRun, Typed, Outcomes, RunRows
        <4> QED
          BY <1>2, <4>1
      <3> QED
        BY <1>2, <3>1, <3>2, <3>3, <3>4, LeftCases DEF Tidy
    <2>2. CASE Free(r)
      <3>1. ASSUME NEW w \in Workers, Claim(w, r) PROVE run[r].status \notin FINISHED
        BY <3>1 DEF Claim, Eligible, Recoverable, FINISHED
      <3>2. ASSUME NEW w \in Workers, cur[w] = r, Checkpoint(w) \/ Park(w) \/ GiveBack(w) PROVE FALSE
        BY <2>2, <3>2 DEF Free, Checkpoint, Park, GiveBack
      <3>3. run[r].status \notin FINISHED
        BY <1>2, <3>1, <3>2, StatusCases DEF FINISHED
      <3> QED
        BY <2>2, <3>3 DEF Tidy
    <2> QED
      BY <2>1, <2>2
  <1> QED
    BY <1>1, <1>2 DEF Tidy

LEMMA CountedNext ==
  ASSUME Recovered, Counted, [Next]_vars
  PROVE  Counted'
  <1> USE DEF Recovered
  <1> SUFFICES ASSUME NEW r \in Runs
               PROVE  Len(rows'[r]) <= crashes' + 1 /\ (Tidy(r)' => Len(rows'[r]) <= crashes')
    BY DEF Counted
  <1>0. /\ crashes \in Nat /\ crashes' \in Nat /\ crashes <= crashes' /\ Len(rows[r]) \in Nat
        /\ Len(rows[r]) <= crashes + 1 /\ (Tidy(r) => Len(rows[r]) <= crashes)
    <2>1. Len(rows[r]) \in Nat
      BY DEF Typed
    <2> QED
      BY <2>1, CrashCount DEF Counted
  <1>1. CASE Crash
    <2>1. crashes' = crashes + 1 /\ rows' = rows
      BY <1>1, CrashCount DEF Crash
    <2> QED
      BY <1>0, <2>1
  <1>2. ASSUME NEW w \in Workers, cur[w] = r, RowClosed(w)
        PROVE  Len(rows'[r]) <= crashes' + 1 /\ Len(rows'[r]) <= crashes'
    <2>1. Len(rows'[r]) = Len(rows[r]) - 1
      BY <1>2, AfterClosed
    <2> QED
      BY <1>0, <2>1
  <1>3. ASSUME NEW w \in Workers, cur[w] = r, RowOpened(w)
        PROVE  Len(rows'[r]) <= crashes' + 1 /\ ~Tidy(r)'
    <2>1. Len(rows'[r]) = Len(rows[r]) + 1
      BY <1>3, AfterOpened
    <2>2. Tidy(r) /\ pc'[w] = "execute" /\ pc[w] = "begin"
      BY <1>3 DEF RowOpened, Tidy, Bare
    <2>3. cur'[w] = r
      BY <1>3, <2>2, PlaceCases DEF Open
    <2>4. OneExecutor'
      BY CustodyNext DEF Custody
    <2>5. ~Tidy(r)'
      BY <2>2, <2>3, <2>4 DEF Tidy, Free, OneExecutor, Bare
    <2> QED
      BY <1>0, <2>1, <2>2, <2>5
  <1>4. CASE /\ ~Crash /\ \A w \in Workers : cur[w] = r => ~RowClosed(w) /\ ~RowOpened(w)
    <2>1. ASSUME NEW i \in 1 .. Len(rows[r]), RowInDoubt(r, i) PROVE Len(rows'[r]) = Len(rows[r])
      BY <2>1, AfterDoubt
    <2>2. ASSUME NEW a \in Admins, RowSkipped(a), req[a].run = r PROVE Len(rows'[r]) = Len(rows[r])
      BY <2>2, AfterSkipped
    <2>3. Len(rows'[r]) = Len(rows[r])
      BY <1>4, <2>1, <2>2, RowsOfOthers
    <2>4. Tidy(r)' => Tidy(r)
      BY <1>4, TidyBefore
    <2> QED
      BY <1>0, <2>3, <2>4
  <1> QED
    BY <1>1, <1>2, <1>3, <1>4

\* The rows and the workers' variables have their types, and no more rows are left
\* behind than crashes and one refused check-in explain.
THEOREM WorkflowTypeCorrect == Spec => []TypeOK
  <1>1. Init => Counted
    BY ConstantsAssumption DEF Init, Counted
  <1>2. Recovered /\ Counted => TypeOK
    <2> SUFFICES ASSUME Recovered, Counted PROVE TypeOK
      OBVIOUS
    <2>1. Shape /\ Typed
      BY DEF Recovered
    <2>2. \A r \in Runs : Len(rows[r]) <= MaxCrashes + 1
      <3> SUFFICES ASSUME NEW r \in Runs PROVE Len(rows[r]) <= MaxCrashes + 1
        OBVIOUS
      <3>1. Len(rows[r]) \in Nat /\ crashes \in 0 .. MaxCrashes /\ Len(rows[r]) <= crashes + 1
        BY <2>1 DEF Counted, Typed
      <3> QED
        BY <3>1, ConstantsAssumption
    <2>3. \A a \in Admins : req[a].run \in Runs \cup {NoRun}
      BY <2>1 DEF Typed, Requests
    <2>4. run \in [Runs -> RunRows] /\ rows \in [Runs -> Seq(NodeRows)] /\ WorkerTypes /\ WaitShape /\ WorkerShape
          /\ acted \in [Runs -> SUBSET Nodes] /\ crashes \in 0 .. MaxCrashes
      BY <2>1 DEF Typed, Shape
    <2> QED
      BY <2>2, <2>3, <2>4
      DEF TypeOK, RunRows, StateSet, NodeRows, WorkerTypes, WaitShape, WaitRows, WorkerShape, Places
  <1> QED
    BY <1>1, <1>2, RecoveredInit, RecoveredNext, CountedNext, PTL DEF Spec

-----------------------------------------------------------------------------
(* Runs that need attention.  The node a worker is at is still in the queue *)
(* that is stored with its run, so a write left open can be queued again or *)
(* skipped; and whoever takes a run out of needs_attention is who may touch *)
(* the wait and the row that show it.                                       *)

Queued ==
  \A w \in Workers :
    /\ pc[w] \in {"loop", "begin"} =>
         \A n \in Nodes : Contains(loc[w].queue, n) => Contains(run[cur[w]].st.queue, n)
    /\ pc[w] \in Open \cup {"begin"} => Contains(run[cur[w]].st.queue, node[w])
DoubtQueued == \A r \in Runs : \A i \in Doubtful(r) : Contains(run[r].st.queue, rows[r][i].node)
Latest(T, i) == i \in T /\ \A j \in T : j <= i
Shown ==
  \A r \in Runs : run[r].status = "needs_attention" =>
    \E i : /\ Latest(ToSeeTo(r), i) /\ Kind[rows[r][i].node] \in WriteKinds
           /\ Contains(run[r].st.queue, rows[r][i].node) /\ waits[r][rows[r][i].node].att

LEMMA PutInFront ==
  ASSUME NEW q \in Seq(Nodes), NEW n \in Nodes
  PROVE  Contains(<<n>> \o q, n)
  <1>1. <<n>> \o q \in Seq(Nodes) /\ Len(<<n>> \o q) = 1 + Len(q) /\ (<<n>> \o q)[1] = n /\ Len(q) \in Nat
    OBVIOUS
  <1>2. 1 \in 1 .. Len(<<n>> \o q)
    BY <1>1
  <1> QED
    BY <1>1, <1>2 DEF Contains

\* What its executor does to the stored state of a run; nobody else touches it.
LEMMA HeldState ==
  ASSUME Shape, Custody, Typed, Looked, [Next]_vars, NEW w \in Workers, pc[w] # "idle", NEW r \in Runs, cur[w] = r
  PROVE  \/ run'[r].st = run[r].st
         \/ Checkpoint(w) /\ run'[r].st = loc[w] /\ loc'[w] = loc[w]
         \/ Park(w) /\ run'[r].st = [loc[w] EXCEPT !.queue = <<node[w]>> \o @]
         \/ GiveBack(w)
  <1> USE DEF Shape, WorkerShape
  <1>1. ASSUME NEW v \in Workers, cur[v] = r, pc[v] # "idle" PROVE v = w
    BY <1>1 DEF Custody, OneExecutor
  <1>2. run[r].status # "needs_attention"
    BY DEF Custody, Holding
  <1>3. ASSUME NEW v \in Workers, Claim(v, r) PROVE run'[r].st = run[r].st
    BY <1>3, ClaimCases
  <1>4. ASSUME Checkpoint(w) \/ Park(w)
        PROVE  \/ run'[r].st = run[r].st
               \/ Checkpoint(w) /\ run'[r].st = loc[w] /\ loc'[w] = loc[w]
               \/ Park(w) /\ run'[r].st = [loc[w] EXCEPT !.queue = <<node[w]>> \o @]
    <2>1. run \in [Runs -> RunRows] /\ run[r] \in RunRows /\ loc \in [Workers -> StateSet]
      BY DEF Typed, WorkerTypes
    <2>2. ASSUME NEW s, run' = [run EXCEPT ![r].st = s] PROVE run'[r].st = s
      BY <2>1, <2>2 DEF RunRows
    <2>3. CASE Checkpoint(w)
      BY <2>1, <2>2, <2>3 DEF Checkpoint, SaveAnd, GoTo
    <2>4. CASE Park(w)
      BY <2>2, <2>4 DEF Park, SaveAnd
    <2> QED
      BY <1>4, <2>3, <2>4
  <1>5. ASSUME NEW v \in Workers, cur[v] = r, Checkpoint(v) \/ Park(v) \/ GiveBack(v) PROVE v = w
    BY <1>1, <1>5 DEF Checkpoint, Park, GiveBack
  <1> HIDE DEF Shape, WorkerShape
  <1> QED
    BY <1>2, <1>3, <1>4, <1>5, StatusCases

\* How a worker comes to the top of the loop or to the beginning of a node.
LEMMA LoopCases ==
  ASSUME Shape, Custody, Typed, [Next]_vars, NEW w \in Workers, pc'[w] \in {"loop", "begin"}
  PROVE  \/ pc'[w] = pc[w] /\ cur'[w] = cur[w] /\ node'[w] = node[w] /\ loc'[w] = loc[w]
            /\ ~Checkpoint(w) /\ ~Park(w) /\ ~GiveBack(w)
         \/ Look(w)
         \/ Checkpoint(w)
         \/ \E r \in Runs : Claim(w, r) /\ pc'[w] = "loop" /\ cur'[w] = r /\ loc'[w] = run[r].st
  <1> USE DEF Shape, WorkerShape
  <1>1. ASSUME Checkpoint(w) \/ Park(w) \/ GiveBack(w) PROVE pc'[w] # pc[w]
    BY <1>1 DEF Checkpoint, Park, GiveBack, SaveAnd, GoTo, ToFinish, Leave
  <1>2. CASE UNCHANGED worker
    BY <1>1, <1>2 DEF worker
  <1>3. ASSUME NEW v \in Workers \ {w}, WorkerStep(v)
        PROVE  pc'[w] = pc[w] /\ cur'[w] = cur[w] /\ node'[w] = node[w] /\ loc'[w] = loc[w]
    BY <1>3, OthersStay
  <1>4. ASSUME NEW v \in Workers, NEW r \in Runs, Claim(v, r)
        PROVE  \/ UNCHANGED worker
               \/ v # w /\ pc'[w] = pc[w] /\ cur'[w] = cur[w] /\ node'[w] = node[w] /\ loc'[w] = loc[w]
               \/ v = w /\ pc'[w] = "loop" /\ cur'[w] = r /\ loc'[w] = run[r].st
    BY <1>4 DEF Claim, MarkUncertain, Typed, WorkerTypes
  <1>5. ASSUME BeginNode(w) \/ Execute(w) \/ Act(w) \/ ReadWait(w) \/ CreateWait(w) \/ FinishNode(w) \/ FailNode(w)
               \/ Park(w) \/ FinishWaiting(w) \/ GiveBack(w) \/ FinishRun(w)
        PROVE  FALSE
    BY <1>5 DEF BeginNode, Execute, Act, ReadWait, CreateWait, FinishNode, FailNode, Park, FinishWaiting,
       GiveBack, FinishRun, SaveAnd, GoTo, Done, Failed, ToFinish, Leave
  <1>6. CASE WorkerStep(w)
    BY <1>5, <1>6 DEF WorkerStep
  <1>7. CASE Crash
    BY <1>7 DEF Crash
  <1>8. CASE \E v \in Workers, r \in Runs : Claim(v, r)
    BY <1>1, <1>2, <1>4, <1>8
  <1>9. CASE \E v \in Workers \ {w} : WorkerStep(v)
    BY <1>1, <1>3, <1>9
  <1> QED
    BY <1>2, <1>6, <1>7, <1>8, <1>9
    DEF Next, Enqueue, Cancel, Wake, LeaseLapses, ResolveWait, ExpireWaits, AttentionRead, AttentionWrite,
        vars, worker

LEMMA QueuedNext ==
  ASSUME Shape, Custody, Typed, Looked, Queued, [Next]_vars
  PROVE  Queued'
  <1>1. ASSUME NEW w \in Workers, pc'[w] \in {"loop", "begin"}, NEW r \in Runs, cur'[w] = r
        PROVE  /\ \A n \in Nodes : Contains(loc'[w].queue, n) => Contains(run'[r].st.queue, n)
               /\ pc'[w] = "begin" => Contains(run'[r].st.queue, node'[w])
    <2>1. CASE pc'[w] = pc[w] /\ cur'[w] = cur[w] /\ node'[w] = node[w] /\ loc'[w] = loc[w]
               /\ ~Checkpoint(w) /\ ~Park(w) /\ ~GiveBack(w)
      <3>1. run'[r].st = run[r].st
        <4>1. pc[w] # "idle" /\ cur[w] = r
          BY <1>1, <2>1
        <4> QED
          BY <2>1, <4>1, HeldState
      <3> QED
        BY <1>1, <2>1, <3>1 DEF Queued
    <2>2. CASE Look(w)
      <3>1. /\ cur[w] = r /\ pc[w] = "loop" /\ UNCHANGED run /\ loc \in [Workers -> StateSet]
            /\ loc[w].queue \in Seq(Nodes) /\ loc[w].queue # <<>>
            /\ loc'[w].queue = Tail(loc[w].queue) /\ (pc'[w] = "begin" => node'[w] = Head(loc[w].queue))
        <4>1. loc \in [Workers -> StateSet] /\ loc[w] \in StateSet /\ DOMAIN node = Workers
          BY DEF Typed, WorkerTypes, Shape, WorkerShape
        <4> QED
          BY <1>1, <2>2, <4>1 DEF Look, GoTo, ToFinish, Leave, StateSet, Shape, WorkerShape
      <3>2. Head(loc[w].queue) \in Nodes /\ Contains(loc[w].queue, Head(loc[w].queue))
            /\ \A n : Contains(Tail(loc[w].queue), n) => Contains(loc[w].queue, n)
        BY <3>1, QueueHead
      <3>3. \A n \in Nodes : Contains(loc[w].queue, n) => Contains(run[r].st.queue, n)
        BY <3>1 DEF Queued
      <3> QED
        BY <3>1, <3>2, <3>3
    <2>3. CASE Checkpoint(w)
      <3>1. Holds(w) /\ run' = [run EXCEPT ![cur[w]].st = loc[w]] /\ loc'[w] = loc[w] /\ cur[w] = r /\ pc'[w] = "loop"
        BY <1>1, <2>3 DEF Checkpoint, SaveAnd, GoTo, ToFinish, Shape, WorkerShape, Typed, WorkerTypes
      <3>2. run'[r].st = loc[w]
        BY <3>1 DEF Typed, RunRows
      <3> QED
        BY <3>1, <3>2
    <2>4. ASSUME Claim(w, r), pc'[w] = "loop", loc'[w] = run[r].st
          PROVE  \A n \in Nodes : Contains(loc'[w].queue, n) => Contains(run'[r].st.queue, n)
      BY <2>4, ClaimCases
    <2> QED
      BY <1>1, <2>1, <2>2, <2>3, <2>4, LoopCases
  <1>2. ASSUME NEW w \in Workers, pc'[w] \in Open, NEW r \in Runs, cur'[w] = r
        PROVE  Contains(run'[r].st.queue, node'[w])
    <2>1. cur[w] = r /\ node'[w] = node[w] /\ pc[w] \in Open \cup {"begin"} /\ pc[w] # "idle"
      <3>1. cur'[w] = cur[w] /\ node'[w] = node[w] /\ pc[w] \in Open \cup {"begin"}
        BY <1>2, PlaceCases
      <3> QED
        BY <1>2, <3>1 DEF Open
    <2>2. Contains(run[r].st.queue, node[w]) /\ node[w] \in Nodes
      BY <2>1 DEF Queued, Typed, Outcomes
    <2>3. CASE Checkpoint(w) \/ GiveBack(w)
      BY <2>1, <2>3 DEF Checkpoint, GiveBack, Open
    <2>4. ASSUME run'[r].st = [loc[w] EXCEPT !.queue = <<node[w]>> \o @]
          PROVE  Contains(run'[r].st.queue, node[w])
      <3>1. loc[w] \in StateSet /\ loc[w].queue \in Seq(Nodes)
        BY DEF Typed, WorkerTypes, StateSet
      <3>2. run'[r].st.queue = <<node[w]>> \o loc[w].queue
        BY <2>4, <3>1 DEF StateSet
      <3> QED
        BY <2>2, <3>1, <3>2, PutInFront
    <2> QED
      BY <2>1, <2>2, <2>3, <2>4, HeldState
  <1>3. \A w \in Workers : pc'[w] \in Open \cup {"loop", "begin"} => cur'[w] \in Runs
    BY ShapeNext DEF Shape, WorkerShape, Open
  <1>4. ASSUME NEW w \in Workers
        PROVE  /\ pc'[w] \in {"loop", "begin"} =>
                    \A n \in Nodes : Contains(loc'[w].queue, n) => Contains(run'[cur'[w]].st.queue, n)
               /\ pc'[w] \in Open \cup {"begin"} => Contains(run'[cur'[w]].st.queue, node'[w])
    BY <1>1, <1>2, <1>3
  <1> QED
    BY <1>4 DEF Queued

LEMMA DoubtQueuedNext ==
  ASSUME Recovered, Queued, DoubtQueued, [Next]_vars
  PROVE  DoubtQueued'
  <1> USE DEF Recovered
  <1> SUFFICES ASSUME NEW r \in Runs, NEW i \in Doubtful(r)' PROVE Contains(run'[r].st.queue, rows'[r][i].node)
    BY DEF DoubtQueued
  <1>1. ASSUME NEW w \in Workers, cur[w] = r, RowOpened(w), rows'[r][i].node = node[w]
        PROVE  Contains(run'[r].st.queue, rows'[r][i].node)
    BY <1>1 DEF RowOpened, Queued
  <1>2. ASSUME i \in Doubtful(r), rows'[r][i] = rows[r][i] PROVE Contains(run'[r].st.queue, rows'[r][i].node)
    <2>1. Contains(run[r].st.queue, rows'[r][i].node) /\ i = Len(rows[r]) /\ run[r].status \in FINISHED \cup {"running"}
      BY <1>2 DEF DoubtQueued, DoubtLast, DoubtFree
    <2>2. ASSUME NEW w \in Workers, cur[w] = r, pc[w] # "idle" PROVE Contains(run'[r].st.queue, rows'[r][i].node)
      <3>1. ASSUME Checkpoint(w) \/ GiveBack(w) PROVE FALSE
        BY <1>2, <2>2, <3>1 DEF Checkpoint, GiveBack, Bare, DoubtFree
      <3>2. ASSUME Park(w), run'[r].st = [loc[w] EXCEPT !.queue = <<node[w]>> \o @]
            PROVE  Contains(run'[r].st.queue, rows'[r][i].node)
        <4>1. pc[w] \in Open
          BY <3>2 DEF Park, Open
        <4>2. rows'[r][i].node = node[w] /\ node[w] \in Nodes
          <5>1. rows[r][Len(rows[r])] = [node |-> node[w], st |-> "running"]
            BY <2>2, <4>1 DEF Ours
          <5>2. node[w] \in Nodes
            BY <4>1 DEF Typed, Outcomes
          <5> QED
            BY <1>2, <2>1, <5>1, <5>2
        <4>3. loc[w] \in StateSet /\ loc[w].queue \in Seq(Nodes)
          BY DEF Typed, WorkerTypes, StateSet
        <4>4. run'[r].st.queue = <<node[w]>> \o loc[w].queue
          BY <3>2, <4>3 DEF StateSet
        <4> QED
          BY <4>2, <4>3, <4>4, PutInFront
      <3> QED
        BY <2>1, <2>2, <3>1, <3>2, HeldState
    <2>3. ASSUME \A w \in Workers : pc[w] # "idle" => cur[w] # r PROVE run'[r].st = run[r].st
      <3>1. ASSUME NEW w \in Workers, cur[w] = r, Checkpoint(w) \/ Park(w) \/ GiveBack(w) PROVE FALSE
        BY <2>3, <3>1 DEF Checkpoint, Park, GiveBack
      <3>2. ASSUME NEW w \in Workers, Claim(w, r) PROVE run'[r].st = run[r].st
        BY <3>2, ClaimCases
      <3> QED
        BY <2>1, <3>1, <3>2, StatusCases DEF FINISHED
    <2> QED
      BY <2>1, <2>2, <2>3
  <1> QED
    BY <1>1, <1>2, DoubtKept

\* Only a cancellation and an administrator's answer take the mark off a wait.
LEMMA AttentionKept ==
  ASSUME Shape, Looked, [Next]_vars, NEW r \in Runs, NEW n \in Nodes, waits[r][n].att
  PROVE  \/ waits'[r][n].att
         \/ Cancel(r)
         \/ \E a \in Admins : req[a].run = r /\ \E action \in {"retry", "skip", "terminate"} : AttentionWrite(a, action)
  <1> USE DEF Shape, WaitShape
  <1>0. \A x \in Runs, m \in Nodes : waits[x][m] \in WaitRows
    OBVIOUS
  <1>1. ASSUME NEW x \in Runs, NEW m \in Nodes, ResolveWait(x, m) \/ ExpireWaits(x, m) PROVE waits'[r][n].att
    <2>1. \/ \E answer : waits' = [waits EXCEPT ![x][m].last = answer]
          \/ \E k : waits' = [waits EXCEPT ![x][m].older = k]
          \/ waits' = [waits EXCEPT ![x][m].last = "expired", ![x][m].older = 0]
      BY <1>1 DEF ResolveWait, ExpireWaits
    <2>2. waits[x][m] \in WaitRows /\ waits[r][n] \in WaitRows
      BY <1>0
    <2>3. ASSUME NEW answer, waits' = [waits EXCEPT ![x][m].last = answer] PROVE waits'[r][n].att
      BY <2>2, <2>3 DEF WaitRows
    <2>4. ASSUME NEW k, waits' = [waits EXCEPT ![x][m].older = k] PROVE waits'[r][n].att
      BY <2>2, <2>4 DEF WaitRows
    <2>5. ASSUME waits' = [waits EXCEPT ![x][m].last = "expired", ![x][m].older = 0] PROVE waits'[r][n].att
      BY <2>2, <2>5 DEF WaitRows
    <2> QED
      BY <2>1, <2>3, <2>4, <2>5
  <1>2. ASSUME NEW x \in Runs, Cancel(x), x # r PROVE waits'[r][n].att
    BY <1>2 DEF Cancel
  <1>3. ASSUME NEW a \in Admins, NEW action \in {"retry", "skip", "terminate"}, AttentionWrite(a, action), req[a].run # r
        PROVE  waits'[r][n].att
    BY <1>3 DEF AttentionWrite
  <1>4. ASSUME NEW w \in Workers, NEW x \in Runs, Claim(w, x) PROVE waits'[r][n].att
    <2>1. UNCHANGED waits \/ \E m : waits' = [waits EXCEPT ![x][m].att = TRUE]
      BY <1>4 DEF Claim, MarkUncertain
    <2>2. ASSUME NEW m, waits' = [waits EXCEPT ![x][m].att = TRUE] PROVE waits'[r][n].att
      <3>1. waits[r][n] \in WaitRows
        BY <1>0
      <3>2. waits'[r][n] = IF r = x /\ m = n THEN [waits[r][n] EXCEPT !.att = TRUE] ELSE waits[r][n]
        BY <2>2
      <3> QED
        BY <3>1, <3>2 DEF WaitRows
    <2> QED
      BY <2>1, <2>2
  <1>5. ASSUME NEW w \in Workers, CreateWait(w) PROVE waits'[r][n].att
    <2>1. \E k : waits' = [waits EXCEPT ![cur[w]][node[w]].last = "pending", ![cur[w]][node[w]].older = k]
      BY <1>5 DEF CreateWait
    <2>2. PICK k : waits' = [waits EXCEPT ![cur[w]][node[w]].last = "pending", ![cur[w]][node[w]].older = k]
      BY <2>1
    <2>3. CASE cur[w] = r /\ node[w] = n
      <3>1. waits'[r][n] = [waits[r][n] EXCEPT !.last = "pending", !.older = k]
        BY <2>2, <2>3
      <3>2. waits[r][n] \in WaitRows
        BY <1>0
      <3> QED
        BY <3>1, <3>2 DEF WaitRows
    <2>4. CASE ~(cur[w] = r /\ node[w] = n)
      BY <2>2, <2>4
    <2> QED
      BY <2>3, <2>4
  <1>6. CASE UNCHANGED waits
    BY <1>6
  <1> HIDE DEF Shape, WaitShape
  <1> QED
    BY <1>1, <1>2, <1>3, <1>4, <1>5, <1>6
    DEF Next, WorkerStep, Look, BeginNode, Execute, Act, ReadWait, FinishNode, FailNode, Checkpoint, Park,
        FinishWaiting, GiveBack, FinishRun, Enqueue, Wake, LeaseLapses, AttentionRead, Crash, vars

\* An answer takes the run out of needs_attention, whatever it says.
LEMMA AnsweredLeaves ==
  ASSUME Shape, Typed, Looked, NEW a \in Admins, NEW action, AttentionWrite(a, action), NEW r \in Runs, req[a].run = r,
         run[r].status = "needs_attention"
  PROVE  run'[r].status # "needs_attention"
  <1>1. run[r] \in RunRows /\ run \in [Runs -> RunRows]
    BY DEF Typed
  <1>2. CASE run' = [run EXCEPT ![r].status = "failed"]
    BY <1>1, <1>2 DEF RunRows
  <1>3. ASSUME NEW s, run' = [run EXCEPT ![r].status = "queued", ![r].asleep = FALSE, ![r].st = s]
        PROVE  run'[r].status # "needs_attention"
    BY <1>1, <1>3 DEF RunRows
  <1> QED
    BY <1>2, <1>3 DEF AttentionWrite

\* The claim that finds a write in doubt leaves all an administrator needs.
LEMMA NewlyShown ==
  ASSUME Recovered, DoubtQueued, NEW w \in Workers, NEW r \in Runs, NEW i \in 1 .. Len(rows[r]),
         Claim(w, r), RowInDoubt(r, i), MarkUncertain(r, i)
  PROVE  /\ Latest(ToSeeTo(r)', i) /\ Kind[rows'[r][i].node] \in WriteKinds
         /\ Contains(run'[r].st.queue, rows'[r][i].node) /\ waits'[r][rows'[r][i].node].att
  <1> USE DEF Recovered
  <1>1. /\ Len(rows'[r]) = Len(rows[r]) /\ \A j \in 1 .. Len(rows[r]) \ {i} : rows'[r][j] = rows[r][j]
        /\ rows'[r][i] = [node |-> rows[r][i].node, st |-> "needs_attention"]
    BY AfterDoubt
  <1>2. i \in Doubtful(r)
    BY DEF RowInDoubt, InDoubt, Doubtful
  <1>3. i = Len(rows[r]) /\ Contains(run[r].st.queue, rows[r][i].node) /\ Kind[rows[r][i].node] \in WriteKinds
    BY <1>2 DEF DoubtLast, DoubtQueued, Doubtful
  <1>4. run'[r].st = run[r].st
    BY ClaimCases
  <1>5. Latest(ToSeeTo(r)', i)
    <2>1. rows'[r] = [rows[r] EXCEPT ![i].st = "needs_attention"] /\ rows[r] \in Seq(NodeRows)
      BY DEF RowInDoubt, Typed
    <2> DEFINE q == rows[r]
    <2>2. [q EXCEPT ![i].st = "needs_attention"] \in Seq(NodeRows) /\ Len(q) \in Nat
      <3>1. q \in Seq(NodeRows) /\ i \in 1 .. Len(q)
        BY <2>1
      <3>2. Len(q) \in Nat
        BY <3>1
      <3> HIDE DEF q
      <3>3. [q EXCEPT ![i].st = "needs_attention"] \in Seq(NodeRows)
        BY <3>1, RowMarked
      <3> QED
        BY <3>2, <3>3
    <2>3. rows'[r] \in Seq(NodeRows) /\ Len(rows[r]) \in Nat
      BY <2>1, <2>2
    <2> QED
      BY <1>1, <1>3, <2>3 DEF Latest, ToSeeTo
  <1>6. waits'[r][rows[r][i].node].att
    <2>1. rows[r][i] \in NodeRows
      BY DEF Typed
    <2>2. rows[r][i].node \in Nodes
      BY <2>1 DEF NodeRows
    <2> QED
      BY <2>2 DEF MarkUncertain, Shape, WaitShape, WaitRows
  <1> QED
    BY <1>1, <1>3, <1>4, <1>5, <1>6

LEMMA ShownNext ==
  ASSUME Recovered, DoubtQueued, Shown, [Next]_vars
  PROVE  Shown'
  <1> USE DEF Recovered
  <1> SUFFICES ASSUME NEW r \in Runs, run'[r].status = "needs_attention"
               PROVE  \E i : /\ Latest(ToSeeTo(r)', i) /\ Kind[rows'[r][i].node] \in WriteKinds
                             /\ Contains(run'[r].st.queue, rows'[r][i].node) /\ waits'[r][rows'[r][i].node].att
    BY DEF Shown
  <1>1. ASSUME NEW w \in Workers, Claim(w, r)
        PROVE  \E i \in 1 .. Len(rows[r]) : RowInDoubt(r, i) /\ MarkUncertain(r, i)
    BY <1>1, ClaimCases
  <1>2. CASE \E w \in Workers : Claim(w, r)
    BY <1>1, <1>2, NewlyShown
  <1>3. CASE ~ \E w \in Workers : Claim(w, r)
    <2>1. run[r].status = "needs_attention" /\ run'[r].st = run[r].st
      <3>1. ASSUME NEW w \in Workers, cur[w] = r, Checkpoint(w) \/ Park(w), run'[r].status = run[r].status PROVE FALSE
        BY <3>1 DEF Checkpoint, Park, Custody, Holding
      <3>2. ASSUME NEW w \in Workers, cur[w] = r, GiveBack(w) PROVE FALSE
        <4>1. run' = [run EXCEPT ![r] = [status |-> IF pc[w] = "suspend" THEN "waiting" ELSE "queued", st |-> loc[w],
                                         asleep |-> pc[w] = "requeue", owner |-> None, lease |-> "none"]]
          BY <3>2 DEF GiveBack
        <4>2. run'[r].status \in {"waiting", "queued"}
          BY <4>1 DEF Typed
        <4> QED
          BY <4>2
      <3> QED
        BY <1>3, <3>1, <3>2, StatusCases DEF FINISHED
    <2>2. PICK i : /\ Latest(ToSeeTo(r), i) /\ Kind[rows[r][i].node] \in WriteKinds
                   /\ Contains(run[r].st.queue, rows[r][i].node) /\ waits[r][rows[r][i].node].att
      BY <2>1 DEF Shown
    <2>3. ASSUME NEW a \in Admins, req[a].run = r, NEW action, AttentionWrite(a, action) PROVE FALSE
      BY <2>1, <2>3, AnsweredLeaves
    <2>4. rows'[r] = rows[r]
      <3>1. ASSUME NEW w \in Workers, cur[w] = r, pc[w] # "idle" PROVE FALSE
        BY <2>1, <3>1 DEF Custody, Holding
      <3>2. ASSUME NEW k \in 1 .. Len(rows[r]), RowInDoubt(r, k) PROVE FALSE
        BY <2>1, <3>2 DEF RowInDoubt, InDoubt
      <3>3. ASSUME NEW a \in Admins, RowSkipped(a), req[a].run = r PROVE FALSE
        BY <2>3, <3>3 DEF RowSkipped
      <3> QED
        BY <3>1, <3>2, <3>3, RowsOfOthers
    <2>5. ToSeeTo(r)' = ToSeeTo(r)
      BY <2>4 DEF ToSeeTo
    <2>6. waits'[r][rows[r][i].node].att
      <3>1. rows[r][i].node \in Nodes
        <4>1. i \in 1 .. Len(rows[r])
          BY <2>2 DEF Latest, ToSeeTo, Typed
        <4>2. rows[r][i] \in NodeRows
          BY <4>1 DEF Typed
        <4> QED
          BY <4>2 DEF NodeRows
      <3>2. ~Cancel(r)
        <4>1. Cancel(r) => run'[r].status = "canceled"
          BY DEF Cancel, Typed, RunRows
        <4> QED
          BY <4>1
      <3> QED
        BY <2>2, <2>3, <3>1, <3>2, AttentionKept
    <2> QED
      BY <2>1, <2>2, <2>4, <2>5, <2>6
  <1> QED
    BY <1>2, <1>3

\* A run that needs attention can get it: the row resolve_attention() finds is of a
\* write that still is in the run's queue, so that it can be repeated or skipped, and
\* there is a wait that shows it to the administrators.
THEOREM AttentionCanBeGiven == Spec => []AttentionIsAnswerable
  <1> DEFINE Inv == Recovered /\ Queued /\ DoubtQueued /\ Shown
  <1>1. Init => Queued /\ DoubtQueued /\ Shown
    <2> SUFFICES ASSUME Init PROVE Queued /\ DoubtQueued /\ Shown
      OBVIOUS
    <2>1. Queued /\ Shown
      BY DEF Init, Queued, Shown, Open
    <2>2. \A r \in Runs : Doubtful(r) = {}
      BY DEF Init, Doubtful, Unfinished
    <2> QED
      BY <2>1, <2>2 DEF DoubtQueued
  <1>2. Inv /\ [Next]_vars => Inv'
    BY RecoveredNext, QueuedNext, DoubtQueuedNext, ShownNext DEF Recovered
  <1>3. Inv => AttentionIsAnswerable
    <2> SUFFICES ASSUME Inv, NEW r \in Runs, run[r].status = "needs_attention"
                 PROVE  /\ ToSeeTo(r) # {}
                        /\ LET n == rows[r][CHOOSE i \in ToSeeTo(r) : \A j \in ToSeeTo(r) : j <= i].node IN
                           Kind[n] \in WriteKinds /\ Contains(run[r].st.queue, n) /\ waits[r][n].att
      BY DEF AttentionIsAnswerable
    <2>1. PICK i : /\ Latest(ToSeeTo(r), i) /\ Kind[rows[r][i].node] \in WriteKinds
                   /\ Contains(run[r].st.queue, rows[r][i].node) /\ waits[r][rows[r][i].node].att
      BY DEF Shown
    <2> DEFINE c == CHOOSE x \in ToSeeTo(r) : \A j \in ToSeeTo(r) : j <= x
    <2>2. c \in ToSeeTo(r) /\ \A j \in ToSeeTo(r) : j <= c
      BY <2>1 DEF Latest
    <2>3. ToSeeTo(r) \subseteq Nat
      BY DEF ToSeeTo, Recovered, Typed
    <2>4. c = i
      <3> HIDE DEF c
      <3> QED
        BY <2>1, <2>2, <2>3 DEF Latest
    <2> QED
      BY <2>1, <2>4 DEF Latest
  <1> QED
    BY <1>1, <1>2, <1>3, RecoveredInit, PTL DEF Spec
=============================================================================
