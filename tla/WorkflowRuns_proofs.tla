------------------------- MODULE WorkflowRuns_proofs -------------------------
(***************************************************************************)
(* Theorems about WorkflowRuns, for every set of runs, nodes, workers and  *)
(* administrators and every definition of a workflow.                      *)
(***************************************************************************)
EXTENDS WorkflowRuns, TLAPS

\* Only as much of the types as the theorems need: what a state of a run is made
\* of does not matter to them.
Row(x) == x \in [status : {x.status}, st : {x.st}, asleep : {x.asleep}, owner : {x.owner}, lease : {x.lease}]
RunShape == run = [r \in Runs |-> run[r]] /\ \A r \in Runs : Row(run[r])
WaitRows == [last : {None, "pending", "approved", "rejected", "resolved", "expired", "canceled"},
             older : Nat, att : BOOLEAN]
WaitShape == waits \in [Runs -> [Nodes -> WaitRows]]
Places == {"idle", "loop", "begin", "execute", "ask", "done", "failed", "checkpoint",
           "park", "parked", "suspend", "requeue", "finish"}
WorkerShape == /\ pc \in [Workers -> Places] /\ cur \in [Workers -> Runs \cup {NoRun}]
               /\ DOMAIN node = Workers /\ \A w \in Workers : pc[w] # "idle" => cur[w] \in Runs
ActedShape == acted = [r \in Runs |-> acted[r]]
Shape == RunShape /\ WaitShape /\ WorkerShape /\ ActedShape

LEMMA ShapeInit == Init => Shape
  <1> SUFFICES ASSUME Init PROVE Shape
    OBVIOUS
  <1>1. RunShape
    BY DEF Init, RunShape, Row
  <1>2. WaitShape
    BY DEF Init, WaitShape, WaitRows, NoWait
  <1>3. WorkerShape /\ ActedShape
    BY DEF Init, WorkerShape, Places, ActedShape
  <1> QED
    BY <1>1, <1>2, <1>3 DEF Shape

\* What a step does to the runs: all but these leave them, or their states.
LEMMA RunCases ==
  ASSUME Shape, [Next]_vars
  PROVE  \/ UNCHANGED run
         \/ \E r \in Runs : Enqueue(r) \/ Cancel(r) \/ Wake(r) \/ LeaseLapses(r)
         \/ \E r \in Runs, n \in Nodes : ResolveWait(r, n) \/ ExpireWaits(r, n)
         \/ \E a \in Admins, action \in {"retry", "skip", "terminate"} : AttentionWrite(a, action)
         \/ \E w \in Workers : Checkpoint(w) \/ Park(w) \/ GiveBack(w) \/ FinishRun(w)
         \/ \E w \in Workers, r \in Runs : Claim(w, r)
         \/ Crash
  BY DEF Next, WorkerStep, Look, BeginNode, Execute, Act, ReadWait, CreateWait, FinishNode, FailNode,
         FinishWaiting, AttentionRead, vars

LEMMA RunShapeNext ==
  ASSUME Shape, [Next]_vars
  PROVE  RunShape'
  <1> USE DEF Shape, RunShape, Row
  <1>1. ASSUME NEW r \in Runs, Enqueue(r) \/ Cancel(r) \/ Wake(r) \/ LeaseLapses(r) PROVE RunShape'
    BY <1>1 DEF Enqueue, Cancel, Wake, LeaseLapses
  <1>2. ASSUME NEW r \in Runs, NEW n \in Nodes, ResolveWait(r, n) \/ ExpireWaits(r, n) PROVE RunShape'
    BY <1>2 DEF ResolveWait, ExpireWaits, Requeued
  <1>3. ASSUME NEW a \in Admins, NEW action \in {"retry", "skip", "terminate"}, AttentionWrite(a, action)
        PROVE  RunShape'
    <2> DEFINE r == req[a].run
    <2>1. ASSUME NEW s, run' = [run EXCEPT ![r].status = "queued", ![r].asleep = FALSE, ![r].st = s]
          PROVE  RunShape'
      <3> HIDE DEF r
      <3> QED
        BY <2>1
    <2>2. CASE run' = [run EXCEPT ![r].status = "failed"]
      <3> HIDE DEF r
      <3> QED
        BY <2>2
    <2>3. CASE run' = run
      BY <2>3
    <2> QED
      BY <1>3, <2>1, <2>2, <2>3 DEF AttentionWrite
  <1>4. ASSUME NEW w \in Workers, Checkpoint(w) \/ Park(w) PROVE RunShape'
    <2>1. CASE UNCHANGED run
      BY <2>1
    <2>2. ASSUME NEW s, run' = [run EXCEPT ![cur[w]].st = s] PROVE RunShape'
      BY <2>2
    <2> QED
      BY <1>4, <2>1, <2>2 DEF Checkpoint, Park, SaveAnd
  <1>5. ASSUME NEW w \in Workers, GiveBack(w) \/ FinishRun(w) PROVE RunShape'
    <2>1. ASSUME NEW row, Row(row), run' = [run EXCEPT ![cur[w]] = row] PROVE RunShape'
      BY <2>1
    <2>2. ASSUME NEW status, NEW s, NEW asleep
          PROVE  Row([status |-> status, st |-> s, asleep |-> asleep, owner |-> None, lease |-> "none"])
      OBVIOUS
    <2>3. CASE GiveBack(w)
      BY <2>1, <2>2, <2>3 DEF GiveBack
    <2>4. CASE FinishRun(w)
      BY <2>4 DEF FinishRun
    <2> QED
      BY <1>5, <2>3, <2>4
  <1>6. ASSUME NEW w \in Workers, NEW r \in Runs, Claim(w, r) PROVE RunShape'
    <2>1. CASE run' = [run EXCEPT ![r].status = "needs_attention", ![r].owner = None, ![r].lease = "none"]
      BY <2>1
    <2>2. CASE run' = [run EXCEPT ![r].status = "running", ![r].owner = w, ![r].lease = "live"]
      BY <2>2
    <2> QED
      BY <1>6, <2>1, <2>2 DEF Claim, MarkUncertain
  <1>7. CASE Crash
    BY <1>7 DEF Crash
  <1>8. CASE UNCHANGED run
    BY <1>8
  <1> QED
    BY <1>1, <1>2, <1>3, <1>4, <1>5, <1>6, <1>7, <1>8, RunCases

LEMMA WorkerShapeNext ==
  ASSUME Shape, [Next]_vars
  PROVE  WorkerShape'
  <1> USE DEF Shape, WorkerShape
  <1>1. CASE UNCHANGED worker
    BY <1>1 DEF worker
  <1>2. CASE Crash
    BY <1>2 DEF Crash, Places
  <1>3. ASSUME NEW w \in Workers, NEW r \in Runs, Claim(w, r) PROVE WorkerShape'
    <2>1. UNCHANGED worker \/ (/\ pc' = [pc EXCEPT ![w] = "loop"] /\ cur' = [cur EXCEPT ![w] = r]
                              /\ node' = node)
      BY <1>3 DEF Claim, MarkUncertain
    <2> QED
      BY <1>1, <2>1 DEF Places
  <1>4. ASSUME NEW w \in Workers, WorkerStep(w) PROVE WorkerShape'
    <2>1. pc[w] # "idle" /\ cur[w] \in Runs
      BY <1>4 DEF WorkerStep, Look, BeginNode, Execute, Act, ReadWait, CreateWait, FinishNode, FailNode,
         Checkpoint, Park, FinishWaiting, GiveBack, FinishRun, Here
    <2>2. CASE Leave(w)
      BY <2>2 DEF Leave, Places
    <2>3. CASE UNCHANGED cur /\ DOMAIN node' = Workers /\ \E place \in Places : pc' = [pc EXCEPT ![w] = place]
      BY <2>1, <2>3
    <2>4. CASE \E place \in Places : \E s : GoTo(w, place, s)
      BY <2>3, <2>4 DEF GoTo
    <2>5. CASE \E x : Done(w, x) \/ ToFinish(w, x)
      BY <2>3, <2>5 DEF Done, ToFinish, Places
    <2>6. CASE Failed(w)
      BY <2>4, <2>6 DEF Failed, Places
    <2>7. CASE Look(w)
      BY <2>2, <2>3, <2>4, <2>5, <2>7 DEF Look, Places
    <2> QED
      BY <1>4, <2>2, <2>4, <2>5, <2>6, <2>7
      DEF WorkerStep, BeginNode, Execute, Act, ReadWait, CreateWait, FinishNode, FailNode,
          Checkpoint, Park, FinishWaiting, GiveBack, FinishRun, SaveAnd, Places
  <1> QED
    BY <1>1, <1>2, <1>3, <1>4
    DEF Next, Enqueue, Cancel, Wake, LeaseLapses, ResolveWait, ExpireWaits, AttentionRead, AttentionWrite,
        vars, worker

\* A wait that an administrator approved stays approved, unless its node asks anew.
WaitsKept ==
  \A r \in Runs, n \in Nodes :
    \/ waits'[r][n].last = waits[r][n].last
    \/ waits[r][n].last = "pending"
    \/ /\ waits'[r][n].last = "pending"
       /\ \E w \in Workers : pc[w] = "ask" /\ pc'[w] # "ask" /\ cur[w] = r /\ node[w] = n

Rewritten(r, n, row) ==
  \A x \in Runs, m \in Nodes : waits'[x][m] = IF x = r /\ m = n THEN row ELSE waits[x][m]

LEMMA OneWait ==
  ASSUME WaitShape, NEW r, NEW n, NEW row, r \in Runs /\ n \in Nodes => row \in WaitRows,
         waits' = [waits EXCEPT ![r] = [waits[r] EXCEPT ![n] = row]]
  PROVE  WaitShape' /\ Rewritten(r, n, row)
  <1> USE DEF Rewritten
  <1>1. CASE r \in Runs /\ n \in Nodes
    BY <1>1 DEF WaitShape
  <1>2. CASE r \in Runs /\ n \notin Nodes
    <2>1. [waits[r] EXCEPT ![n] = row] = waits[r]
      BY <1>2 DEF WaitShape
    <2> QED
      BY <1>2, <2>1 DEF WaitShape
  <1>3. CASE r \notin Runs
    BY <1>3 DEF WaitShape
  <1> QED
    BY <1>1, <1>2, <1>3

LEMMA WaitShapeNext ==
  ASSUME Shape, [Next]_vars
  PROVE  WaitShape' /\ WaitsKept
  <1> USE DEF Shape
  <1>0. \A r \in Runs, n \in Nodes : waits[r][n] \in WaitRows
    BY DEF WaitShape
  <1>1. CASE UNCHANGED waits
    BY <1>1 DEF WaitShape, WaitsKept
  <1>2. ASSUME NEW r \in Runs, Cancel(r) PROVE WaitShape' /\ WaitsKept
    <2> DEFINE new == [n \in Nodes |->
                 [last |-> IF waits[r][n].last = "pending" THEN "canceled" ELSE waits[r][n].last,
                  older |-> 0, att |-> FALSE]]
    <2>1. new \in [Nodes -> WaitRows]
      BY <1>0 DEF WaitRows
    <2>2. \A n \in Nodes : new[n].last = waits[r][n].last \/ waits[r][n].last = "pending"
      OBVIOUS
    <2>3. waits' = [waits EXCEPT ![r] = new]
      BY <1>2 DEF Cancel
    <2> HIDE DEF new
    <2> QED
      BY <2>1, <2>2, <2>3 DEF WaitShape, WaitsKept
  <1>3. ASSUME NEW r, NEW n, NEW row, r \in Runs /\ n \in Nodes => row \in WaitRows,
               r \in Runs /\ n \in Nodes => row.last = waits[r][n].last \/ waits[r][n].last = "pending",
               waits' = [waits EXCEPT ![r] = [waits[r] EXCEPT ![n] = row]]
        PROVE  WaitShape' /\ WaitsKept
    <2>1. WaitShape' /\ Rewritten(r, n, row)
      BY <1>3, OneWait
    <2>2. ASSUME NEW x \in Runs, NEW m \in Nodes
          PROVE  waits'[x][m].last = waits[x][m].last \/ waits[x][m].last = "pending"
      <3>1. CASE x = r /\ m = n
        BY <1>3, <2>1, <3>1 DEF Rewritten
      <3>2. CASE ~(x = r /\ m = n)
        BY <2>1, <3>2 DEF Rewritten
      <3> QED
        BY <3>1, <3>2
    <2> QED
      BY <2>1, <2>2 DEF WaitsKept
  <1>4. ASSUME NEW r \in Runs, NEW n \in Nodes, ResolveWait(r, n) PROVE WaitShape' /\ WaitsKept
    <2>1. waits[r][n] \in WaitRows /\ Answers(n) \subseteq {"approved", "rejected", "resolved"}
      BY <1>0 DEF Answers
    <2>2. CASE /\ waits[r][n].last = "pending"
               /\ \E answer \in Answers(n) : waits' = [waits EXCEPT ![r][n].last = answer]
      <3>1. PICK answer \in {"approved", "rejected", "resolved"} : waits' = [waits EXCEPT ![r][n].last = answer]
        BY <2>1, <2>2
      <3>2. [waits[r][n] EXCEPT !.last = answer] \in WaitRows
        BY <2>1, <3>1 DEF WaitRows
      <3>3. waits' = [waits EXCEPT ![r] = [waits[r] EXCEPT ![n] = [waits[r][n] EXCEPT !.last = answer]]]
        BY <3>1
      <3> QED
        BY <1>3, <2>2, <3>2, <3>3
    <2>3. CASE waits[r][n].older > 0 /\ waits' = [waits EXCEPT ![r][n].older = @ - 1]
      <3>1. [waits[r][n] EXCEPT !.older = @ - 1] \in WaitRows /\ [waits[r][n] EXCEPT !.older = @ - 1].last = waits[r][n].last
        BY <2>1, <2>3 DEF WaitRows
      <3> QED
        BY <1>3, <2>3, <3>1
    <2> QED
      BY <1>4, <2>2, <2>3 DEF ResolveWait
  <1>5. ASSUME NEW r \in Runs, NEW n \in Nodes, ExpireWaits(r, n) PROVE WaitShape' /\ WaitsKept
    <2>1. waits[r][n] \in WaitRows
      BY <1>0
    <2>2. CASE /\ waits[r][n].last = "pending"
               /\ waits' = [waits EXCEPT ![r][n].last = "expired", ![r][n].older = 0]
      <3> DEFINE row == [waits[r][n] EXCEPT !.last = "expired", !.older = 0]
      <3>1. waits' = [waits EXCEPT ![r] = [waits[r] EXCEPT ![n] = row]]
        BY <2>2 DEF WaitShape
      <3>2. row \in WaitRows
        BY <2>1 DEF WaitRows
      <3>3. waits[r][n].last = "pending"
        BY <2>2
      <3> HIDE DEF row
      <3> QED
        BY <1>3, <3>1, <3>2, <3>3
    <2>3. ASSUME NEW left \in Nat, waits' = [waits EXCEPT ![r][n].older = left] PROVE WaitShape' /\ WaitsKept
      <3>1. [waits[r][n] EXCEPT !.older = left] \in WaitRows /\ [waits[r][n] EXCEPT !.older = left].last = waits[r][n].last
        BY <2>1, <2>3 DEF WaitRows
      <3> QED
        BY <1>3, <2>3, <3>1
    <2>4. \A left \in 0 .. waits[r][n].older - 1 : left \in Nat
      BY <2>1 DEF WaitRows
    <2> QED
      BY <1>5, <2>2, <2>3, <2>4 DEF ExpireWaits
  <1>6. ASSUME NEW r, NEW n, NEW b \in BOOLEAN, waits' = [waits EXCEPT ![r][n].att = b]
        PROVE  WaitShape' /\ WaitsKept
    <2>1. r \in Runs /\ n \in Nodes => /\ [waits[r][n] EXCEPT !.att = b] \in WaitRows
                                      /\ [waits[r][n] EXCEPT !.att = b].last = waits[r][n].last
      BY <1>0 DEF WaitRows
    <2> QED
      BY <1>3, <1>6, <2>1
  <1>7. ASSUME NEW a \in Admins, NEW action \in {"retry", "skip", "terminate"}, AttentionWrite(a, action)
        PROVE  WaitShape' /\ WaitsKept
    BY <1>6, <1>7 DEF AttentionWrite
  <1>8. ASSUME NEW w \in Workers, NEW r \in Runs, Claim(w, r) PROVE WaitShape' /\ WaitsKept
    BY <1>1, <1>6, <1>8 DEF Claim, MarkUncertain
  <1>9. ASSUME NEW w \in Workers, CreateWait(w) PROVE WaitShape' /\ WaitsKept
    <2> DEFINE r == cur[w]
               n == node[w]
               k == IF Wait(w) = "pending" THEN waits[r][n].older + 1 ELSE waits[r][n].older
               row == [waits[r][n] EXCEPT !.last = "pending", !.older = k]
    <2>1. r \in Runs /\ pc[w] = "ask" /\ pc'[w] = "park"
      BY <1>9 DEF CreateWait, GoTo, WorkerShape
    <2>2. waits' = [waits EXCEPT ![r] = [waits[r] EXCEPT ![n] = row]]
      BY <1>9, <2>1 DEF CreateWait, WaitShape
    <2>3. n \in Nodes => row \in WaitRows /\ row.last = "pending"
      <3> SUFFICES ASSUME n \in Nodes PROVE row \in WaitRows /\ row.last = "pending"
        OBVIOUS
      <3>1. waits[r][n] \in WaitRows
        BY <1>0, <2>1
      <3>2. k \in Nat
        BY <3>1 DEF WaitRows
      <3> HIDE DEF k
      <3> QED
        BY <3>1, <3>2 DEF WaitRows
    <2> HIDE DEF row
    <2>4. WaitShape' /\ Rewritten(r, n, row)
      BY <2>2, <2>3, OneWait
    <2>5. ASSUME NEW x \in Runs, NEW m \in Nodes
          PROVE  waits'[x][m] = waits[x][m] \/ (waits'[x][m].last = "pending" /\ x = r /\ m = n)
      BY <2>3, <2>4 DEF Rewritten
    <2> QED
      BY <2>1, <2>4, <2>5 DEF WaitsKept
  <1> QED
    BY <1>1, <1>2, <1>4, <1>5, <1>7, <1>8, <1>9
    DEF Next, WorkerStep, Look, BeginNode, Execute, Act, ReadWait, FinishNode, FailNode, Checkpoint, Park,
        FinishWaiting, GiveBack, FinishRun, Enqueue, Wake, LeaseLapses, AttentionRead, Crash, vars

LEMMA ShapeNext ==
  ASSUME Shape, [Next]_vars
  PROVE  Shape'
  <1>1. ActedShape'
    BY DEF Shape, ActedShape, Next, WorkerStep, Look, BeginNode, Execute, Act, ReadWait, CreateWait, FinishNode,
       FailNode, Checkpoint, Park, FinishWaiting, GiveBack, FinishRun, Claim, Enqueue, Cancel, Wake, LeaseLapses,
       ResolveWait, ExpireWaits, AttentionRead, AttentionWrite, Crash, vars
  <1> QED
    BY <1>1, RunShapeNext, WaitShapeNext, WorkerShapeNext DEF Shape

-----------------------------------------------------------------------------
(* One executor.  The strengthening: a worker at a node holds a run that is *)
(* its own or that was cancelled under it, and a lapsed lease is a dead     *)
(* owner's, so that neither kind of run can be claimed by another worker.   *)

Lapses == \A r \in Runs : run[r].lease = "lapsed" => run[r].owner = "dead"
Holding == \A w \in Workers : pc[w] # "idle" =>
             \/ run[cur[w]].status = "canceled"
             \/ run[cur[w]].status = "running" /\ run[cur[w]].owner = w
Custody == Lapses /\ Holding /\ OneExecutor

\* A run nobody holds.
Free(r) == \A w \in Workers : pc[w] # "idle" => cur[w] # r

LEMMA HoldersStay ==
  ASSUME Shape, Custody, NEW r, UNCHANGED <<pc, cur>>,
         r \in Runs => Free(r) \/ run'[r].status = "canceled" \/
                      (run'[r].status = run[r].status /\ run'[r].owner = run[r].owner),
         \A x \in Runs \ {r} : run'[x] = run[x]
  PROVE  Holding' /\ OneExecutor'
  BY DEF Shape, WorkerShape, Custody, Holding, OneExecutor, Free

\* A step of a worker does not begin or change the work on a run.
LEMMA KeptPlaces ==
  ASSUME Shape, NEW w \in Workers, WorkerStep(w)
  PROVE  \A v \in Workers : pc'[v] # "idle" => pc[v] # "idle" /\ cur'[v] = cur[v]
  <1> USE DEF Shape, WorkerShape
  <1>1. pc[w] # "idle"
    BY DEF WorkerStep, Look, BeginNode, Execute, Act, ReadWait, CreateWait, FinishNode, FailNode,
       Checkpoint, Park, FinishWaiting, GiveBack, FinishRun, Here
  <1>2. CASE Leave(w)
    BY <1>2 DEF Leave
  <1>3. CASE UNCHANGED cur /\ \E place : pc' = [pc EXCEPT ![w] = place]
    BY <1>1, <1>3
  <1>4. CASE Look(w)
    BY <1>2, <1>3, <1>4 DEF Look, GoTo, ToFinish
  <1>5. CASE \E place, s : GoTo(w, place, s)
    BY <1>3, <1>5 DEF GoTo
  <1>6. CASE Failed(w) \/ \E x : Done(w, x) \/ ToFinish(w, x)
    BY <1>3, <1>5, <1>6 DEF Failed, Done, ToFinish
  <1> QED
    BY <1>2, <1>4, <1>5, <1>6
    DEF WorkerStep, BeginNode, Execute, Act, ReadWait, CreateWait, FinishNode, FailNode,
        Checkpoint, Park, FinishWaiting, GiveBack, FinishRun, SaveAnd

LEMMA CustodyNext ==
  ASSUME Shape, Custody, [Next]_vars
  PROVE  Custody'
  <1> USE DEF Shape, Custody
  <1>0. /\ \A r \in Runs : Row(run[r])
        /\ \A w \in Workers : w # "dead"
        /\ \A w \in Workers : pc[w] # "idle" => cur[w] \in Runs
    BY ConstantsAssumption DEF RunShape, WorkerShape
  <1>1. ASSUME NEW r \in Runs, Enqueue(r) \/ Cancel(r) \/ Wake(r) PROVE Custody'
    <2>1. /\ \A x \in Runs \ {r} : run'[x] = run[x]
          /\ UNCHANGED <<pc, cur>>
      BY <1>1 DEF Enqueue, Cancel, Wake, RunShape, worker
    <2>2. /\ run'[r].lease \in {run[r].lease, "none"}
          /\ run'[r].lease = "none" \/ run'[r].owner = run[r].owner
          /\ \/ run[r].status = "absent" \/ run'[r].status = "canceled"
             \/ run'[r].status = run[r].status /\ run'[r].owner = run[r].owner
      BY <1>0, <1>1 DEF Enqueue, Cancel, Wake, RunShape, Row, Exists
    <2>3. Lapses'
      BY <2>1, <2>2 DEF Lapses
    <2>4. run[r].status = "absent" => Free(r)
      BY DEF Free, Holding
    <2> QED
      BY <2>1, <2>2, <2>3, <2>4, HoldersStay
  <1>2. ASSUME NEW r \in Runs, NEW n \in Nodes, ResolveWait(r, n) \/ ExpireWaits(r, n) PROVE Custody'
    <2>1. /\ \A x \in Runs \ {r} : run'[x] = run[x]
          /\ UNCHANGED <<pc, cur>> /\ run'[r] = Requeued(r)
      BY <1>2 DEF ResolveWait, ExpireWaits, RunShape, worker
    <2>2. run'[r].lease = run[r].lease /\ run'[r].owner = run[r].owner
          /\ (run[r].status = "waiting" \/ run'[r].status = run[r].status)
      BY <1>0, <2>1 DEF Requeued, Row
    <2>3. Lapses'
      BY <2>1, <2>2 DEF Lapses
    <2>4. run[r].status = "waiting" => Free(r)
      BY DEF Free, Holding
    <2> QED
      BY <2>1, <2>2, <2>3, <2>4, HoldersStay
  <1>3. ASSUME NEW a \in Admins, NEW action \in {"retry", "skip", "terminate"}, AttentionWrite(a, action)
        PROVE  Custody'
    <2> DEFINE r == req[a].run
    <2>1. \/ run' = run
          \/ /\ run[r].status = "needs_attention"
             /\ run' = [run EXCEPT ![r].status = "failed"]
          \/ /\ run[r].status = "needs_attention"
             /\ \E s : run' = [run EXCEPT ![r].status = "queued", ![r].asleep = FALSE, ![r].st = s]
      BY <1>3 DEF AttentionWrite
    <2>2. UNCHANGED <<pc, cur>>
      BY <1>3 DEF AttentionWrite, worker
    <2> HIDE DEF r
    <2>3. /\ \A x \in Runs \ {r} : run'[x] = run[x]
          /\ \A x \in Runs : run'[x].lease = run[x].lease /\ run'[x].owner = run[x].owner
          /\ r \in Runs => run[r].status = "needs_attention" \/ run'[r] = run[r]
      <3>1. CASE run' = run
        BY <3>1
      <3>2. CASE run[r].status = "needs_attention" /\ run' = [run EXCEPT ![r].status = "failed"]
        BY <1>0, <3>2 DEF RunShape, Row
      <3>3. ASSUME NEW s, run[r].status = "needs_attention",
                   run' = [run EXCEPT ![r].status = "queued", ![r].asleep = FALSE, ![r].st = s]
            PROVE  /\ \A x \in Runs \ {r} : run'[x] = run[x]
                   /\ \A x \in Runs : run'[x].lease = run[x].lease /\ run'[x].owner = run[x].owner
        BY <1>0, <3>3 DEF RunShape, Row
      <3> QED
        BY <2>1, <3>1, <3>2, <3>3
    <2>4. Lapses'
      BY <2>3 DEF Lapses
    <2>5. r \in Runs /\ run[r].status = "needs_attention" => Free(r)
      BY DEF Free, Holding
    <2> QED
      BY <2>2, <2>3, <2>4, <2>5, HoldersStay
  <1>4. ASSUME NEW w \in Workers, NEW r \in Runs, Claim(w, r) PROVE Custody'
    <2>1. Free(r)
      BY <1>0, <1>4 DEF Claim, Eligible, Recoverable, Free, Holding, Lapses
    <2>2. CASE /\ UNCHANGED worker
               /\ run' = [run EXCEPT ![r].status = "needs_attention", ![r].owner = None, ![r].lease = "none"]
      <3>1. /\ \A x \in Runs \ {r} : run'[x] = run[x]
            /\ run'[r].lease = "none"
        BY <1>0, <2>2 DEF RunShape, Row
      <3>2. Lapses'
        BY <3>1 DEF Lapses
      <3> QED
        BY <2>1, <2>2, <3>1, <3>2, HoldersStay DEF worker
    <2>3. CASE /\ pc' = [pc EXCEPT ![w] = "loop"] /\ cur' = [cur EXCEPT ![w] = r]
               /\ run' = [run EXCEPT ![r].status = "running", ![r].owner = w, ![r].lease = "live"]
      <3>1. /\ \A x \in Runs \ {r} : run'[x] = run[x]
            /\ run'[r].lease = "live" /\ run'[r].owner = w /\ run'[r].status = "running"
        BY <1>0, <2>3 DEF RunShape, Row
      <3>2. /\ cur'[w] = r /\ \A v \in Workers \ {w} : pc'[v] = pc[v] /\ cur'[v] = cur[v]
        BY <2>3 DEF WorkerShape
      <3>3. Lapses'
        BY <3>1 DEF Lapses
      <3>4. Holding'
        BY <1>0, <2>1, <3>1, <3>2 DEF Holding, Free
      <3>5. OneExecutor'
        BY <2>1, <3>2 DEF OneExecutor, Free
      <3> QED
        BY <3>3, <3>4, <3>5
    <2> QED
      BY <1>4, <2>2, <2>3 DEF Claim, MarkUncertain
  <1>5. ASSUME NEW w \in Workers, WorkerStep(w), ~GiveBack(w), ~FinishRun(w) PROVE Custody'
    <2>1. \A v \in Workers : pc'[v] # "idle" => pc[v] # "idle" /\ cur'[v] = cur[v]
      BY <1>5, KeptPlaces
    <2>2. \A r \in Runs : run'[r].status = run[r].status /\ run'[r].owner = run[r].owner /\ run'[r].lease = run[r].lease
      <3>1. CASE UNCHANGED run
        BY <3>1
      <3>2. ASSUME NEW s, run' = [run EXCEPT ![cur[w]].st = s]
            PROVE  \A r \in Runs : run'[r].status = run[r].status /\ run'[r].owner = run[r].owner /\ run'[r].lease = run[r].lease
        BY <1>0, <3>2 DEF RunShape, Row
      <3> QED
        BY <1>5, <3>1, <3>2 DEF WorkerStep, Look, BeginNode, Execute, Act, ReadWait, CreateWait, FinishNode,
           FailNode, Checkpoint, Park, FinishWaiting, SaveAnd
    <2> QED
      BY <1>0, <2>1, <2>2 DEF Lapses, Holding, OneExecutor
  <1>6. ASSUME NEW w \in Workers, GiveBack(w) \/ FinishRun(w) PROVE Custody'
    <2>1. /\ pc[w] # "idle" /\ pc'[w] = "idle"
          /\ \A v \in Workers \ {w} : pc'[v] = pc[v] /\ cur'[v] = cur[v]
      BY <1>6 DEF GiveBack, FinishRun, Leave, WorkerShape
    <2>2. /\ \A r \in Runs \ {cur[w]} : run'[r] = run[r]
          /\ run'[cur[w]].lease = "none"
      BY <1>0, <1>6, <2>1 DEF GiveBack, FinishRun, RunShape, Row
    <2>3. Lapses'
      BY <2>2 DEF Lapses
    <2> QED
      BY <1>0, <2>1, <2>2, <2>3 DEF Holding, OneExecutor
  <1>7. ASSUME NEW r \in Runs, LeaseLapses(r) PROVE Custody'
    <2>1. /\ \A x \in Runs \ {r} : run'[x] = run[x]
          /\ run'[r].owner = run[r].owner /\ run'[r].status = run[r].status /\ run[r].owner = "dead"
          /\ UNCHANGED <<pc, cur>>
      BY <1>0, <1>7 DEF LeaseLapses, RunShape, Row, worker
    <2> QED
      BY <2>1, HoldersStay DEF Lapses
  <1>8. CASE Crash
    <2>1. /\ \A w \in Workers : pc'[w] = "idle"
          /\ \A r \in Runs : run'[r].lease = run[r].lease /\ (run'[r].owner = run[r].owner \/ run'[r].owner = "dead")
      BY <1>0, <1>8 DEF Crash, Row
    <2> QED
      BY <2>1 DEF Lapses, Holding, OneExecutor
  <1>9. CASE UNCHANGED <<run, pc, cur>>
    BY <1>9 DEF Lapses, Holding, OneExecutor
  <1> QED
    BY <1>1, <1>2, <1>3, <1>4, <1>5, <1>6, <1>7, <1>8, <1>9
    DEF Next, AttentionRead, vars, worker

\* No run is in the hands of two workers, however many answers, expiries, cancellations,
\* administrators and crashes come between (claim_run(), resolve_wait(),
\* finish_run()).
THEOREM RunsHaveOneExecutor == Spec => []OneExecutor
  <1>1. Init => Custody
    BY DEF Init, Custody, Lapses, Holding, OneExecutor
  <1>2. Custody => OneExecutor
    BY DEF Custody
  <1> QED
    BY <1>1, <1>2, ShapeInit, ShapeNext, CustodyNext, PTL DEF Spec

-----------------------------------------------------------------------------
(* Consent.  A write that needs it asks once; while the worker is about to  *)
(* ask, nobody else can be, because the run has one executor.               *)

Asking ==
  \A w \in Workers : pc[w] = "ask" /\ node[w] \in Nodes /\ Kind[node[w]] = "gated" => Wait(w) = None

LEMMA AskingNext ==
  ASSUME Shape, Custody, Asking, [Next]_vars
  PROVE  Asking'
  <1> SUFFICES ASSUME NEW w \in Workers, pc'[w] = "ask", node'[w] \in Nodes, Kind[node'[w]] = "gated"
               PROVE  waits'[cur'[w]][node'[w]].last = None
    BY DEF Asking, Wait
  <1> USE DEF Shape, WorkerShape
  <1>1. CASE ReadWait(w)
    BY <1>1 DEF ReadWait, GoTo, Done, Failed, Here, Wait
  <1>2. CASE pc[w] = "ask" /\ cur'[w] = cur[w] /\ node'[w] = node[w]
    <2>1. cur[w] \in Runs /\ waits[cur[w]][node[w]].last = None
      BY <1>2 DEF Asking, Wait
    <2>2. ASSUME NEW v \in Workers, pc[v] = "ask", pc'[v] # "ask", cur[v] = cur[w] PROVE FALSE
      BY <1>2, <2>2 DEF Custody, OneExecutor
    <2> QED
      BY <1>2, <2>1, <2>2, WaitShapeNext DEF WaitsKept, None
  <1>3. CASE UNCHANGED worker
    BY <1>2, <1>3 DEF worker
  <1>4. CASE Crash
    BY <1>4 DEF Crash
  <1>5. ASSUME NEW v \in Workers, NEW r \in Runs, Claim(v, r) PROVE waits'[cur'[w]][node'[w]].last = None
    <2>1. UNCHANGED worker \/ (/\ pc' = [pc EXCEPT ![v] = "loop"] /\ cur' = [cur EXCEPT ![v] = r]
                              /\ node' = node)
      BY <1>5 DEF Claim, MarkUncertain
    <2> QED
      BY <1>2, <1>3, <2>1
  <1>6. ASSUME NEW v \in Workers \ {w}, WorkerStep(v) PROVE waits'[cur'[w]][node'[w]].last = None
    <2>1. CASE pc'[w] = pc[w] /\ cur'[w] = cur[w] /\ node'[w] = node[w]
      BY <1>2, <2>1
    <2>2. CASE Look(v)
      BY <2>1, <2>2 DEF Look, GoTo, ToFinish, Leave
    <2>3. CASE Leave(v) \/ (\E place, s : GoTo(v, place, s)) \/ (\E x : Done(v, x) \/ ToFinish(v, x)) \/ Failed(v)
      BY <2>1, <2>3 DEF Leave, GoTo, Done, ToFinish, Failed
    <2> QED
      BY <1>6, <2>2, <2>3
      DEF WorkerStep, BeginNode, Execute, Act, ReadWait, CreateWait, FinishNode, FailNode,
          Checkpoint, Park, FinishWaiting, GiveBack, FinishRun, SaveAnd
  <1>7. CASE WorkerStep(w)
    BY <1>1, <1>7
    DEF WorkerStep, Look, BeginNode, Execute, Act, CreateWait, FinishNode, FailNode,
        Checkpoint, Park, FinishWaiting, GiveBack, FinishRun, SaveAnd, GoTo, Done, Failed, ToFinish, Leave
  <1> QED
    BY <1>3, <1>4, <1>5, <1>6, <1>7
    DEF Next, Enqueue, Cancel, Wake, LeaseLapses, ResolveWait, ExpireWaits, AttentionRead, AttentionWrite,
        vars, worker

LEMMA ConsentNext ==
  ASSUME Shape, Custody, Asking, GatedOnlyIfApproved, [Next]_vars
  PROVE  GatedOnlyIfApproved'
  <1> USE DEF Shape
  <1>1. ASSUME NEW r \in Runs, NEW n \in Nodes, Kind[n] = "gated", waits[r][n].last = "approved"
        PROVE  waits'[r][n].last = "approved"
    BY <1>1, WaitShapeNext DEF WaitsKept, Asking, Wait, None
  <1>2. ASSUME NEW r \in Runs, NEW n \in Nodes, n \in acted'[r], Kind[n] = "gated"
        PROVE  n \in acted[r] \/ waits[r][n].last = "approved"
    <2>1. CASE UNCHANGED acted
      BY <1>2, <2>1
    <2>2. ASSUME NEW w \in Workers, Act(w), cur[w] = r, node[w] = n PROVE waits[r][n].last = "approved"
      BY <1>2, <2>2 DEF Act, Here, Consent, Wait
    <2>3. ASSUME NEW w \in Workers, Act(w) PROVE n \in acted[r] \/ waits[r][n].last = "approved"
      BY <1>2, <2>2, <2>3 DEF Act, ActedShape
    <2> QED
      BY <2>1, <2>3
      DEF Next, WorkerStep, Look, BeginNode, Execute, ReadWait, CreateWait, FinishNode, FailNode, Checkpoint,
          Park, FinishWaiting, GiveBack, FinishRun, Claim, Enqueue, Cancel, Wake, LeaseLapses, ResolveWait,
          ExpireWaits, AttentionRead, AttentionWrite, Crash, vars
  <1> QED
    BY <1>1, <1>2 DEF GatedOnlyIfApproved

\* A write that needs consent acts only when an administrator gave it: nothing that
\* happens to the run, its waits or its workers turns a wait that was refused, has
\* expired or was never answered into consent (create_wait(), resolve_wait(),
\* cancel_run(), _mark_uncertain_write()).
THEOREM ConsentIsAsked == Spec => []GatedOnlyIfApproved
  <1> DEFINE Inv == Shape /\ Custody /\ Asking /\ GatedOnlyIfApproved
  <1>1. Init => Inv
    BY ShapeInit DEF Init, Custody, Lapses, Holding, OneExecutor, Asking, GatedOnlyIfApproved
  <1>2. Inv /\ [Next]_vars => Inv'
    BY ShapeNext, CustodyNext, AskingNext, ConsentNext
  <1>3. Inv => GatedOnlyIfApproved
    OBVIOUS
  <1> QED
    BY <1>1, <1>2, <1>3, PTL DEF Spec
=============================================================================
