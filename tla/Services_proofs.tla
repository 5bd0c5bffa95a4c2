---------------------------- MODULE Services_proofs ----------------------------
(***************************************************************************)
(* Theorems about the components that work by themselves: the judging of   *)
(* task plans, the scripts, the data sources and the notifications, for    *)
(* any number of tasks, runs, replies, threads, rows and dispatchers.      *)
(***************************************************************************)
EXTENDS NotificationOutbox, DataSources, Scripts, TaskGraph, FiniteSetTheorems, SequenceTheorems,
        WellFoundedInduction, TLAPS

-----------------------------------------------------------------------------
(* TaskGraph: the verdict on a plan is right for any number of tasks and    *)
(* for any prerequisites a model may write.                                 *)

\* Why the rounds are right: what is done is closed under prerequisites and
\* can be ordered, and a verdict is given only when the rounds are over.
Closed == \A t \in done : plan[t] \subseteq done
Ordered == \A S \in SUBSET done : S # {} => \E t \in S : plan[t] \cap S = {}
RoundsInv ==
  /\ done \subseteq DOMAIN plan
  /\ Closed
  /\ Ordered
  /\ verdict = "accepted" => done = DOMAIN plan
  /\ verdict = "rejected" => done # DOMAIN plan /\ Ready(plan, done) = {}

LEMMA RoundsInit == GraphInit => RoundsInv
  BY DEF GraphInit, RoundsInv, Closed, Ordered

\* A round keeps what is done orderable: among old and new tasks the oldest
\* waits for none of them.
LEMMA RoundOrders ==
  ASSUME RoundsInv, Round
  PROVE  Ordered'
<1> SUFFICES ASSUME NEW S \in SUBSET done', S # {}
             PROVE  \E t \in S : plan'[t] \cap S = {}
  BY DEF Ordered
<1>0. plan' = plan /\ done' = done \cup Ready(plan, done)
  BY DEF Round
<1>1. CASE S \cap done # {}
  <2>1. PICK t \in S \cap done : plan[t] \cap (S \cap done) = {}
    BY <1>1 DEF RoundsInv, Ordered
  <2>2. plan[t] \subseteq done
    BY <2>1 DEF RoundsInv, Closed
  <2> QED BY <2>1, <2>2, <1>0
<1>2. CASE S \cap done = {}
  <2>1. PICK t \in S : t \in Ready(plan, done)
    BY <1>0, <1>2
  <2>2. plan[t] \subseteq done
    BY <2>1 DEF Ready
  <2> QED BY <2>1, <2>2, <1>0, <1>2
<1> QED BY <1>1, <1>2

LEMMA RoundsNext == RoundsInv /\ [GraphNext]_graphVars => RoundsInv'
<1> SUFFICES ASSUME RoundsInv, [GraphNext]_graphVars PROVE RoundsInv'
  OBVIOUS
<1>1. CASE Round
  <2>1. plan' = plan /\ verdict' = "checking" /\ done' = done \cup Ready(plan, done)
    BY <1>1 DEF Round
  <2>2. (done \subseteq DOMAIN plan)'
    BY <2>1 DEF RoundsInv, Ready
  <2>3. Closed'
    BY <2>1 DEF RoundsInv, Closed, Ready
  <2>4. Ordered'
    BY <1>1, RoundOrders
  <2> QED BY <2>1, <2>2, <2>3, <2>4 DEF RoundsInv
<1>2. CASE Reject
  BY <1>2 DEF RoundsInv, Reject, Closed, Ordered, Ready
<1>3. CASE Accept
  BY <1>3 DEF RoundsInv, Accept, Closed, Ordered, Ready
<1>4. CASE UNCHANGED graphVars
  BY <1>4 DEF RoundsInv, graphVars, Closed, Ordered, Ready
<1> QED BY <1>1, <1>2, <1>3, <1>4 DEF GraphNext

\* A rejected plan names an unknown task, or every task left waits for
\* another one that is left.
LEMMA RightWhenOver == RoundsInv => VerdictIsRight
<1> SUFFICES ASSUME RoundsInv PROVE VerdictIsRight
  OBVIOUS
<1>1. ASSUME verdict = "accepted" PROVE Orderable(plan)
  BY <1>1 DEF RoundsInv, Closed, Ordered, Orderable
<1>2. ASSUME verdict = "rejected", Orderable(plan) PROVE FALSE
  <2> DEFINE left == DOMAIN plan \ done
  <2>1. left # {} /\ left \in SUBSET DOMAIN plan
    BY <1>2 DEF RoundsInv
  <2>2. PICK t \in left : plan[t] \cap left = {}
    BY <1>2, <2>1 DEF Orderable
  <2>3. plan[t] \subseteq done
    BY <1>2, <2>2 DEF Orderable
  <2> QED BY <1>2, <2>2, <2>3 DEF RoundsInv, Ready
<1> QED BY <1>1, <1>2 DEF VerdictIsRight

\* No plan is accepted that could not be carried out and none is refused that
\* could (_validate_tasks()).
THEOREM PlansAreJudgedRightly == GraphSpec => []VerdictIsRight
<1>1. GraphSpec => []RoundsInv
  BY RoundsInit, RoundsNext, PTL DEF GraphSpec
<1> QED BY <1>1, RightWhenOver, PTL

-----------------------------------------------------------------------------
(* DataSources, for any number of threads and reloads and any size of the   *)
(* pool.                                                                    *)

Pools == pools \in [Versions -> Seq(Connections)]
CallsTyped ==
  call \in [Calls -> [at : {"idle", "checked", "borrow", "run", "return", "store"}, kind : Kinds,
                      seen : Versions, pool : Versions, conn : Connections, ok : BOOLEAN]]
SourcesTyped == config \in Versions /\ Pools /\ CallsTyped

\* What lies in a pool is rolled back, or dead: then the ping that every borrower
\* makes finds it out.
IdleIsClean == \A v \in Versions : \A i \in 1 .. Len(pools[v]) : pools[v][i].dead \/ ~pools[v][i].txn
Clean == IdleIsClean /\ BorrowedIsClean

LEMMA SourcesInit == SourceInit => SourcesTyped /\ Clean
  <1> SUFFICES ASSUME SourceInit PROVE SourcesTyped /\ Clean
    OBVIOUS
  <1>1. SourcesTyped
    BY SourceAssumption DEF SourceInit, SourcesTyped, Pools, CallsTyped, Idle, Fresh, Kinds, Connections, Versions
  <1>2. Clean
    BY DEF SourceInit, Clean, IdleIsClean, BorrowedIsClean, Idle
  <1> QED
    BY <1>1, <1>2

LEMMA SourcesNext ==
  ASSUME SourcesTyped, Clean, [SourceNext]_dsVars
  PROVE  SourcesTyped' /\ Clean'
  <1> USE DEF SourcesTyped, Pools, CallsTyped, Clean, IdleIsClean, BorrowedIsClean
  <1>0. Idle \in [at : {"idle", "checked", "borrow", "run", "return", "store"}, kind : Kinds,
                  seen : Versions, pool : Versions, conn : Connections, ok : BOOLEAN] /\ Idle.at = "idle"
        /\ Fresh \in Connections /\ Fresh.txn = FALSE
    BY SourceAssumption DEF Idle, Fresh, Kinds, Connections, Versions
  <1>1. CASE Reload
    BY <1>1, SourceAssumption DEF Reload, Versions
  <1>2. ASSUME NEW v \in Versions, Drain(v) PROVE SourcesTyped' /\ Clean'
    BY <1>2 DEF Drain
  <1>3. ASSUME NEW c \in Calls, NEW k \in Kinds, Check(c, k) PROVE SourcesTyped' /\ Clean'
    BY <1>0, <1>3 DEF Check, Idle
  <1>4. ASSUME NEW c \in Calls, GetPool(c) PROVE SourcesTyped' /\ Clean'
    BY <1>4 DEF GetPool
  <1>5. ASSUME NEW c \in Calls, Borrow(c) PROVE SourcesTyped' /\ Clean'
    <2> DEFINE v == call[c].pool
               p == pools[v]
    <2>1. v \in Versions /\ p \in Seq(Connections)
      OBVIOUS
    <2>2. /\ \A w \in Versions \ {v} : pools'[w] = pools[w]
          /\ pools'[v] = IF p = <<>> THEN p ELSE SubSeq(p, 1, Len(p) - 1)
          /\ pools' = [pools EXCEPT ![v] = pools'[v]]
      BY <1>5, <2>1 DEF Borrow
    <2>3. /\ pools'[v] \in Seq(Connections)
          /\ \A i \in 1 .. Len(pools'[v]) : i \in 1 .. Len(p) /\ pools'[v][i] = p[i]
      <3>1. CASE p = <<>>
        BY <2>2, <3>1
      <3>2. CASE p # <<>>
        BY <2>1, <2>2, <3>2
      <3> QED
        BY <3>1, <3>2
    <2>4. p # <<>> => Len(p) \in 1 .. Len(p) /\ p[Len(p)] \in Connections
      BY <2>1
    <2>5. Pools' /\ IdleIsClean'
      <3>1. Pools'
        BY <2>1, <2>2, <2>3
      <3>2. ASSUME NEW w \in Versions, NEW i \in 1 .. Len(pools'[w])
            PROVE  pools'[w][i].dead \/ ~pools'[w][i].txn
        BY <2>1, <2>2, <2>3, <3>2
      <3> QED
        BY <3>1, <3>2
    <2>6. CallsTyped' /\ BorrowedIsClean'
      <3>1. ASSUME NEW x \in Connections, ~x.txn, call' = [call EXCEPT ![c].at = "run", ![c].conn = x]
            PROVE  CallsTyped' /\ BorrowedIsClean'
        BY <3>1
      <3>2. CASE call' = [call EXCEPT ![c] = Idle]
        BY <1>0, <3>2
      <3> QED
        BY <1>0, <1>5, <2>1, <2>4, <3>1, <3>2 DEF Borrow
    <2> QED
      BY <1>5, <2>5, <2>6 DEF Borrow
  <1>6. ASSUME NEW c \in Calls, Run(c) PROVE SourcesTyped' /\ Clean'
    <2>1. PICK ok \in BOOLEAN, dies \in BOOLEAN :
            call' = [call EXCEPT ![c].at = "return", ![c].ok = ok /\ ~dies,
                            ![c].conn = [txn |-> call[c].kind # "write" \/ @.txn, dead |-> dies]]
      BY <1>6 DEF Run
    <2> DEFINE x == [txn |-> call[c].kind # "write" \/ call[c].conn.txn, dead |-> dies]
               y == ok /\ ~dies
               kept == [call[c] EXCEPT !.at = "return", !.ok = y, !.conn = x]
    <2>2. x \in Connections /\ y \in BOOLEAN
      BY DEF Connections
    <2>3. call' = [call EXCEPT ![c] = kept]
      BY <2>1
    <2> HIDE DEF x, y
    <2>4. kept \in [at : {"idle", "checked", "borrow", "run", "return", "store"}, kind : Kinds,
                   seen : Versions, pool : Versions, conn : Connections, ok : BOOLEAN] /\ kept.at = "return"
      BY <2>2
    <2> HIDE DEF kept
    <2> QED
      BY <1>6, <2>3, <2>4 DEF Run
  <1>7. ASSUME NEW c \in Calls, Return(c) PROVE SourcesTyped' /\ Clean'
    <2> DEFINE v == call[c].pool
               p == pools[v]
               x == RolledBack(call[c].conn)
    <2>1. v \in Versions /\ p \in Seq(Connections) /\ x \in Connections /\ (x.dead \/ ~x.txn)
      BY DEF RolledBack, Connections
    <2>2. pools' = [pools EXCEPT ![v] = Append(p, x)] \/ UNCHANGED pools
      BY <1>7 DEF Return
    <2> HIDE DEF x
    <2>3. /\ Append(p, x) \in Seq(Connections)
          /\ \A i \in 1 .. Len(Append(p, x)) : Append(p, x)[i] = x \/ (i \in 1 .. Len(p) /\ Append(p, x)[i] = p[i])
      BY <2>1
    <2>4. Pools' /\ IdleIsClean'
      <3>1. CASE UNCHANGED pools
        BY <3>1
      <3>2. CASE pools' = [pools EXCEPT ![v] = Append(p, x)]
        <4>1. pools'[v] = Append(p, x) /\ \A w \in Versions \ {v} : pools'[w] = pools[w]
          BY <2>1, <3>2
        <4>2. Pools'
          BY <2>1, <2>3, <3>2
        <4>3. ASSUME NEW w \in Versions, NEW i \in 1 .. Len(pools'[w])
              PROVE  pools'[w][i].dead \/ ~pools'[w][i].txn
          <5>1. CASE w = v
            <6>1. i \in 1 .. Len(Append(p, x)) /\ pools'[w][i] = Append(p, x)[i]
              BY <4>1, <4>3, <5>1
            <6>2. CASE i \in 1 .. Len(p) /\ Append(p, x)[i] = p[i]
              BY <2>1, <6>1, <6>2
            <6> QED
              BY <2>1, <2>3, <6>1, <6>2
          <5>2. CASE w # v
            BY <4>1, <4>3, <5>2
          <5> QED
            BY <5>1, <5>2
        <4> QED
          BY <4>2, <4>3
      <3> QED
        BY <2>2, <3>1, <3>2
    <2>5. CallsTyped' /\ BorrowedIsClean'
      BY <1>0, <1>7 DEF Return, Idle
    <2> QED
      BY <1>7, <2>4, <2>5 DEF Return
  <1>8. ASSUME NEW c \in Calls, Store(c) PROVE SourcesTyped' /\ Clean'
    BY <1>0, <1>8 DEF Store
  <1>9. CASE UNCHANGED <<config, pools, call>>
    BY <1>9
  <1> QED
    BY <1>1, <1>2, <1>3, <1>4, <1>5, <1>6, <1>7, <1>8, <1>9 DEF SourceNext, Forget, dsVars

\* Whatever runs side by side and however connections die, nobody borrows a
\* connection in which another's transaction is still open (ConnectionPool.put(),
\* get()).
THEOREM ConnectionsAreClean == SourceSpec => []BorrowedIsClean
  <1>1. Clean => BorrowedIsClean
    BY DEF Clean
  <1> QED
    BY <1>1, SourcesInit, SourcesNext, PTL DEF SourceSpec

-----------------------------------------------------------------------------
(* Scripts, for any number of runs, replies, crashes and refused writes.    *)

ReplyRows == [at : {"idle", "submit", "look", "settle", "giveback"}, to : Runs \cup {0}, heir : Runs \cup {0}]
ScriptsTyped ==
  /\ at \in [Runs -> Living \cup {"none", "over", "lost"}]
  /\ link \in [Runs -> {"none", "pending", "started", "resumed", "cancelled"}]
  /\ heirs \in [Runs -> SUBSET Runs] /\ reply \in [Replies -> ReplyRows]

LEMMA ScriptsTypedNext ==
  ASSUME ScriptsTyped, [ScriptNext]_scriptVars
  PROVE  ScriptsTyped'
  <1> USE DEF ScriptsTyped
  <1>1. NoReply \in ReplyRows
    BY DEF NoReply, ReplyRows
  <1>2. ASSUME NEW r \in Runs, NEW place \in Living \cup {"none", "over", "lost"},
               at' = [at EXCEPT ![r] = place], UNCHANGED challenge
        PROVE  ScriptsTyped'
    BY <1>2 DEF challenge
  <1>3. ASSUME NEW r \in Runs, Submitted(r) PROVE at' \in [Runs -> Living \cup {"none", "over", "lost"}]
    BY <1>3 DEF Submitted, Living
  <1>4. ASSUME NEW r \in Runs, Verify(r) \/ StartRefused(r) \/ Spawn(r) \/ Release(r) \/ Record(r) PROVE ScriptsTyped'
    BY <1>2, <1>4 DEF Verify, StartRefused, Spawn, Release, Record, Ended, Living
  <1>5. ASSUME NEW r \in Runs, ChildEnds(r) PROVE ScriptsTyped'
    BY <1>5 DEF ChildEnds, Living
  <1>6. ASSUME NEW r \in Runs, CancelInput(r) PROVE ScriptsTyped'
    BY <1>6 DEF CancelInput
  <1>7. CASE Restart
    BY <1>1, <1>7 DEF Restart
  <1>8. ASSUME NEW p \in Replies, NEW x \in ReplyRows, SetReply(p, x) PROVE reply' \in [Replies -> ReplyRows]
    BY <1>8 DEF SetReply
  <1>9. ASSUME NEW p \in Replies, NEW r \in Runs, Begin(p, r) PROVE ScriptsTyped'
    <2>1. [NoReply EXCEPT !.at = "submit", !.to = r] \in ReplyRows
      BY <1>1 DEF ReplyRows
    <2> QED
      BY <1>8, <1>9, <2>1 DEF Begin
  <1>10. ASSUME NEW p \in Replies, Continue(p) PROVE ScriptsTyped'
    <2>1. /\ [reply[p] EXCEPT !.at = "giveback"] \in ReplyRows
          /\ \A r \in Runs : [reply[p] EXCEPT !.at = "look", !.heir = r] \in ReplyRows
      BY DEF ReplyRows
    <2>2. reply' \in [Replies -> ReplyRows]
      <3> DEFINE Dropped == SetReply(p, [reply[p] EXCEPT !.at = "giveback"]) \/ SetReply(p, NoReply)
                 Started == \E r \in Runs : SetReply(p, [reply[p] EXCEPT !.at = "look", !.heir = r])
      <3>1. Dropped \/ Started
        BY <1>10 DEF Continue
      <3>2. CASE Dropped
        BY <1>1, <1>8, <2>1, <3>2
      <3>3. CASE Started
        <4> PICK r \in Runs : SetReply(p, [reply[p] EXCEPT !.at = "look", !.heir = r])
          BY <3>3
        <4> DEFINE x == [reply[p] EXCEPT !.at = "look", !.heir = r]
        <4>1. x \in ReplyRows /\ SetReply(p, x)
          BY <2>1
        <4> HIDE DEF x
        <4> QED
          BY <1>8, <4>1
      <3> HIDE DEF Dropped, Started
      <3> QED
        BY <3>1, <3>2, <3>3
    <2>3. UNCHANGED heirs \/ \E r \in Runs : heirs' = [heirs EXCEPT ![reply[p].to] = @ \cup {r}]
      BY <1>10 DEF Continue
    <2>4. heirs' \in [Runs -> SUBSET Runs]
      BY <2>3
    <2>5. at' \in [Runs -> Living \cup {"none", "over", "lost"}] /\ UNCHANGED link
      <3>1. (UNCHANGED at \/ \E r \in Runs : Submitted(r)) /\ UNCHANGED link
        BY <1>10 DEF Continue
      <3> QED
        BY <1>3, <3>1
    <2> QED
      BY <2>2, <2>4, <2>5
  <1>11. ASSUME NEW p \in Replies, ReplyRaises(p) \/ GiveBack(p) \/ Settle(p) PROVE ScriptsTyped'
    BY <1>1, <1>8, <1>11 DEF ReplyRaises, GiveBack, Settle
  <1>13. ASSUME NEW p \in Replies, ReadStatus(p) PROVE ScriptsTyped'
    <2>1. \A place \in {"settle", "giveback"} : [reply[p] EXCEPT !.at = place] \in ReplyRows
      BY DEF ReplyRows
    <2>2. PICK place \in {"settle", "giveback"} : SetReply(p, [reply[p] EXCEPT !.at = place])
      BY <1>13 DEF ReadStatus
    <2>3. reply' \in [Replies -> ReplyRows]
      BY <2>1, <2>2 DEF SetReply
    <2>4. heirs' \in [Runs -> SUBSET Runs] /\ UNCHANGED <<at, link>>
      BY <1>13 DEF ReadStatus
    <2> QED
      BY <2>3, <2>4
  <1>12. CASE UNCHANGED <<at, challenge>>
    BY <1>12 DEF challenge
  <1> QED
    BY <1>3, <1>4, <1>5, <1>6, <1>7, <1>9, <1>10, <1>11, <1>12, <1>13
    DEF ScriptNext, RunStep, Submit, CancelRun, Shutdown, EditFile, scriptVars, challenge

-----------------------------------------------------------------------------
(* The key.  Who may start a child holds the key, and only its holder gives *)
(* it back.                                                                 *)

KeyHolders == \A r \in Runs : at[r] \in {"queued", "verified", "process", "ended"} => holder = r

LEMMA KeyHoldersNext ==
  ASSUME ScriptsTyped, KeyHolders, [ScriptNext]_scriptVars
  PROVE  KeyHolders'
  <1> USE DEF ScriptsTyped, KeyHolders
  <1>1. ASSUME NEW r \in Runs, Submitted(r) PROVE KeyHolders'
    BY <1>1, ScriptAssumption DEF Submitted, NextRun
  <1>2. ASSUME NEW r \in Runs, Verify(r) \/ StartRefused(r) \/ Spawn(r) \/ ChildEnds(r) PROVE KeyHolders'
    BY <1>2 DEF Verify, StartRefused, Spawn, ChildEnds, Ended
  <1>3. ASSUME NEW r \in Runs, Release(r) PROVE KeyHolders'
    BY <1>3 DEF Release
  <1>4. ASSUME NEW r \in Runs, Record(r) PROVE KeyHolders'
    BY <1>4 DEF Record
  <1>5. CASE Restart
    BY <1>5 DEF Restart
  <1>6. CASE UNCHANGED <<at, holder>>
    BY <1>6
  <1> QED
    BY <1>1, <1>2, <1>3, <1>4, <1>5, <1>6
    DEF ScriptNext, RunStep, Submit, Continue, CancelRun, CancelInput, Kept, Shutdown, EditFile, Begin,
        ReadStatus, ReplyRaises, GiveBack, Settle, scriptVars

-----------------------------------------------------------------------------
(* The input.  A challenge can be answered as long as nothing was started   *)
(* for it that is not over, and one reply at a time has it in hand.         *)

Unasked == \A r \in Runs : at[r] \in {"none", "queued", "verified", "process"} => link[r] = "none"
Unused == \A r \in Runs : link[r] \in {"none", "pending"} => heirs[r] = {}
ReplyInHand ==
  \A p \in Replies : reply[p].at # "idle" =>
    /\ reply[p].to \in Runs /\ link[reply[p].to] = "started"
    /\ reply[p].at \in {"submit", "giveback"} => heirs[reply[p].to] = {}
    /\ reply[p].at = "look" => heirs[reply[p].to] \subseteq {reply[p].heir}
    /\ \A q \in Replies : reply[q].at # "idle" /\ reply[q].to = reply[p].to => p = q
UsedOnce == \A r \in Runs : heirs[r] = {} \/ \E h \in Runs : heirs[r] = {h}
Answers == Unasked /\ Unused /\ ReplyInHand /\ UsedOnce

LEMMA AnswersNext ==
  ASSUME ScriptsTyped, Answers, [ScriptNext]_scriptVars
  PROVE  Answers'
  <1> USE DEF ScriptsTyped, Answers
  <1>1. ASSUME NEW r \in Runs, Submitted(r) PROVE at' = [at EXCEPT ![r] = at'[r]] /\ at[r] = "none"
    BY <1>1 DEF Submitted, NextRun
  <1>2. ASSUME UNCHANGED challenge, \A r \in Runs : at'[r] \in {"none", "queued", "verified", "process"} =>
                                      at[r] \in {"none", "queued", "verified", "process"}
        PROVE  Answers'
    BY <1>2 DEF Unasked, Unused, ReplyInHand, UsedOnce, challenge
  <1>3. ASSUME NEW r \in Runs, Submit(r) PROVE Answers'
    BY <1>1, <1>2, <1>3 DEF Submit
  <1>4. ASSUME NEW r \in Runs, Verify(r) \/ StartRefused(r) \/ Spawn(r) \/ Release(r) \/ Record(r) PROVE Answers'
    BY <1>2, <1>4 DEF Verify, StartRefused, Spawn, Release, Record, Ended
  <1>5. ASSUME NEW r \in Runs, ChildEnds(r) PROVE Answers'
    <2>1. link[r] = "none" /\ heirs[r] = {}
      BY <1>5 DEF ChildEnds, Unasked, Unused
    <2>2. /\ at' = [at EXCEPT ![r] = "ended"] /\ UNCHANGED <<heirs, reply>>
          /\ link' = link \/ link' = [link EXCEPT ![r] = "pending"]
      BY <1>5 DEF ChildEnds
    <2> QED
      BY <2>1, <2>2 DEF Unasked, Unused, ReplyInHand, UsedOnce
  <1>6. ASSUME NEW r \in Runs, CancelInput(r) PROVE Answers'
    BY <1>6 DEF CancelInput, Unasked, Unused, ReplyInHand, UsedOnce
  <1>7. CASE Restart
    BY <1>7 DEF Restart, NoReply, Unasked, Unused, ReplyInHand, UsedOnce
  <1>8. ASSUME NEW p \in Replies, NEW r \in Runs, Begin(p, r) PROVE Answers'
    BY <1>8 DEF Begin, Answerable, SetReply, NoReply, Unasked, Unused, ReplyInHand, UsedOnce
  <1>9. ASSUME NEW p \in Replies, Continue(p) PROVE Answers'
    <2> DEFINE c == reply[p].to
    <2>1. c \in Runs /\ link[c] = "started" /\ heirs[c] = {}
      BY <1>9 DEF Continue, ReplyInHand
    <2>2. UNCHANGED link /\ \A r \in Runs : at'[r] \in {"none", "queued", "verified", "process"} =>
                              at[r] \in {"none", "queued", "verified", "process"}
      BY <1>1, <1>9 DEF Continue
    <2>3. CASE UNCHANGED heirs /\ (SetReply(p, [reply[p] EXCEPT !.at = "giveback"]) \/ SetReply(p, NoReply))
      <3>1. reply[p].at = "submit" /\ \A q \in Replies \ {p} : reply'[q] = reply[q]
        BY <1>9, <2>3 DEF Continue, SetReply
      <3>2. reply'[p].at = "idle" \/ (reply'[p].at = "giveback" /\ reply'[p].to = c)
        BY <2>3 DEF SetReply, NoReply, ReplyRows
      <3>3. Unasked' /\ Unused'
        BY <2>2, <2>3 DEF Unasked, Unused
      <3>4. ReplyInHand'
        BY <2>1, <2>2, <2>3, <3>1, <3>2 DEF ReplyInHand
      <3>5. UsedOnce'
        BY <2>3 DEF UsedOnce
      <3> QED
        BY <3>3, <3>4, <3>5
    <2>4. ASSUME NEW r \in Runs, SetReply(p, [reply[p] EXCEPT !.at = "look", !.heir = r]),
                 heirs' = [heirs EXCEPT ![c] = @ \cup {r}]
          PROVE  Answers'
      <3>1. /\ reply'[p].at = "look" /\ reply'[p].to = c /\ reply'[p].heir = r
            /\ \A q \in Replies \ {p} : reply'[q] = reply[q]
        BY <2>4 DEF SetReply, ReplyRows
      <3>2. heirs'[c] = {r} /\ \A x \in Runs \ {c} : heirs'[x] = heirs[x]
        BY <2>1, <2>4
      <3>3. reply[p].at = "submit"
        BY <1>9 DEF Continue
      <3>4. Unasked' /\ Unused'
        BY <2>1, <2>2, <3>2 DEF Unasked, Unused
      <3>5. ReplyInHand'
        BY <2>1, <2>2, <3>1, <3>2, <3>3 DEF ReplyInHand
      <3>6. UsedOnce'
        BY <3>2 DEF UsedOnce
      <3> QED
        BY <3>4, <3>5, <3>6
    <2> QED
      BY <1>9, <2>3, <2>4 DEF Continue
  <1>10. ASSUME NEW p \in Replies, GiveBack(p) \/ Settle(p) PROVE Answers'
    <2> DEFINE c == reply[p].to
    <2>1. /\ c \in Runs /\ link[c] = "started" /\ reply[p].at \in {"giveback", "settle"}
          /\ reply[p].at = "giveback" => heirs[c] = {}
      BY <1>10 DEF GiveBack, Settle, ReplyInHand
    <2>2. /\ reply' = [reply EXCEPT ![p] = NoReply] /\ UNCHANGED <<at, heirs>>
          /\ \/ reply[p].at = "giveback" /\ link' = [link EXCEPT ![c] = "pending"]
             \/ link' = [link EXCEPT ![c] = "resumed"]
      BY <1>10 DEF GiveBack, Settle, SetReply
    <2>3. reply'[p].at = "idle" /\ \A q \in Replies \ {p} : reply'[q] = reply[q]
      BY <2>2 DEF NoReply
    <2>4. Unasked'
      BY <2>1, <2>2 DEF Unasked
    <2>5. Unused'
      BY <2>1, <2>2 DEF Unused
    <2>6. ReplyInHand'
      BY <2>1, <2>2, <2>3 DEF ReplyInHand
    <2>7. UsedOnce'
      BY <2>2 DEF UsedOnce
    <2> QED
      BY <2>4, <2>5, <2>6, <2>7
  <1>11. CASE UNCHANGED <<at, challenge>>
    BY <1>2, <1>11
  <1>12. ASSUME NEW p \in Replies, ReadStatus(p) PROVE Answers'
    <2> DEFINE c == reply[p].to
    <2>1. /\ c \in Runs /\ link[c] = "started" /\ reply[p].at = "look" /\ heirs[c] \subseteq {reply[p].heir}
          /\ UNCHANGED <<at, link>>
      BY <1>12 DEF ReadStatus, ReplyInHand
    <2>2. /\ reply'[p].to = c /\ \A q \in Replies \ {p} : reply'[q] = reply[q]
          /\ \/ reply'[p].at = "settle" /\ UNCHANGED heirs
             \/ reply'[p].at = "giveback" /\ heirs' = [heirs EXCEPT ![c] = @ \ {reply[p].heir}]
      BY <1>12 DEF ReadStatus, SetReply, ReplyRows
    <2>3. \/ UNCHANGED heirs /\ reply'[p].at = "settle"
          \/ heirs'[c] = {} /\ \A x \in Runs \ {c} : heirs'[x] = heirs[x]
      BY <2>1, <2>2
    <2>4. Unasked' /\ Unused'
      BY <2>1, <2>3 DEF Unasked, Unused
    <2>5. ReplyInHand'
      BY <2>1, <2>2, <2>3 DEF ReplyInHand
    <2>6. UsedOnce'
      BY <2>3 DEF UsedOnce
    <2> QED
      BY <2>4, <2>5, <2>6
  <1>13. ASSUME NEW p \in Replies, ReplyRaises(p) PROVE Answers'
    <2>1. reply'[p].at = "idle" /\ (\A q \in Replies \ {p} : reply'[q] = reply[q]) /\ UNCHANGED <<at, link, heirs>>
      BY <1>13 DEF ReplyRaises, SetReply, NoReply
    <2> QED
      BY <2>1 DEF Unasked, Unused, ReplyInHand, UsedOnce
  <1> QED
    BY <1>3, <1>4, <1>5, <1>6, <1>7, <1>8, <1>9, <1>10, <1>11, <1>12, <1>13
    DEF ScriptNext, RunStep, CancelRun, Shutdown, EditFile, scriptVars, challenge

\* The runs of a key do not overlap, and a challenge is answered again only after the
\* reply saw the run it had started end, whatever is refused, given back, cancelled or
\* lost in a crash in between (submit(), _execute(), resume_pending_input()).
THEOREM ScriptsRunAlone == ScriptSpec => []RunsAreExclusive
  <1> DEFINE Inv == ScriptsTyped /\ KeyHolders /\ Answers
  <1>1. ScriptInit => Inv
    BY DEF ScriptInit, ScriptsTyped, ReplyRows, KeyHolders, Answers, Unasked, Unused, ReplyInHand, UsedOnce, NoReply, Living
  <1>2. Inv /\ [ScriptNext]_scriptVars => Inv'
    BY ScriptsTypedNext, KeyHoldersNext, AnswersNext
  <1>3. Inv => RunsAreExclusive
    <2> SUFFICES ASSUME Inv PROVE KeyIsExclusive /\ AnsweredInTurn
      BY DEF RunsAreExclusive
    <2>1. KeyIsExclusive
      BY DEF KeyIsExclusive, KeyHolders
    <2>2. \A r \in Runs : Cardinality(heirs[r]) <= 1
      <3> TAKE r \in Runs
      <3>1. CASE heirs[r] = {}
        BY <3>1, FS_EmptySet
      <3>2. ASSUME NEW h \in Runs, heirs[r] = {h} PROVE Cardinality(heirs[r]) <= 1
        <4>1. Cardinality({h}) = 1
          BY FS_Singleton
        <4> QED
          BY <3>2, <4>1
      <3> QED
        BY <3>1, <3>2 DEF Answers, UsedOnce
    <2> QED
      BY <2>1, <2>2 DEF AnsweredInTurn, Answers, Unused
  <1> QED
    BY <1>1, <1>2, <1>3, PTL DEF ScriptSpec

-----------------------------------------------------------------------------
(* NotificationOutbox: what a recipient is sent, for any number of rows,    *)
(* tenants and dispatchers.                                                 *)

\* A set of numbers with an element has a least one.
LEMMA LeastNumber ==
  ASSUME NEW T, T \subseteq Nat, T # {}
  PROVE  \E x \in T : \A y \in T : x <= y
  <1>1. IsWellFoundedOn(OpToRel(<, Nat), Nat)
    BY NatLessThanWellFounded
  <1>2. PICK x \in T : \A y \in T : ~(<<y, x>> \in OpToRel(<, Nat))
    BY <1>1, WFMin
  <1>3. \A y \in T : ~(y < x)
    BY <1>2 DEF OpToRel
  <1> QED
    BY <1>3

Below(S, x) == {q \in S : q < x}

\* A finite set of numbers has one of each rank (by a least rank that is missing).
LEMMA EveryRank ==
  ASSUME NEW S, S \subseteq Nat, IsFiniteSet(S), NEW n \in Nat, n < Cardinality(S)
  PROVE  \E x \in S : Cardinality(Below(S, x)) = n
  <1> DEFINE Missing == {k \in Nat : k < Cardinality(S) /\ ~ \E x \in S : Cardinality(Below(S, x)) = k}
  <1> SUFFICES ASSUME Missing # {} PROVE FALSE
    OBVIOUS
  <1>1. PICK k \in Missing : \A j \in Missing : k <= j
    BY LeastNumber
  <1>2. Cardinality(S) \in Nat /\ k \in Nat /\ k < Cardinality(S)
    BY FS_CardinalityType
  <1>3. \A x \in S : Cardinality(Below(S, x)) # k
    OBVIOUS
  <1>4. ASSUME NEW T, T \subseteq S, T # {}, \A x \in T : Below(S, x) \cap T = {} => Below(S, x) = S \ T,
               Cardinality(S \ T) = k
        PROVE  FALSE
    <2>1. PICK x \in T : \A y \in T : x <= y
      BY <1>4, LeastNumber
    <2>2. Below(S, x) \cap T = {}
      <3> SUFFICES ASSUME NEW y \in T, y < x PROVE FALSE
        BY DEF Below
      <3>1. x <= y /\ x \in Nat /\ y \in Nat
        BY <1>4, <2>1
      <3> QED
        BY <3>1
    <2>3. x \in S /\ Below(S, x) = S \ T
      BY <1>4, <2>2
    <2> QED
      BY <1>3, <1>4, <2>3
  <1>5. CASE k = 0
    <2>1. S # {}
      BY <1>2, FS_EmptySet
    <2>2. Cardinality(S \ S) = 0
      BY FS_EmptySet
    <2>3. \A x \in S : Below(S, x) \cap S = {} => Below(S, x) = S \ S
      BY DEF Below
    <2> QED
      BY <1>4, <1>5, <2>1, <2>2, <2>3
  <1>6. CASE k # 0
    <2>1. k - 1 \in Nat /\ k - 1 < Cardinality(S) /\ k - 1 \notin Missing
      BY <1>1, <1>2, <1>6
    <2>2. PICK x \in S : Cardinality(Below(S, x)) = k - 1
      BY <2>1
    <2> DEFINE T == {y \in S : x < y}
    <2>3. S \ T = Below(S, x) \cup {x} /\ x \notin Below(S, x) /\ Below(S, x) \in SUBSET S
      <3>1. \A y \in S : y \in S \ T <=> y < x \/ y = x
        OBVIOUS
      <3>2. ~(x < x)
        OBVIOUS
      <3> HIDE DEF T
      <3> QED
        BY <3>1, <3>2 DEF Below, T
    <2>4. IsFiniteSet(Below(S, x))
      BY <2>3, FS_Subset
    <2>5. Cardinality(S \ T) = k - 1 + 1
      <3>1. Cardinality(Below(S, x) \cup {x}) =
              IF x \in Below(S, x) THEN Cardinality(Below(S, x)) ELSE Cardinality(Below(S, x)) + 1
        BY <2>4, FS_AddElement
      <3> QED
        BY <2>2, <2>3, <3>1
    <2>6. Cardinality(S \ T) = k
      BY <1>2, <2>5
    <2>7. T # {}
      <3>1. S \ T # S
        BY <1>2, <2>6
      <3> QED
        BY <3>1
    <2>8. \A y \in T : Below(S, y) \cap T = {} => Below(S, y) = S \ T
      <3> SUFFICES ASSUME NEW y \in T, \A z \in T : ~(z < y) PROVE \A z \in S : z < y <=> z \notin T
        BY DEF Below
      <3>1. x \in Nat /\ y \in Nat /\ x < y
        OBVIOUS
      <3> SUFFICES ASSUME NEW z \in S PROVE z < y <=> z \notin T
        OBVIOUS
      <3>2. z \in Nat /\ (z \in T <=> x < z)
        OBVIOUS
      <3>3. z \in T => ~(z < y)
        OBVIOUS
      <3> HIDE DEF T
      <3> QED
        BY <3>1, <3>2, <3>3
    <2> HIDE DEF T
    <2>9. T \subseteq S
      BY DEF T
    <2> QED
      BY <1>4, <2>6, <2>7, <2>8, <2>9
  <1> QED
    BY <1>5, <1>6

\* The first rows of a set are rows of it, and none is there twice.
LEMMA FirstOfFacts ==
  ASSUME NEW S, S \subseteq Nat, IsFiniteSet(S), NEW n \in Nat \ {0}
  PROVE  /\ FirstOf(S, n) \in Seq(S)
         /\ \A i, j \in 1 .. Len(FirstOf(S, n)) : FirstOf(S, n)[i] = FirstOf(S, n)[j] => i = j
  <1> DEFINE k == IF Cardinality(S) < n THEN Cardinality(S) ELSE n
             Nth(i) == CHOOSE r \in S : Cardinality({q \in S : q < r}) = i - 1
  <1>1. k \in Nat /\ k <= Cardinality(S) /\ Cardinality(S) \in Nat
    BY FS_CardinalityType
  <1> HIDE DEF k
  <1>2. ASSUME NEW i \in 1 .. k
        PROVE  Nth(i) \in S /\ Cardinality({q \in S : q < Nth(i)}) = i - 1
    <2>1. i - 1 \in Nat /\ i - 1 < Cardinality(S)
      BY <1>1
    <2>2. \E r \in S : Cardinality({q \in S : q < r}) = i - 1
      BY <2>1, EveryRank DEF Below
    <2> QED
      BY <2>2
  <1> HIDE DEF Nth
  <1>3. FirstOf(S, n) = [i \in 1 .. k |-> Nth(i)]
    BY DEF FirstOf, k, Nth
  <1>4. FirstOf(S, n) \in Seq(S) /\ Len(FirstOf(S, n)) = k
    <2>1. FirstOf(S, n) \in [1 .. k -> S]
      BY <1>2, <1>3
    <2>2. \A f \in [1 .. k -> S] : f \in Seq(S) /\ Len(f) = k
      BY <1>1
    <2> QED
      BY <2>1, <2>2
  <1>5. \A i, j \in 1 .. k : Nth(i) = Nth(j) => i = j
    <2> SUFFICES ASSUME NEW i \in 1 .. k, NEW j \in 1 .. k, Nth(i) = Nth(j) PROVE i = j
      OBVIOUS
    <2>1. i - 1 = j - 1
      BY <1>2
    <2> QED
      BY <2>1
  <1>6. \A i \in 1 .. k : FirstOf(S, n)[i] = Nth(i)
    BY <1>3
  <1> QED
    BY <1>4, <1>5, <1>6

\* The head of a batch and what comes after it.
LEMMA BatchFacts ==
  ASSUME NEW S, NEW s \in Seq(S), s # <<>>
  PROVE  /\ Len(s) \in Nat \ {0} /\ Head(s) = s[1] /\ Head(s) \in S
         /\ Tail(s) \in Seq(S) /\ Len(Tail(s)) = Len(s) - 1
         /\ \A i \in 1 .. Len(Tail(s)) : Tail(s)[i] = s[i + 1]
         /\ Len(s) > 1 => Tail(s) # <<>>
  <1>1. Len(s) \in Nat \ {0}
    BY EmptySeq
  <1>2. /\ Head(s) \in S /\ Tail(s) \in Seq(S) /\ Len(Tail(s)) = Len(s) - 1
        /\ \A i \in 1 .. Len(Tail(s)) : Tail(s)[i] = s[i + 1]
    BY HeadTailProperties
  <1>3. Head(s) = s[1]
    OBVIOUS
  <1>4. Len(Tail(s)) = 0 <=> Tail(s) = <<>>
    <2>1. Len(<<>>) = 0
      BY EmptySeq
    <2>2. Tail(s) # <<>> => Len(Tail(s)) \in Nat \ {0}
      BY <1>2, EmptySeq
    <2> QED
      BY <2>1, <2>2
  <1> QED
    BY <1>1, <1>2, <1>3, <1>4

OutboxRows == [status : Statuses, attempts : 0 .. MaxAttempts, lease : {"none", "live", "lapsed"}]
Holds(d, r) == \E i \in 1 .. Len(batch[d]) : batch[d][i] = r
Distinct == \A d \in Dispatchers : \A i, j \in 1 .. Len(batch[d]) : batch[d][i] = batch[d][j] => i = j
OutboxTyped ==
  /\ row \in [Rows -> OutboxRows]
  /\ pc \in [Dispatchers -> {"idle", "pick", "send", "stale"} \cup Outcomes]
  /\ batch \in [Dispatchers -> Seq(Rows)] /\ Distinct
  /\ \A d \in Dispatchers : pc[d] # "idle" => batch[d] # <<>>
  /\ delivered \in [Rows -> 0 .. 2] /\ waited \subseteq Rows /\ lapsed \subseteq Rows

\* What goes on with a row: what a dispatcher at it may rely on.
LEMMA AtHead ==
  ASSUME OutboxTyped, NEW d \in Dispatchers, pc[d] # "idle"
  PROVE  /\ Head(batch[d]) \in Rows /\ Holds(d, Head(batch[d]))
         /\ batch[d] \in Seq(Rows) /\ batch[d] # <<>>
  <1>1. batch[d] \in Seq(Rows) /\ batch[d] # <<>>
    BY DEF OutboxTyped
  <1>2. Len(batch[d]) \in Nat \ {0} /\ Head(batch[d]) = batch[d][1] /\ Head(batch[d]) \in Rows
    BY <1>1, BatchFacts
  <1> QED
    BY <1>1, <1>2 DEF Holds

\* A dispatcher goes on: what it holds then it held before, behind the head.
LEMMA DispatcherGoesOn ==
  ASSUME OutboxTyped, NEW d \in Dispatchers, pc[d] # "idle", NextInBatch(d)
  PROVE  /\ batch' \in [Dispatchers -> Seq(Rows)] /\ Distinct'
         /\ pc' \in [Dispatchers -> {"idle", "pick", "send", "stale"} \cup Outcomes]
         /\ \A e \in Dispatchers : pc'[e] # "idle" => batch'[e] # <<>>
         /\ pc'[d] \in {"pick", "idle"} /\ \A e \in Dispatchers \ {d} : pc'[e] = pc[e] /\ batch'[e] = batch[e]
         /\ \A r \in Rows : Holds(d, r)' => Holds(d, r) /\ r # Head(batch[d])
  <1> DEFINE s == batch[d]
  <1>1. /\ s \in Seq(Rows) /\ s # <<>> /\ batch \in [Dispatchers -> Seq(Rows)]
        /\ pc \in [Dispatchers -> {"idle", "pick", "send", "stale"} \cup Outcomes]
    BY DEF OutboxTyped
  <1>2. /\ Len(s) \in Nat \ {0} /\ Head(s) = s[1]
        /\ Tail(s) \in Seq(Rows) /\ Len(Tail(s)) = Len(s) - 1
        /\ \A i \in 1 .. Len(Tail(s)) : Tail(s)[i] = s[i + 1]
        /\ Len(s) > 1 => Tail(s) # <<>>
    BY <1>1, BatchFacts
  <1>3. /\ batch'[d] = Tail(s) /\ batch' \in [Dispatchers -> Seq(Rows)]
        /\ pc'[d] = (IF Len(s) > 1 THEN "pick" ELSE "idle")
        /\ \A e \in Dispatchers \ {d} : pc'[e] = pc[e] /\ batch'[e] = batch[e]
        /\ pc' \in [Dispatchers -> {"idle", "pick", "send", "stale"} \cup Outcomes]
    BY <1>1, <1>2 DEF NextInBatch
  <1>4. \A i, j \in 1 .. Len(s) : s[i] = s[j] => i = j
    BY DEF OutboxTyped, Distinct
  <1>5. Distinct'
    <2> SUFFICES ASSUME NEW e \in Dispatchers, NEW i \in 1 .. Len(batch'[e]), NEW j \in 1 .. Len(batch'[e]),
                        batch'[e][i] = batch'[e][j]
                 PROVE  i = j
      BY DEF Distinct
    <2>1. CASE e = d
      <3>0. i \in 1 .. Len(Tail(s)) /\ j \in 1 .. Len(Tail(s)) /\ Tail(s)[i] = Tail(s)[j]
        BY <1>3, <2>1
      <3>1. s[i + 1] = s[j + 1] /\ i + 1 \in 1 .. Len(s) /\ j + 1 \in 1 .. Len(s)
        <4>1. Tail(s)[i] = s[i + 1] /\ Tail(s)[j] = s[j + 1]
          BY <1>2, <3>0
        <4>2. i \in 1 .. (Len(s) - 1) /\ j \in 1 .. (Len(s) - 1)
          BY <1>2, <3>0
        <4> QED
          BY <1>2, <3>0, <4>1, <4>2
      <3>2. i + 1 = j + 1
        BY <1>4, <3>1
      <3> QED
        BY <1>2, <1>3, <2>1, <3>2
    <2>2. CASE e # d
      BY <1>3, <2>2 DEF OutboxTyped, Distinct
    <2> QED
      BY <2>1, <2>2
  <1>6. \A r \in Rows : Holds(d, r)' => Holds(d, r) /\ r # Head(s)
    <2> SUFFICES ASSUME NEW r \in Rows, NEW i \in 1 .. Len(batch'[d]), batch'[d][i] = r
                 PROVE  Holds(d, r) /\ r # Head(s)
      BY DEF Holds
    <2>1. s[i + 1] = r /\ i + 1 \in 1 .. Len(s) /\ 1 \in 1 .. Len(s) /\ i + 1 # 1
      BY <1>2, <1>3
    <2> QED
      BY <1>2, <1>4, <2>1 DEF Holds
  <1>7. \A e \in Dispatchers : pc'[e] # "idle" => batch'[e] # <<>>
    <2> SUFFICES ASSUME NEW e \in Dispatchers, pc'[e] # "idle" PROVE batch'[e] # <<>>
      OBVIOUS
    <2>1. CASE e = d
      <3>1. Len(s) > 1
        BY <1>3, <2>1
      <3>2. Tail(s) # <<>>
        BY <1>2, <3>1
      <3> QED
        BY <1>3, <2>1, <3>2
    <2>2. CASE e # d
      BY <1>3, <2>2 DEF OutboxTyped
    <2> QED
      BY <2>1, <2>2
  <1> QED
    BY <1>2, <1>3, <1>5, <1>6, <1>7

\* A dispatcher claims rows that are claimable, none twice.
LEMMA ClaimFacts ==
  ASSUME OutboxTyped, NEW d \in Dispatchers, ClaimDue(d)
  PROVE  /\ batch' \in [Dispatchers -> Seq(Rows)] /\ Distinct' /\ batch'[d] # <<>>
         /\ pc'[d] = "pick" /\ \A e \in Dispatchers \ {d} : pc'[e] = pc[e] /\ batch'[e] = batch[e]
         /\ pc' \in [Dispatchers -> {"idle", "pick", "send", "stale"} \cup Outcomes]
         /\ \A r \in Rows : Holds(d, r)' => Claimable(r)
         /\ row' \in [Rows -> OutboxRows]
         /\ \A r \in Rows : row'[r] = IF Holds(d, r)' THEN [row[r] EXCEPT !.status = "sending", !.lease = "live"]
                                      ELSE row[r]
  <1> DEFINE S == {r \in Rows : Claimable(r)}
             q == FirstOf(S, Limit)
  <1>1. S \subseteq Nat /\ IsFiniteSet(S) /\ Limit \in Nat \ {0} /\ S \subseteq Rows
    <2>1. Rows \subseteq Nat /\ IsFiniteSet(Rows) /\ Limit \in Nat \ {0}
      BY OutboxAssumption
    <2> QED
      BY <2>1, FS_Subset
  <1>2. \A r \in S : Claimable(r)
    OBVIOUS
  <1>3. /\ q # <<>> /\ batch' = [batch EXCEPT ![d] = q] /\ pc' = [pc EXCEPT ![d] = "pick"]
        /\ row' = [r \in Rows |-> IF Contains(q, r)
                     THEN [row[r] EXCEPT !.status = "sending", !.lease = "live"] ELSE row[r]]
    BY DEF ClaimDue
  <1> HIDE DEF S
  <1>4. q \in Seq(S) /\ \A i, j \in 1 .. Len(q) : q[i] = q[j] => i = j
    BY <1>1, FirstOfFacts
  <1> HIDE DEF q
  <1>5. q \in Seq(Rows) /\ \A i \in 1 .. Len(q) : q[i] \in S
    <2>1. \A i \in 1 .. Len(q) : q[i] \in S
      BY <1>4, ElementOfSeq
    <2>2. Len(q) \in Nat /\ q \in [1 .. Len(q) -> Rows]
      BY <1>1, <1>4, <2>1, LenProperties
    <2> QED
      BY <2>1, <2>2
  <1>6. /\ batch \in [Dispatchers -> Seq(Rows)] /\ row \in [Rows -> OutboxRows]
        /\ pc \in [Dispatchers -> {"idle", "pick", "send", "stale"} \cup Outcomes]
    BY DEF OutboxTyped
  <1>7. /\ batch'[d] = q /\ batch' \in [Dispatchers -> Seq(Rows)] /\ pc'[d] = "pick"
        /\ \A e \in Dispatchers \ {d} : pc'[e] = pc[e] /\ batch'[e] = batch[e]
        /\ pc' \in [Dispatchers -> {"idle", "pick", "send", "stale"} \cup Outcomes]
    BY <1>3, <1>5, <1>6
  <1>8. Distinct'
    BY <1>4, <1>7 DEF OutboxTyped, Distinct
  <1>9. \A r \in Rows : Holds(d, r)' <=> Contains(q, r)
    BY <1>7 DEF Holds, Contains
  <1>10. \A r \in Rows : Contains(q, r) => Claimable(r)
    BY <1>2, <1>5 DEF Contains
  <1>11. \A r \in Rows : row[r] \in OutboxRows /\ [row[r] EXCEPT !.status = "sending", !.lease = "live"] \in OutboxRows
    BY <1>6 DEF OutboxRows, Statuses, Open
  <1> QED
    BY <1>3, <1>7, <1>8, <1>9, <1>10, <1>11

\* A row's turn has come: each earlier one of its tenant was confirmed, given up,
\* or had to wait for its recipient.
Cleared(r) == \A q \in Earlier(r) : q \in waited \/ row[q].status = "failed" \/ delivered[q] > 0

\* Rows are there in the order of their ids; what a row says was done was done;
\* what is claimed or was sent came in its turn; and as long as a row's lease never
\* ended, one dispatcher holds it and sends it once.
InFront == \A r, q \in Rows : q < r /\ row[r].status # "absent" => row[q].status # "absent"
Recorded ==
  /\ \A r \in Rows : row[r].status = "sent" => delivered[r] > 0
  /\ \A r \in Rows : row[r].status = "waiting_recipient" => r \in waited
  /\ \A d \in Dispatchers : pc[d] = "sent" => delivered[Head(batch[d])] > 0
InTurn == \A r \in Rows : delivered[r] > 0 \/ (\E d \in Dispatchers : Holds(d, r)) => Cleared(r)
HeldOnce ==
  \A r \in Rows \ lapsed :
    /\ row[r].lease # "lapsed"
    /\ \A d \in Dispatchers : Holds(d, r) =>
         row[r].status = "sending" /\ (delivered[r] > 0 => pc[d] = "sent" /\ r = Head(batch[d]))
    /\ \A d, e \in Dispatchers : Holds(d, r) /\ Holds(e, r) => d = e
    /\ delivered[r] > 0 => row[r].status \in {"sending", "sent"}
    /\ delivered[r] <= 1
Orderly == InFront /\ Recorded /\ InTurn /\ HeldOnce

LEMMA OutboxInit == Init => OutboxTyped /\ Orderly
  <1> SUFFICES ASSUME Init PROVE OutboxTyped /\ Orderly
    OBVIOUS
  <1>1. /\ row = [r \in Rows |-> [status |-> "absent", attempts |-> 0, lease |-> "none"]]
        /\ pc = [d \in Dispatchers |-> "idle"] /\ batch = [d \in Dispatchers |-> <<>>]
        /\ delivered = [r \in Rows |-> 0] /\ waited = {} /\ lapsed = {}
    BY DEF Init
  <1>2. [status |-> "absent", attempts |-> 0, lease |-> "none"] \in OutboxRows
    BY OutboxAssumption DEF OutboxRows, Statuses
  <1>3. /\ row \in [Rows -> OutboxRows]
        /\ \A r \in Rows : row[r].status = "absent" /\ row[r].lease = "none"
    BY <1>1, <1>2
  <1>4. batch \in [Dispatchers -> Seq(Rows)] /\ \A d \in Dispatchers : Len(batch[d]) = 0
    BY <1>1, EmptySeq
  <1>5. \A d \in Dispatchers, r \in Rows : ~Holds(d, r)
    BY <1>4 DEF Holds
  <1>6. Distinct
    BY <1>4 DEF Distinct
  <1>7. OutboxTyped
    BY <1>1, <1>3, <1>4, <1>6 DEF OutboxTyped
  <1> QED
    BY <1>1, <1>3, <1>5, <1>7 DEF Orderly, InFront, Recorded, InTurn, HeldOnce

\* finish(), whose outcome it is.
LEMMA SettledFacts ==
  ASSUME NEW r \in Rows, row \in [Rows -> OutboxRows], NEW result \in Outcomes
  PROVE  /\ Settled(r, result) \in OutboxRows
         /\ row[r].status # "sending" => Settled(r, result) = row[r]
         /\ row[r].status = "sending" => Settled(r, result).status = result /\ Settled(r, result).lease = "none"
  <1>1. row[r] \in OutboxRows
    OBVIOUS
  <1>2. MaxAttempts \in Nat
    BY OutboxAssumption
  <1>3. CASE row[r].status # "sending"
    BY <1>1, <1>3 DEF Settled
  <1>4. CASE row[r].status = "sending"
    <2> DEFINE n == IF row[r].attempts < MaxAttempts THEN row[r].attempts + 1 ELSE row[r].attempts
    <2>1. n \in 0 .. MaxAttempts
      BY <1>1, <1>2 DEF OutboxRows
    <2>2. Settled(r, result) = [row[r] EXCEPT !.status = result, !.lease = "none", !.attempts = n]
      BY <1>4 DEF Settled
    <2> HIDE DEF n
    <2> QED
      BY <1>1, <1>4, <2>1, <2>2 DEF OutboxRows, Outcomes, Statuses, Open
  <1> QED
    BY <1>3, <1>4

\* How the rows that no dispatcher settles change.
LEMMA RowSteps ==
  ASSUME OutboxTyped, Orderly,
         \/ \E r \in Rows : Enqueue(r) \/ RequeueAged(r) \/ LeaseLapses(r)
         \/ \E t \in Tenants : RequeueWaiting(t)
  PROVE  OutboxTyped' /\ Orderly'
  <1>0. row \in [Rows -> OutboxRows] /\ lapsed \subseteq Rows
    BY DEF OutboxTyped
  <1>1. /\ pc' = pc /\ batch' = batch /\ delivered' = delivered /\ waited' = waited
        /\ lapsed \subseteq lapsed' /\ lapsed' \subseteq Rows
    BY <1>0 DEF Enqueue, RequeueAged, LeaseLapses, RequeueWaiting, history
  <1>2. /\ row' \in [Rows -> OutboxRows]
        /\ \A r \in Rows :
             \/ row'[r] = row[r]
             \/ /\ row[r].status = "absent" /\ row'[r].status = "pending" /\ row'[r].lease = row[r].lease
                /\ \A q \in Rows : q < r => row[q].status # "absent"
             \/ row[r].status = "waiting_recipient" /\ row'[r].status = "pending" /\ row'[r].lease = row[r].lease
             \/ row[r].status = "sending" /\ row'[r].status = "sending" /\ r \in lapsed'
    <2>1. ASSUME NEW S \in SUBSET Rows, row' = Requeued(S)
          PROVE  /\ row' \in [Rows -> OutboxRows]
                 /\ \A r \in Rows :
                      \/ row'[r] = row[r]
                      \/ row[r].status = "waiting_recipient" /\ row'[r].status = "pending" /\ row'[r].lease = row[r].lease
      BY <1>0, <2>1 DEF Requeued, OutboxRows, Statuses, Open
    <2>2. ASSUME NEW r \in Rows, Enqueue(r)
          PROVE  /\ row' \in [Rows -> OutboxRows] /\ \A q \in Rows \ {r} : row'[q] = row[q]
                 /\ row[r].status = "absent" /\ row'[r].status = "pending" /\ row'[r].lease = row[r].lease
                 /\ \A q \in Rows : q < r => row[q].status # "absent"
      <3>1. [row[r] EXCEPT !.status = "pending"] \in OutboxRows
        BY <1>0 DEF OutboxRows, Statuses, Open
      <3> QED
        BY <1>0, <2>2, <3>1 DEF Enqueue, OutboxRows
    <2>3. ASSUME NEW r \in Rows, LeaseLapses(r)
          PROVE  /\ row' \in [Rows -> OutboxRows] /\ \A q \in Rows \ {r} : row'[q] = row[q]
                 /\ row[r].status = "sending" /\ row'[r].status = "sending" /\ r \in lapsed'
      <3>1. [row[r] EXCEPT !.lease = "lapsed"] \in OutboxRows
        BY <1>0 DEF OutboxRows
      <3> QED
        BY <1>0, <2>3, <3>1 DEF LeaseLapses, OutboxRows
    <2>4. CASE \E r \in Rows : RequeueAged(r)
      BY <2>1, <2>4 DEF RequeueAged
    <2>5. CASE \E t \in Tenants : RequeueWaiting(t)
      BY <2>1, <2>5 DEF RequeueWaiting
    <2> QED
      BY <2>2, <2>3, <2>4, <2>5
  <1>3. OutboxTyped'
    BY <1>1, <1>2 DEF OutboxTyped, Distinct
  <1>4. \A d \in Dispatchers, r \in Rows : Holds(d, r)' <=> Holds(d, r)
    BY <1>1 DEF Holds
  <1>5. InFront'
    <2> SUFFICES ASSUME NEW r \in Rows, NEW q \in Rows, q < r, row'[r].status # "absent"
                 PROVE  row'[q].status # "absent"
      BY DEF InFront
    <2>1. row[q].status # "absent"
      BY <1>2 DEF Orderly, InFront
    <2> QED
      BY <1>2, <2>1
  <1>6. Recorded'
    BY <1>1, <1>2 DEF Orderly, Recorded
  <1>7. InTurn'
    <2>1. \A r \in Rows : Cleared(r) => Cleared(r)'
      BY <1>1, <1>2 DEF Cleared, Earlier
    <2> QED
      BY <1>1, <1>4, <2>1 DEF Orderly, InTurn
  <1>8. HeldOnce'
    <2> SUFFICES ASSUME NEW r \in Rows \ lapsed'
                 PROVE  /\ row'[r].lease # "lapsed"
                        /\ \A d \in Dispatchers : Holds(d, r) =>
                             row'[r].status = "sending" /\ (delivered[r] > 0 => pc[d] = "sent" /\ r = Head(batch[d]))
                        /\ \A d, e \in Dispatchers : Holds(d, r) /\ Holds(e, r) => d = e
                        /\ delivered[r] > 0 => row'[r].status \in {"sending", "sent"}
                        /\ delivered[r] <= 1
      BY <1>1, <1>4 DEF HeldOnce
    <2>1. r \in Rows \ lapsed
      BY <1>1
    <2> QED
      BY <1>2, <2>1 DEF Orderly, HeldOnce
  <1> QED
    BY <1>3, <1>5, <1>6, <1>7, <1>8 DEF Orderly

\* The ways of a dispatcher that leave the rows alone: it picks an address, finds it
\* stale, or lets go of its batch.
LEMMA QuietSteps ==
  ASSUME OutboxTyped, Orderly, UNCHANGED <<row, history>>,
         pc' \in [Dispatchers -> {"idle", "pick", "send", "stale"} \cup Outcomes],
         batch' \in [Dispatchers -> Seq(Rows)],
         \A d \in Dispatchers : \/ batch'[d] = <<>> /\ pc'[d] = "idle"
                                \/ batch'[d] = batch[d] /\ pc'[d] = pc[d]
                                \/ /\ batch'[d] = batch[d] /\ pc[d] \notin {"idle", "sent"}
                                   /\ pc'[d] # "sent"
  PROVE  OutboxTyped' /\ Orderly'
  <1>1. delivered' = delivered /\ waited' = waited /\ lapsed' = lapsed /\ row' = row
    BY DEF history
  <1>2. Len(<<>>) = 0
    BY EmptySeq
  <1>3. \A d \in Dispatchers, r \in Rows : Holds(d, r)' => Holds(d, r) /\ batch'[d] = batch[d]
    BY <1>2 DEF Holds
  <1>4. Distinct'
    BY <1>2 DEF OutboxTyped, Distinct
  <1>5. OutboxTyped'
    BY <1>1, <1>4 DEF OutboxTyped
  <1>6. InFront' /\ Recorded'
    BY <1>1 DEF Orderly, InFront, Recorded
  <1>7. InTurn'
    <2>1. \A r \in Rows : Cleared(r)' <=> Cleared(r)
      BY <1>1 DEF Cleared, Earlier
    <2> QED
      BY <1>1, <1>3, <2>1 DEF Orderly, InTurn
  <1>8. HeldOnce'
    <2> SUFFICES ASSUME NEW r \in Rows \ lapsed
                 PROVE  /\ row[r].lease # "lapsed"
                        /\ \A d \in Dispatchers : Holds(d, r)' =>
                             row[r].status = "sending" /\ (delivered[r] > 0 => pc'[d] = "sent" /\ r = Head(batch'[d]))
                        /\ \A d, e \in Dispatchers : Holds(d, r)' /\ Holds(e, r)' => d = e
                        /\ delivered[r] > 0 => row[r].status \in {"sending", "sent"}
                        /\ delivered[r] <= 1
      BY <1>1 DEF HeldOnce
    <2>1. \A d \in Dispatchers : Holds(d, r)' /\ delivered[r] > 0 => pc'[d] = "sent" /\ r = Head(batch'[d])
      <3> SUFFICES ASSUME NEW d \in Dispatchers, Holds(d, r)', delivered[r] > 0
                   PROVE  pc'[d] = "sent" /\ r = Head(batch'[d])
        OBVIOUS
      <3>1. pc[d] = "sent" /\ r = Head(batch[d]) /\ batch'[d] = batch[d]
        BY <1>3 DEF Orderly, HeldOnce
      <3>2. batch[d] # <<>>
        BY <3>1 DEF OutboxTyped
      <3> QED
        BY <3>1, <3>2
    <2> QED
      BY <1>3, <2>1 DEF Orderly, HeldOnce
  <1> QED
    BY <1>5, <1>6, <1>7, <1>8 DEF Orderly

\* claim_due(): nothing earlier of the tenant is still to be sent.
LEMMA ClaimOrderly ==
  ASSUME OutboxTyped, Orderly, NEW d \in Dispatchers, ClaimDue(d)
  PROVE  OutboxTyped' /\ Orderly'
  <1>1. delivered' = delivered /\ waited' = waited /\ lapsed' = lapsed /\ pc[d] = "idle"
    BY DEF ClaimDue, history
  <1>2. /\ batch' \in [Dispatchers -> Seq(Rows)] /\ Distinct' /\ batch'[d] # <<>>
        /\ pc'[d] = "pick" /\ \A e \in Dispatchers \ {d} : pc'[e] = pc[e] /\ batch'[e] = batch[e]
        /\ pc' \in [Dispatchers -> {"idle", "pick", "send", "stale"} \cup Outcomes]
        /\ row' \in [Rows -> OutboxRows] /\ row \in [Rows -> OutboxRows]
    BY ClaimFacts DEF OutboxTyped
  <1>3. \A r \in Rows : Holds(d, r)' => Claimable(r)
    BY ClaimFacts
  <1>4. \A r \in Rows : \/ ~Holds(d, r)' /\ row'[r] = row[r]
                        \/ Holds(d, r)' /\ row'[r].status = "sending" /\ row'[r].lease = "live"
    <2>1. \A r \in Rows : row'[r] = IF Holds(d, r)' THEN [row[r] EXCEPT !.status = "sending", !.lease = "live"]
                                     ELSE row[r]
      BY ClaimFacts
    <2> QED
      BY <1>2, <2>1 DEF OutboxRows
  <1>5. \A e \in Dispatchers \ {d}, r \in Rows : Holds(e, r)' <=> Holds(e, r)
    BY <1>2 DEF Holds
  <1>6. OutboxTyped'
    BY <1>1, <1>2 DEF OutboxTyped
  <1>7. \A r \in Rows : Claimable(r) =>
          /\ row[r].status \in {"pending", "retry", "sending"}
          /\ row[r].status = "sending" => row[r].lease = "lapsed"
          /\ \A q \in Earlier(r) : row[q].status \notin Open
    BY DEF Claimable, Due
  <1>8. InFront'
    <2> SUFFICES ASSUME NEW r \in Rows, NEW q \in Rows, q < r, row'[r].status # "absent"
                 PROVE  row'[q].status # "absent"
      BY DEF InFront
    <2>1. row[r].status # "absent"
      BY <1>3, <1>4, <1>7
    <2>2. row[q].status # "absent"
      BY <2>1 DEF Orderly, InFront
    <2> QED
      BY <1>4, <2>2
  <1>9. Recorded'
    <2>1. \A e \in Dispatchers : pc'[e] = "sent" => delivered[Head(batch'[e])] > 0
      BY <1>2 DEF Orderly, Recorded
    <2> QED
      BY <1>1, <1>4, <2>1 DEF Orderly, Recorded
  <1>10. \A r \in Rows : Cleared(r) => Cleared(r)'
    <2> SUFFICES ASSUME NEW r \in Rows, NEW q \in Earlier(r), row[q].status = "failed"
                 PROVE  row'[q].status = "failed"
      BY <1>1 DEF Cleared, Earlier
    <2>1. q \in Rows /\ ~Claimable(q)
      BY <1>7 DEF Earlier
    <2> QED
      BY <1>3, <1>4, <2>1
  <1>11. \A r \in Rows : Claimable(r) => Cleared(r)
    <2> SUFFICES ASSUME NEW r \in Rows, Claimable(r), NEW q \in Earlier(r)
                 PROVE  q \in waited \/ row[q].status = "failed" \/ delivered[q] > 0
      BY DEF Cleared
    <2>1. q \in Rows /\ q < r /\ row[q].status \notin Open /\ row[r].status # "absent"
      BY <1>7 DEF Earlier
    <2>2. row[q].status # "absent"
      BY <2>1 DEF Orderly, InFront
    <2>3. row[q].status \in Statuses
      BY <1>2, <2>1 DEF OutboxRows
    <2> QED
      BY <2>1, <2>2, <2>3 DEF Statuses, Orderly, Recorded
  <1>12. InTurn'
    <2> SUFFICES ASSUME NEW r \in Rows, delivered[r] > 0 \/ \E e \in Dispatchers : Holds(e, r)'
                 PROVE  Cleared(r)'
      BY <1>1 DEF InTurn
    <2>1. CASE Holds(d, r)'
      BY <1>3, <1>10, <1>11, <2>1
    <2>2. CASE ~Holds(d, r)'
      BY <1>5, <1>10, <2>2 DEF Orderly, InTurn
    <2> QED
      BY <2>1, <2>2
  <1>13. HeldOnce'
    <2> SUFFICES ASSUME NEW r \in Rows \ lapsed
                 PROVE  /\ row'[r].lease # "lapsed"
                        /\ \A e \in Dispatchers : Holds(e, r)' =>
                             row'[r].status = "sending" /\ (delivered[r] > 0 => pc'[e] = "sent" /\ r = Head(batch'[e]))
                        /\ \A e, f \in Dispatchers : Holds(e, r)' /\ Holds(f, r)' => e = f
                        /\ delivered[r] > 0 => row'[r].status \in {"sending", "sent"}
                        /\ delivered[r] <= 1
      BY <1>1 DEF HeldOnce
    <2>1. /\ row[r].lease # "lapsed" /\ delivered[r] <= 1
          /\ \A e \in Dispatchers : Holds(e, r) =>
               row[r].status = "sending" /\ (delivered[r] > 0 => pc[e] = "sent" /\ r = Head(batch[e]))
          /\ \A e, f \in Dispatchers : Holds(e, r) /\ Holds(f, r) => e = f
          /\ delivered[r] > 0 => row[r].status \in {"sending", "sent"}
      BY DEF Orderly, HeldOnce
    <2>2. CASE Holds(d, r)'
      <3>1. row[r].status \in {"pending", "retry"}
        BY <1>3, <1>7, <2>1, <2>2
      <3>2. ~(delivered[r] > 0) /\ \A e \in Dispatchers : ~Holds(e, r)
        BY <2>1, <3>1
      <3>3. row'[r].status = "sending" /\ row'[r].lease = "live"
        BY <1>4, <2>2
      <3>4. \A e \in Dispatchers \ {d} : ~Holds(e, r)'
        BY <1>5, <3>2
      <3> QED
        BY <2>1, <3>2, <3>3, <3>4
    <2>3. CASE ~Holds(d, r)'
      <3>1. row'[r] = row[r]
        BY <1>4, <2>3
      <3>2. \A e \in Dispatchers : Holds(e, r)' => Holds(e, r) /\ pc'[e] = pc[e] /\ batch'[e] = batch[e]
        BY <1>2, <1>5, <2>3
      <3> QED
        BY <2>1, <3>1, <3>2
    <2> QED
      BY <2>2, <2>3
  <1> QED
    BY <1>6, <1>8, <1>9, <1>12, <1>13 DEF Orderly

\* The channel confirms, or does not.
LEMMA SendOrderly ==
  ASSUME OutboxTyped, Orderly, NEW d \in Dispatchers, Send(d)
  PROVE  OutboxTyped' /\ Orderly'
  <1> DEFINE x == Head(batch[d])
  <1>1. /\ row' = row /\ batch' = batch /\ waited' = waited /\ lapsed' = lapsed /\ pc[d] = "send"
    BY DEF Send
  <1>2. x \in Rows /\ Holds(d, x)
    BY <1>1, AtHead
  <1>3. PICK o \in {"sent", "retry", "stale", "failed"} :
          /\ pc' = [pc EXCEPT ![d] = o]
          /\ delivered' = IF o = "sent" /\ delivered[x] < 2 THEN [delivered EXCEPT ![x] = @ + 1] ELSE delivered
    BY DEF Send
  <1> HIDE DEF x
  <1>4. /\ pc' \in [Dispatchers -> {"idle", "pick", "send", "stale"} \cup Outcomes]
        /\ pc'[d] = o /\ \A e \in Dispatchers \ {d} : pc'[e] = pc[e]
    BY <1>3 DEF OutboxTyped, Outcomes
  <1>5. delivered \in [Rows -> 0 .. 2]
    BY DEF OutboxTyped
  <1>6. /\ delivered' \in [Rows -> 0 .. 2] /\ \A r \in Rows \ {x} : delivered'[r] = delivered[r]
        /\ o # "sent" => delivered' = delivered
        /\ o = "sent" => delivered'[x] > 0 /\ (delivered[x] = 0 => delivered'[x] = 1)
        /\ \A r \in Rows : delivered[r] > 0 => delivered'[r] > 0
    <2>1. CASE o = "sent" /\ delivered[x] < 2
      <3>1. /\ delivered' = [delivered EXCEPT ![x] = delivered[x] + 1]
            /\ delivered[x] + 1 \in 0 .. 2 /\ delivered[x] + 1 > 0 /\ delivered[x] \in 0 .. 2
        BY <1>2, <1>3, <1>5, <2>1
      <3> QED
        BY <1>2, <1>5, <2>1, <3>1
    <2>2. CASE ~(o = "sent" /\ delivered[x] < 2)
      <3>1. delivered' = delivered /\ delivered[x] \in 0 .. 2
        BY <1>2, <1>3, <1>5, <2>2
      <3> QED
        BY <1>2, <1>5, <2>2, <3>1
    <2> QED
      BY <2>1, <2>2
  <1>7. OutboxTyped'
    <2>1. Distinct'
      BY <1>1 DEF OutboxTyped, Distinct
    <2>2. \A e \in Dispatchers : pc'[e] # "idle" => batch[e] # <<>>
      BY <1>1, <1>4 DEF OutboxTyped
    <2> QED
      BY <1>1, <1>4, <1>6, <2>1, <2>2 DEF OutboxTyped
  <1>8. \A e \in Dispatchers, r \in Rows : Holds(e, r)' <=> Holds(e, r)
    BY <1>1 DEF Holds
  <1>9. InFront'
    BY <1>1 DEF Orderly, InFront
  <1>10. Recorded'
    <2>1. ASSUME NEW e \in Dispatchers, pc'[e] = "sent" PROVE delivered'[Head(batch[e])] > 0
      <3>1. CASE e = d
        BY <1>4, <1>6, <2>1, <3>1 DEF x
      <3>2. CASE e # d
        <4>1. pc[e] = "sent" /\ pc[e] # "idle"
          BY <1>4, <2>1, <3>2
        <4>2. Head(batch[e]) \in Rows
          BY <4>1, AtHead
        <4> QED
          BY <1>6, <4>1, <4>2 DEF Orderly, Recorded
      <3> QED
        BY <3>1, <3>2
    <2> QED
      BY <1>1, <1>6, <2>1 DEF Orderly, Recorded
  <1>11. InTurn'
    <2>1. \A r \in Rows : Cleared(r) => Cleared(r)'
      BY <1>1, <1>6 DEF Cleared, Earlier
    <2>2. \A r \in Rows : delivered'[r] > 0 => delivered[r] > 0 \/ Holds(d, r)
      BY <1>2, <1>6
    <2> QED
      BY <1>8, <2>1, <2>2 DEF Orderly, InTurn
  <1>12. HeldOnce'
    <2> SUFFICES ASSUME NEW r \in Rows \ lapsed
                 PROVE  /\ row[r].lease # "lapsed"
                        /\ \A e \in Dispatchers : Holds(e, r) =>
                             row[r].status = "sending" /\ (delivered'[r] > 0 => pc'[e] = "sent" /\ r = Head(batch[e]))
                        /\ \A e, f \in Dispatchers : Holds(e, r) /\ Holds(f, r) => e = f
                        /\ delivered'[r] > 0 => row[r].status \in {"sending", "sent"}
                        /\ delivered'[r] <= 1
      BY <1>1, <1>8 DEF HeldOnce
    <2>1. /\ row[r].lease # "lapsed" /\ delivered[r] <= 1
          /\ \A e \in Dispatchers : Holds(e, r) =>
               row[r].status = "sending" /\ (delivered[r] > 0 => pc[e] = "sent" /\ r = Head(batch[e]))
          /\ \A e, f \in Dispatchers : Holds(e, r) /\ Holds(f, r) => e = f
          /\ delivered[r] > 0 => row[r].status \in {"sending", "sent"}
      BY DEF Orderly, HeldOnce
    <2>2. CASE r = x
      <3>1. delivered[r] = 0
        BY <1>1, <1>2, <1>5, <2>1, <2>2
      <3>2. /\ \A e \in Dispatchers : Holds(e, r) => e = d
            /\ row[r].status = "sending"
        BY <1>2, <2>1, <2>2
      <3>3. delivered'[r] > 0 => o = "sent"
        BY <1>6, <3>1
      <3>4. delivered'[r] <= 1
        BY <1>6, <2>2, <3>1
      <3> QED
        BY <1>4, <2>1, <2>2, <3>2, <3>3, <3>4 DEF x
    <2>3. CASE r # x
      <3>1. delivered'[r] = delivered[r]
        BY <1>6, <2>3
      <3>2. \A e \in Dispatchers : pc[e] = "sent" => pc'[e] = "sent"
        BY <1>1, <1>4
      <3> QED
        BY <2>1, <3>1, <3>2
    <2> QED
      BY <2>2, <2>3
  <1> QED
    BY <1>7, <1>9, <1>10, <1>11, <1>12 DEF Orderly

\* finish(), and on to the next of the batch.
LEMMA FinishOrderly ==
  ASSUME OutboxTyped, Orderly, NEW d \in Dispatchers, Finish(d)
  PROVE  OutboxTyped' /\ Orderly'
  <1> DEFINE x == Head(batch[d])
  <1>1. /\ delivered' = delivered /\ lapsed' = lapsed /\ pc[d] \in Outcomes /\ pc[d] # "idle"
        /\ row' = [row EXCEPT ![x] = Settled(x, pc[d])] /\ NextInBatch(d)
        /\ waited' = IF row'[x].status = "waiting_recipient" THEN waited \cup {x} ELSE waited
    BY DEF Finish, Outcomes
  <1>2. x \in Rows /\ Holds(d, x)
    BY <1>1, AtHead
  <1>3. /\ batch' \in [Dispatchers -> Seq(Rows)] /\ Distinct'
        /\ pc' \in [Dispatchers -> {"idle", "pick", "send", "stale"} \cup Outcomes]
        /\ \A e \in Dispatchers : pc'[e] # "idle" => batch'[e] # <<>>
        /\ pc'[d] \in {"pick", "idle"} /\ \A e \in Dispatchers \ {d} : pc'[e] = pc[e] /\ batch'[e] = batch[e]
        /\ \A r \in Rows : Holds(d, r)' => Holds(d, r) /\ r # x
    BY <1>1, DispatcherGoesOn
  <1> HIDE DEF x
  <1>4. row \in [Rows -> OutboxRows] /\ waited \subseteq Rows
    BY DEF OutboxTyped
  <1>5. /\ row' \in [Rows -> OutboxRows] /\ \A r \in Rows \ {x} : row'[r] = row[r]
        /\ row[x].status # "sending" => row'[x] = row[x]
        /\ row[x].status = "sending" => row'[x].status = pc[d] /\ row'[x].lease = "none"
    <2>1. /\ Settled(x, pc[d]) \in OutboxRows
          /\ row[x].status # "sending" => Settled(x, pc[d]) = row[x]
          /\ row[x].status = "sending" => Settled(x, pc[d]).status = pc[d] /\ Settled(x, pc[d]).lease = "none"
      BY <1>1, <1>2, <1>4, SettledFacts
    <2>2. row'[x] = Settled(x, pc[d]) /\ \A r \in Rows \ {x} : row'[r] = row[r]
      BY <1>1, <1>2, <1>4
    <2>3. row' \in [Rows -> OutboxRows]
      BY <1>1, <1>2, <1>4, <2>1
    <2> QED
      BY <2>1, <2>2, <2>3
  <1>6. /\ waited \subseteq waited' /\ waited' \subseteq Rows
        /\ row'[x].status = "waiting_recipient" => x \in waited'
    BY <1>1, <1>2, <1>4
  <1>7. OutboxTyped'
    BY <1>1, <1>3, <1>5, <1>6 DEF OutboxTyped
  <1>8. \A e \in Dispatchers \ {d}, r \in Rows : Holds(e, r)' <=> Holds(e, r)
    BY <1>3 DEF Holds
  <1>9. InFront'
    <2> SUFFICES ASSUME NEW r \in Rows, NEW q \in Rows, q < r, row'[r].status # "absent"
                 PROVE  row'[q].status # "absent"
      BY DEF InFront
    <2>1. row[r].status # "absent"
      BY <1>5
    <2>2. row[q].status # "absent"
      BY <2>1 DEF Orderly, InFront
    <2> QED
      BY <1>1, <1>5, <2>2 DEF Outcomes
  <1>10. Recorded'
    <2>1. pc[d] = "sent" => delivered[x] > 0
      BY DEF Orderly, Recorded, x
    <2>2. \A r \in Rows : row'[r].status = "sent" => delivered[r] > 0
      BY <1>5, <2>1 DEF Orderly, Recorded
    <2>3. \A r \in Rows : row'[r].status = "waiting_recipient" => r \in waited'
      BY <1>5, <1>6 DEF Orderly, Recorded
    <2>4. \A e \in Dispatchers : pc'[e] = "sent" => delivered[Head(batch'[e])] > 0
      BY <1>3 DEF Orderly, Recorded
    <2> QED
      BY <1>1, <2>2, <2>3, <2>4 DEF Recorded
  <1>11. InTurn'
    <2>1. \A r \in Rows : Cleared(r) => Cleared(r)'
      BY <1>1, <1>5, <1>6 DEF Cleared, Earlier
    <2>2. \A e \in Dispatchers, r \in Rows : Holds(e, r)' => Holds(e, r)
      BY <1>3, <1>8
    <2> QED
      BY <1>1, <2>1, <2>2 DEF Orderly, InTurn
  <1>12. HeldOnce'
    <2> SUFFICES ASSUME NEW r \in Rows \ lapsed
                 PROVE  /\ row'[r].lease # "lapsed"
                        /\ \A e \in Dispatchers : Holds(e, r)' =>
                             row'[r].status = "sending" /\ (delivered[r] > 0 => pc'[e] = "sent" /\ r = Head(batch'[e]))
                        /\ \A e, f \in Dispatchers : Holds(e, r)' /\ Holds(f, r)' => e = f
                        /\ delivered[r] > 0 => row'[r].status \in {"sending", "sent"}
                        /\ delivered[r] <= 1
      BY <1>1 DEF HeldOnce
    <2>1. /\ row[r].lease # "lapsed" /\ delivered[r] <= 1
          /\ \A e \in Dispatchers : Holds(e, r) =>
               row[r].status = "sending" /\ (delivered[r] > 0 => pc[e] = "sent" /\ r = Head(batch[e]))
          /\ \A e, f \in Dispatchers : Holds(e, r) /\ Holds(f, r) => e = f
          /\ delivered[r] > 0 => row[r].status \in {"sending", "sent"}
      BY DEF Orderly, HeldOnce
    <2>2. CASE r = x
      <3>1. /\ row[r].status = "sending" /\ (delivered[r] > 0 => pc[d] = "sent")
            /\ \A e \in Dispatchers : Holds(e, r) => e = d
        BY <1>2, <2>1, <2>2
      <3>2. \A e \in Dispatchers : ~Holds(e, r)'
        BY <1>3, <1>8, <2>2, <3>1
      <3>3. row'[r].status = pc[d] /\ row'[r].lease = "none"
        BY <1>5, <2>2, <3>1
      <3> QED
        BY <2>1, <3>1, <3>2, <3>3
    <2>3. CASE r # x
      <3>1. row'[r] = row[r]
        BY <1>5, <2>3
      <3>2. \A e \in Dispatchers : Holds(e, r)' => Holds(e, r)
        BY <1>3, <1>8
      <3>3. ASSUME NEW e \in Dispatchers, Holds(e, r)', delivered[r] > 0
            PROVE  pc'[e] = "sent" /\ r = Head(batch'[e])
        <4>1. pc[e] = "sent" /\ r = Head(batch[e])
          BY <2>1, <3>2, <3>3
        <4>2. e # d
          BY <2>3, <4>1 DEF x
        <4> QED
          BY <1>3, <4>1, <4>2
      <3> QED
        BY <2>1, <3>1, <3>2, <3>3
    <2> QED
      BY <2>2, <2>3
  <1> QED
    BY <1>7, <1>9, <1>10, <1>11, <1>12 DEF Orderly

LEMMA OutboxNext ==
  ASSUME OutboxTyped, Orderly, [Next]_vars
  PROVE  OutboxTyped' /\ Orderly'
  <1>0. /\ batch \in [Dispatchers -> Seq(Rows)]
        /\ pc \in [Dispatchers -> {"idle", "pick", "send", "stale"} \cup Outcomes]
    BY DEF OutboxTyped
  <1>1. CASE (\E r \in Rows : Enqueue(r) \/ RequeueAged(r) \/ LeaseLapses(r)) \/ \E t \in Tenants : RequeueWaiting(t)
    BY <1>1, RowSteps
  <1>2. ASSUME NEW d \in Dispatchers, Pick(d) \/ MarkStale(d) PROVE OutboxTyped' /\ Orderly'
    <2>1. /\ UNCHANGED <<row, history>> /\ batch' = batch /\ pc[d] \in {"pick", "stale"}
          /\ \E place \in {"send", "waiting_recipient"} : pc' = [pc EXCEPT ![d] = place]
      BY <1>2 DEF Pick, MarkStale
    <2>2. PICK place \in {"send", "waiting_recipient"} : pc' = [pc EXCEPT ![d] = place]
      BY <2>1
    <2>3. pc' \in [Dispatchers -> {"idle", "pick", "send", "stale"} \cup Outcomes]
      BY <1>0, <2>2 DEF Outcomes
    <2>4. \A e \in Dispatchers : \/ batch'[e] = batch[e] /\ pc'[e] = pc[e]
                                 \/ /\ batch'[e] = batch[e] /\ pc[e] \notin {"idle", "sent"}
                                    /\ pc'[e] # "sent"
      BY <1>0, <2>1, <2>2
    <2> QED
      BY <1>0, <2>1, <2>3, <2>4, QuietSteps
  <1>3. CASE Crash \/ \E d \in Dispatchers : FinishRaises(d)
    <2>1. /\ UNCHANGED <<row, history>>
          /\ pc' \in [Dispatchers -> {"idle", "pick", "send", "stale"} \cup Outcomes]
          /\ \A e \in Dispatchers : \/ batch'[e] = <<>> /\ pc'[e] = "idle"
                                    \/ batch'[e] = batch[e] /\ pc'[e] = pc[e]
      BY <1>0, <1>3 DEF Crash, FinishRaises
    <2>2. batch' \in [Dispatchers -> Seq(Rows)]
      BY <1>0, <1>3, EmptySeq DEF Crash, FinishRaises
    <2> QED
      BY <2>1, <2>2, QuietSteps
  <1>4. CASE UNCHANGED vars \/ \E t \in Tenants : RecipientWrites(t)
    <2>1. UNCHANGED <<row, pc, batch, history>>
      BY <1>4 DEF vars, history, RecipientWrites
    <2> QED
      BY <1>0, <2>1, QuietSteps
  <1> QED
    BY <1>1, <1>2, <1>3, <1>4, ClaimOrderly, SendOrderly, FinishOrderly DEF Next, Work

\* A notification overtakes an earlier one of its tenant only where that one had to wait
\* for its recipient, and is confirmed twice only after its lease ended, for any number
\* of dispatchers, stalls, crashes and failed transactions (claim_due(), finish()).
THEOREM NotificationsKeepTheirTurn == Spec => []DeliveredOnceInOrder
  <1>1. OutboxTyped /\ Orderly => DeliveredOnceInOrder
    <2> SUFFICES ASSUME OutboxTyped, Orderly PROVE OnlyWaitingIsOvertaken /\ RedeliveryNeedsLapse
      BY DEF DeliveredOnceInOrder
    <2>1. OnlyWaitingIsOvertaken
      <3> SUFFICES ASSUME NEW r \in Rows, NEW q \in Earlier(r), delivered[r] > 0, delivered[q] = 0
                   PROVE  q \in waited \/ row[q].status = "failed"
        BY DEF OnlyWaitingIsOvertaken
      <3> QED
        BY DEF Orderly, InTurn, Cleared
    <2>2. RedeliveryNeedsLapse
      <3> SUFFICES ASSUME NEW r \in Rows, delivered[r] > 1, r \notin lapsed PROVE FALSE
        BY DEF RedeliveryNeedsLapse
      <3>1. delivered[r] <= 1 /\ delivered[r] \in 0 .. 2
        BY DEF Orderly, HeldOnce, OutboxTyped
      <3> QED
        BY <3>1
    <2> QED
      BY <2>1, <2>2
  <1> QED
    BY <1>1, OutboxInit, OutboxNext, PTL DEF Spec
=============================================================================
