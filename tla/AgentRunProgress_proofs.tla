----------------------- MODULE AgentRunProgress_proofs -----------------------
(***************************************************************************)
(* What a run stands at.  Theorems about the position in a run's state     *)
(* (round, batch and call): it does not move back, what it names when the  *)
(* run waits for somebody can be settled by that somebody, and a result    *)
(* recorded for it stays.                                                  *)
(***************************************************************************)
EXTENDS AgentRuns_proofs

\* The position of new is that of old or a later one.
Ahead(old, new) ==
  \/ old.round < new.round
  \/ old.round = new.round /\ old.queue = new.queue /\ old.idx <= new.idx

LEMMA AheadFacts ==
  ASSUME NEW s \in States
  PROVE  /\ s.round \in Nat /\ s.idx \in Nat /\ Ahead(s, s)
         /\ \A t, u \in States : Ahead(s, t) /\ Ahead(t, u) => Ahead(s, u)
  <1>1. \A t \in States : t.round \in Nat /\ t.idx \in Nat
    BY ConstantsAssumption DEF States
  <1> QED
    BY <1>1 DEF Ahead

-----------------------------------------------------------------------------
(* One step of a worker, short of the check-in. *)

\* It goes on with the copy it has ...
GoesOn(w) == loc'[w] = loc[w] /\ pc'[w] \notin {"idle", "commit"}
\* ... or is done, with a state that is ahead of the copy; it waits for an approval
\* it asked for, and is in doubt only where the journal left it in doubt.
InDoubt(w) ==
  /\ pc[w] = "journal" /\ out'[w] = "paused"
  /\ loc'[w] = [loc[w] EXCEPT !.reason = "execution_unknown"]
  /\ steps[cur[w]][Key(loc[w])].st # "none"
IsDone(w) ==
  /\ pc'[w] = "commit" /\ Ahead(loc[w], loc'[w])
  /\ out'[w] = "waiting_approval" => \E a \in Approvals : RequestApproval(w, a)
  /\ loc'[w].reason = "execution_unknown" => loc[w].reason = "execution_unknown" \/ InDoubt(w)
Others(w) ==
  \A v \in Workers \ {w} : pc'[v] = pc[v] /\ loc'[v] = loc[v] /\ out'[v] = out[v]

LEMMA WorkersMove ==
  ASSUME Typed, NEW w \in Workers, WorkerStep(w), ~Checkpoint(w)
  PROVE  /\ run' = run /\ rec' = rec /\ cur' = cur
         /\ pc[w] \notin {"idle", "commit"} /\ Others(w)
         /\ GoesOn(w) \/ IsDone(w)
  <1> DEFINE Goal == cur' = cur /\ Others(w) /\ (GoesOn(w) \/ IsDone(w))
  <1>0. pc[w] \notin {"idle", "commit"} /\ UNCHANGED <<run, rec>>
    BY DEF WorkerStep, Begin, Blocked, Reply, Verify, EndBatch, AskInput, Refuse, DecisionMismatch,
           RequestApproval, Permit, Journal, BeforeExecute, Execute, ExecuteRaises, Record
  <1> SUFFICES Goal
    BY <1>0
  <1>s. /\ loc[w] \in States /\ loc[w] \in GoodStates /\ loc[w].round \in Nat /\ loc[w].idx \in Nat
        /\ Ahead(loc[w], loc[w])
    <2>1. loc[w] \in States /\ loc[w] \in GoodStates
      BY DEF Typed, WorkerTyped, GoodStates
    <2> QED
      BY <2>1, AheadFacts
  <1>f. ASSUME NEW x, NEW status, Finish(w, x, status), Ahead(loc[w], x),
               status # "waiting_approval",
               x.reason = "execution_unknown" => loc[w].reason = "execution_unknown"
        PROVE  Goal
    <2>1. /\ pc'[w] = "commit" /\ loc'[w] = x /\ out'[w] = status /\ cur' = cur
          /\ Others(w)
      BY <1>f DEF Finish, Others, Typed, WorkerTyped
    <2> QED
      BY <1>f, <2>1 DEF IsDone
  <1>g. ASSUME NEW place, place \notin {"idle", "commit"}, GoTo(w, place) PROVE Goal
    BY <1>g DEF GoTo, GoesOn, Others, Typed, WorkerTyped
  <1>r. ASSUME NEW status, NEW reason, reason # "execution_unknown", status # "waiting_approval",
               Finish(w, [loc[w] EXCEPT !.reason = reason], status)
        PROVE  Goal
    <2>1. Ahead(loc[w], [loc[w] EXCEPT !.reason = reason])
          /\ [loc[w] EXCEPT !.reason = reason].reason = reason
      BY <1>s DEF States, Ahead
    <2> QED
      BY <1>f, <1>r, <2>1
  <1>p. ASSUME NEW status, NEW p, status # "waiting_approval",
               Finish(w, [loc[w] EXCEPT !.phase = p], status)
        PROVE  Goal
    <2>1. Ahead(loc[w], [loc[w] EXCEPT !.phase = p])
          /\ [loc[w] EXCEPT !.phase = p].reason = loc[w].reason
      BY <1>s DEF States, Ahead
    <2> QED
      BY <1>f, <1>p, <2>1
  <1>c. ASSUME NEW ok, Consume(w, ok) PROVE Goal
    <2> DEFINE x(status) == [Consumed(loc[w], ok) EXCEPT !.reason = WhyStopped(loc[w], status)]
    <2>1. PICK status \in {"queued", "paused", "waiting_input"} : Finish(w, x(status), status)
      BY <1>c DEF Consume
    <2>2. /\ x(status).round = loc[w].round /\ x(status).queue = loc[w].queue
          /\ x(status).idx = loc[w].idx + 1 /\ x(status).reason = WhyStopped(loc[w], status)
      BY <1>s DEF Consumed, Counted, States
    <2>3. Ahead(loc[w], x(status))
      <3> HIDE DEF x
      <3> QED
        BY <1>s, <2>2 DEF Ahead
    <2>4. x(status).reason = "execution_unknown" => loc[w].reason = "execution_unknown"
      BY <2>2 DEF WhyStopped
    <2>5. status # "waiting_approval"
      OBVIOUS
    <2> HIDE DEF x
    <2> QED
      BY <1>f, <2>1, <2>3, <2>4, <2>5
  <1>1. CASE Begin(w)
    BY <1>1, <1>f, <1>g, <1>s DEF Begin
  <1>2. CASE Blocked(w)
    BY <1>2, <1>r DEF Blocked
  <1>3. CASE Reply(w)
    <2> DEFINE s == [loc[w] EXCEPT !.round = NextRound(@)]
    <2>0. /\ NextRound(loc[w].round) \in {loc[w].round, loc[w].round + 1}
          /\ loc[w].round < MaxRounds => NextRound(loc[w].round) = loc[w].round + 1
      BY <1>s, ConstantsAssumption DEF NextRound
    <2>1. /\ s.round = NextRound(loc[w].round) /\ s.queue = loc[w].queue /\ s.idx = loc[w].idx
          /\ s.reason = loc[w].reason /\ s \in [phase : {loc[w].phase}, round : {s.round},
              queue : {s.queue}, idx : {s.idx}, failures : {s.failures}, decisions : {s.decisions},
              approval : {s.approval}, reason : {s.reason}]
      BY <1>s DEF States
    <2>2. Ahead(loc[w], s)
      <3> HIDE DEF s
      <3> QED
        BY <1>s, <2>0, <2>1 DEF Ahead
    <2>3. /\ Ahead(loc[w], [s EXCEPT !.reason = "blocked"])
          /\ [s EXCEPT !.reason = "blocked"].reason = "blocked"
          /\ \A p : Ahead(loc[w], [s EXCEPT !.phase = p])
                    /\ [s EXCEPT !.phase = p].reason = loc[w].reason
      <3> HIDE DEF s
      <3> QED
        BY <2>1, <2>2 DEF Ahead
    <2>4. \A q : /\ [s EXCEPT !.phase = "tools", !.queue = q, !.idx = 0].round = s.round
                 /\ [s EXCEPT !.phase = "tools", !.queue = q, !.idx = 0].reason = loc[w].reason
      <3> HIDE DEF s
      <3> QED
        BY <2>1
    <2>5. loc[w].round < MaxRounds =>
            \A q : Ahead(loc[w], [s EXCEPT !.phase = "tools", !.queue = q, !.idx = 0])
      <3> HIDE DEF s
      <3> QED
        BY <1>s, <2>0, <2>1, <2>4 DEF Ahead
    <2>6. \/ Finish(w, loc[w], "cancelled")
          \/ loc[w].round < MaxRounds
             /\ \E q : Finish(w, [s EXCEPT !.phase = "tools", !.queue = q, !.idx = 0], "queued")
          \/ Finish(w, s, "queued") \/ Finish(w, s, "failed")
          \/ Finish(w, [s EXCEPT !.reason = "blocked"], "paused")
          \/ \E p : Finish(w, [s EXCEPT !.phase = p], "queued")
      BY <1>3, ZenonT(30) DEF Reply
    <2> HIDE DEF s
    <2>7. CASE Finish(w, loc[w], "cancelled")
      BY <2>7, <1>f, <1>s
    <2>8. ASSUME NEW q, loc[w].round < MaxRounds,
                 Finish(w, [s EXCEPT !.phase = "tools", !.queue = q, !.idx = 0], "queued")
          PROVE  Goal
      BY <2>8, <2>4, <2>5, <1>f
    <2>9. CASE Finish(w, s, "queued") \/ Finish(w, s, "failed")
      BY <2>9, <2>1, <2>2, <1>f
    <2>10. CASE Finish(w, [s EXCEPT !.reason = "blocked"], "paused")
      BY <2>10, <2>3, <1>f
    <2>11. CASE \E p : Finish(w, [s EXCEPT !.phase = p], "queued")
      BY <2>11, <2>3, <1>f
    <2> QED
      BY <2>6, <2>7, <2>8, <2>9, <2>10, <2>11
  <1>4. CASE Verify(w)
    BY <1>4, <1>f, <1>p, <1>r, <1>s DEF Verify
  <1>5. CASE EndBatch(w)
    BY <1>5, <1>p DEF EndBatch
  <1>6. CASE AskInput(w)
    <2>1. /\ Ahead(loc[w], [loc[w] EXCEPT !.idx = @ + 1])
          /\ [loc[w] EXCEPT !.idx = @ + 1].reason = loc[w].reason
          /\ Ahead(loc[w], [loc[w] EXCEPT !.idx = @ + 1, !.reason = "blocked"])
          /\ [loc[w] EXCEPT !.idx = @ + 1, !.reason = "blocked"].reason = "blocked"
      BY <1>s DEF States, Ahead
    <2> QED
      BY <1>6, <1>f, <2>1 DEF AskInput
  <1>7. CASE Refuse(w)
    BY <1>7, <1>c DEF Refuse
  <1>8. CASE DecisionMismatch(w)
    BY <1>8, <1>r DEF DecisionMismatch
  <1>9. CASE \E a \in Approvals : RequestApproval(w, a)
    <2>1. PICK a \in Approvals : RequestApproval(w, a)
      BY <1>9
    <2>2. Finish(w, [loc[w] EXCEPT !.approval = a], "waiting_approval")
      BY <2>1 DEF RequestApproval
    <2>3. /\ [loc[w] EXCEPT !.approval = a].reason = loc[w].reason
          /\ Ahead(loc[w], [loc[w] EXCEPT !.approval = a])
      BY <1>s DEF States, Ahead
    <2>4. /\ pc'[w] = "commit" /\ loc'[w] = [loc[w] EXCEPT !.approval = a] /\ cur' = cur
          /\ Others(w)
      BY <2>2 DEF Finish, Others, Typed, WorkerTyped
    <2> QED
      BY <1>9, <2>3, <2>4 DEF IsDone
  <1>10. CASE Permit(w)
    BY <1>10, <1>f, <1>g, <1>s DEF Permit
  <1>11. CASE Journal(w)
    <2>1. CASE GoTo(w, "started")
      BY <2>1, <1>g
    <2>2. CASE \E ok : Consume(w, ok)
      BY <2>2, <1>c
    <2>3. CASE /\ steps[cur[w]][Key(loc[w])].st = "started"
               /\ Finish(w, [loc[w] EXCEPT !.reason = "execution_unknown"], "paused")
      <3>1. Ahead(loc[w], [loc[w] EXCEPT !.reason = "execution_unknown"])
        BY <1>s DEF States, Ahead
      <3>2. /\ pc'[w] = "commit" /\ loc'[w] = [loc[w] EXCEPT !.reason = "execution_unknown"]
            /\ out'[w] = "paused" /\ cur' = cur /\ Others(w)
        BY <2>3 DEF Finish, Others, Typed, WorkerTyped
      <3>3. InDoubt(w)
        BY <1>11, <2>3, <3>2 DEF InDoubt, Journal
      <3> QED
        BY <3>1, <3>2, <3>3 DEF IsDone
    <2> QED
      BY <1>11, <2>1, <2>2, <2>3 DEF Journal
  <1>12. CASE BeforeExecute(w)
    BY <1>12, <1>f, <1>g, <1>s DEF BeforeExecute
  <1>13. CASE Execute(w)
    BY <1>13 DEF Execute, GoesOn, Others, Typed, WorkerTyped
  <1>14. CASE ExecuteRaises(w)
    BY <1>14, <1>r DEF ExecuteRaises
  <1>15. CASE Record(w)
    BY <1>15, <1>c DEF Record
  <1> QED
    BY <1>1, <1>2, <1>3, <1>4, <1>5, <1>6, <1>7, <1>8, <1>9, <1>10, <1>11, <1>12, <1>13,
       <1>14, <1>15 DEF WorkerStep

LEMMA EntriesStayNext == Typed /\ [Next]_vars => EntriesStay
  <1> SUFFICES ASSUME Typed, [Next]_vars PROVE EntriesStay
    OBVIOUS
  <1>1. ASSUME NEW w \in Workers, Journal(w) PROVE EntriesStay
    <2>1. cur[w] \in Runs /\ Key(loc[w]) \in Keys
      BY <1>1, KeyInKeys DEF Journal, Typed, WorkerTyped, AtTool
    <2>2. CASE steps' = steps
      BY <2>2 DEF EntriesStay
    <2>3. CASE /\ steps[cur[w]][Key(loc[w])].st = "none"
               /\ steps' = [steps EXCEPT ![cur[w]][Key(loc[w])] =
                              [st |-> "started", call |-> Call(loc[w]), ok |-> FALSE]]
      BY <2>1, <2>3 DEF EntriesStay, Typed, StepsTyped
    <2> QED
      BY <1>1, <2>2, <2>3 DEF Journal, MayStart
  <1>2. ASSUME NEW w \in Workers, Execute(w) PROVE EntriesStay
    BY <1>2 DEF Execute, EntriesStay
  <1> QED
    BY <1>1, <1>2, QuietSteps

-----------------------------------------------------------------------------
(* A doubtful step can be settled.  UnknownIsReconcilable is not inductive:  *)
(* the doubt is met at the journal, kept in the worker's copy until the      *)
(* check-in, and must not travel back into a run that goes on working.       *)

Unknown(s) == s.reason = "execution_unknown"
\* The journal has an entry for the call that the state stands at.
Entered(r, s) == InBatch(s) /\ steps[r][Key(s)].st # "none"

RowsInDoubt ==
  \A r \in Runs : Unknown(run[r].st) =>
    run[r].status \in {"paused", "cancelled"} /\ Entered(r, run[r].st)
WorkersInDoubt ==
  \A w \in Workers : pc[w] # "idle" /\ Unknown(loc[w]) =>
    pc[w] = "commit" /\ out[w] = "paused" /\ Entered(cur[w], loc[w])
Doubts == RowsInDoubt /\ WorkersInDoubt

LEMMA EnteredStays ==
  ASSUME EntriesStay, NEW r \in Runs, NEW s \in GoodStates, Entered(r, s)
  PROVE  InBatch(s) /\ steps'[r][Key(s)].st # "none"
  BY KeyInKeys DEF Entered, EntriesStay

\* A step that leaves the doubtful rows alone, and makes no other row doubtful.
DoubtsRest ==
  \A r \in Runs : Unknown(run'[r].st) =>
    /\ run'[r].st = run[r].st
    /\ run[r].status \in {"paused", "cancelled"} => run'[r].status \in {"paused", "cancelled"}

LEMMA RequestsMakeNoDoubt ==
  ASSUME Typed, RowsInDoubt, Requests
  PROVE  DoubtsRest
  <1> USE DEF DoubtsRest, Unknown, RowsInDoubt, Typed
  <1>0. \A r \in Runs : run[r] \in Rows /\ run[r].st \in States
    BY DEF RunTyped, Rows, GoodStates
  <1>e. \A r \in Runs : /\ Expired(r).status = "paused"
                        /\ Expired(r).st.reason = "approval_expired"
    BY <1>0 DEF Expired, Rows, States
  <1>1. ASSUME NEW r \in Runs, Create(r) PROVE DoubtsRest
    BY <1>0, <1>1 DEF Create, RunTyped, Rows
  <1>2. ASSUME NEW r \in Runs, Cancel(r) PROVE DoubtsRest
    BY <1>0, <1>2 DEF Cancel, StoppedStatus, RunTyped, Rows
  <1>3. ASSUME NEW r \in Runs, Resume(r) PROVE DoubtsRest
    <2>1. /\ run'[r].st = [run[r].st EXCEPT !.reason = "none"]
          /\ \A x \in Runs \ {r} : run'[x] = run[x]
      BY <1>0, <1>3 DEF Resume, RunTyped, Rows
    <2>2. run'[r].st.reason = "none"
      BY <1>0, <2>1 DEF States
    <2> QED
      BY <2>1, <2>2
  <1>4. ASSUME NEW r \in Runs, ScriptInputLost(r) PROVE DoubtsRest
    <2>1. /\ run'[r].st = [run[r].st EXCEPT !.reason = "script_input_unavailable"]
          /\ \A x \in Runs \ {r} : run'[x] = run[x]
      BY <1>0, <1>4 DEF ScriptInputLost, RunTyped, Rows
    <2>2. run'[r].st.reason = "script_input_unavailable"
      BY <1>0, <2>1 DEF States
    <2> QED
      BY <2>1, <2>2
  <1>5. ASSUME NEW a \in Approvals, NEW ok \in BOOLEAN, Resolve(a, ok) PROVE DoubtsRest
    <2> DEFINE r == approvals[a].run
               d == {[key |-> c.key, call |-> c.call, ok |-> ok] : c \in approvals[a].calls}
    <2>1. r \in Runs /\ run[r].status = "waiting_approval"
      BY <1>5 DEF Resolve, ApprovalsTyped
    <2>2. run' = [run EXCEPT ![r].status = "queued", ![r].st.approval = None, ![r].st.decisions = d]
      BY <1>5 DEF Resolve
    <2> HIDE DEF d, r
    <2>3. /\ run'[r].st = [run[r].st EXCEPT !.approval = None, !.decisions = d]
          /\ \A x \in Runs \ {r} : run'[x] = run[x]
      BY <1>0, <2>1, <2>2 DEF RunTyped, Rows
    <2>4. run'[r].st.reason = run[r].st.reason
      BY <1>0, <2>1, <2>3 DEF States
    <2>5. run[r].st.reason # "execution_unknown"
      BY <2>1
    <2> QED
      BY <2>3, <2>4, <2>5
  <1>6. CASE ExpireApprovals
    BY <1>6, <1>e DEF ExpireApprovals
  <1>7. ASSUME NEW a \in Approvals, ExpireOne(a) PROVE DoubtsRest
    <2>1. approvals[a].run \in Runs
      BY <1>7 DEF ExpireOne, Due, ApprovalsTyped
    <2> QED
      BY <1>7, <1>e, <2>1 DEF ExpireOne, RunTyped
  <1> QED
    BY <1>1, <1>2, <1>3, <1>4, <1>5, <1>6, <1>7 DEF Requests

LEMMA DoubtsNext ==
  ASSUME Typed, Doubts, [Next]_vars
  PROVE  Doubts'
  <1> USE DEF Typed
  <1>0. /\ \A r \in Runs : run[r] \in Rows /\ run[r].st \in GoodStates /\ run[r].st \in States
        /\ \A w \in Workers : loc[w] \in GoodStates /\ (pc[w] # "idle" => cur[w] \in Runs)
    BY DEF RunTyped, Rows, WorkerTyped, GoodStates
  <1>a. EntriesStay
    BY EntriesStayNext
  <1>r. ASSUME DoubtsRest PROVE RowsInDoubt'
    <2> SUFFICES ASSUME NEW r \in Runs, Unknown(run'[r].st)
                 PROVE  /\ run'[r].status \in {"paused", "cancelled"}
                        /\ InBatch(run'[r].st) /\ steps'[r][Key(run'[r].st)].st # "none"
      BY DEF RowsInDoubt, Unknown, Entered, InBatch, Key
    <2>1. run'[r].st = run[r].st /\ run'[r].status \in {"paused", "cancelled"} /\ Entered(r, run[r].st)
      BY <1>r DEF DoubtsRest, Doubts, RowsInDoubt, Unknown
    <2>2. InBatch(run[r].st) /\ steps'[r][Key(run[r].st)].st # "none"
      BY <1>0, <1>a, <2>1, EnteredStays
    <2> QED
      BY <2>1, <2>2
  <1>w. ASSUME NEW w \in Workers, pc'[w] = pc[w], cur'[w] = cur[w], loc'[w] = loc[w], out'[w] = out[w]
        PROVE  pc'[w] # "idle" /\ Unknown(loc'[w]) =>
                 pc'[w] = "commit" /\ out'[w] = "paused" /\ Entered(cur[w], loc[w])'
    <2> SUFFICES ASSUME pc[w] # "idle", Unknown(loc[w])
                 PROVE  pc[w] = "commit" /\ out[w] = "paused" /\ Entered(cur[w], loc[w])'
      BY <1>w
    <2>1. pc[w] = "commit" /\ out[w] = "paused" /\ Entered(cur[w], loc[w])
      BY DEF Doubts, WorkersInDoubt
    <2>2. InBatch(loc[w]) /\ steps'[cur[w]][Key(loc[w])].st # "none"
      BY <1>0, <1>a, <2>1, EnteredStays
    <2> QED
      BY <1>w, <2>1, <2>2 DEF Entered, InBatch, Key
  <1>v. ASSUME UNCHANGED worker PROVE WorkersInDoubt'
    BY <1>v, <1>w DEF worker, WorkersInDoubt, Unknown
  <1>1. CASE Requests
    <2>1. UNCHANGED worker
      BY <1>1 DEF Requests, Create, Cancel, Resume, ScriptInputLost, Resolve, ExpireApprovals, ExpireOne
    <2> QED
      BY <1>1, <2>1, <1>r, <1>v, RequestsMakeNoDoubt DEF Doubts
  <1>2. CASE \/ \E a \in Admins, r \in Runs : ReconcileRead(a, r)
             \/ \E a \in Approvals : ApprovalFallsDue(a)
             \/ UNCHANGED vars
    <2>1. UNCHANGED worker /\ run' = run
      BY <1>2 DEF ReconcileRead, ApprovalFallsDue, vars, worker
    <2> QED
      BY <2>1, <1>r, <1>v DEF Doubts, DoubtsRest
  <1>3. ASSUME NEW w \in Workers, WorkerStep(w), ~Checkpoint(w) PROVE Doubts'
    <2>1. /\ run' = run /\ cur' = cur /\ pc[w] \notin {"idle", "commit"} /\ Others(w)
          /\ GoesOn(w) \/ IsDone(w)
      BY <1>3, WorkersMove
    <2>2. RowsInDoubt'
      BY <2>1, <1>r DEF DoubtsRest
    <2>3. ~Unknown(loc[w])
      BY <2>1 DEF Doubts, WorkersInDoubt
    <2>4. Unknown(loc'[w]) => /\ pc'[w] = "commit" /\ out'[w] = "paused" /\ InDoubt(w)
                              /\ loc'[w] = [loc[w] EXCEPT !.reason = "execution_unknown"]
      BY <2>1, <2>3 DEF GoesOn, IsDone, InDoubt, Unknown
    <2>5. ASSUME Unknown(loc'[w]) PROVE Entered(cur[w], loc[w])'
      <3>1. InBatch(loc[w]) /\ Entered(cur[w], loc[w])
        BY <2>4, <2>5 DEF InDoubt, WorkerTyped, AtTool, Entered
      <3>2. steps'[cur[w]][Key(loc[w])].st # "none"
        BY <1>0, <1>a, <2>1, <3>1, EnteredStays
      <3>3. loc[w] \in States /\ loc'[w] = [loc[w] EXCEPT !.reason = "execution_unknown"]
        BY <1>0, <2>4, <2>5 DEF GoodStates
      <3>4. /\ loc'[w].phase = loc[w].phase /\ loc'[w].round = loc[w].round
            /\ loc'[w].queue = loc[w].queue /\ loc'[w].idx = loc[w].idx
        BY <3>3 DEF States
      <3> QED
        BY <2>1, <3>1, <3>2, <3>4 DEF Entered, InBatch, Key
    <2>6. \A v \in Workers \ {w} : pc'[v] # "idle" /\ Unknown(loc'[v]) =>
                 pc'[v] = "commit" /\ out'[v] = "paused" /\ Entered(cur[v], loc[v])'
      BY <2>1, <1>w DEF Others
    <2>7. WorkersInDoubt'
      BY <2>4, <2>5, <2>6 DEF WorkersInDoubt, Unknown
    <2> QED
      BY <2>2, <2>7 DEF Doubts
  <1>4. ASSUME NEW a \in Admins, NEW k \in Keys, NEW ok \in BOOLEAN, ReconcileWrite(a, k, ok)
        PROVE  Doubts'
    <2>1. rec[a].run \in Runs /\ rec[a].st \in States
      BY <1>4 DEF ReconcileWrite, RecTyped, GoodStates
    <2> DEFINE s == [rec[a].st EXCEPT !.reason = "none"]
    <2>2. run' = run \/ run' = [run EXCEPT ![rec[a].run].status = "queued", ![rec[a].run].st = s]
      BY <1>4 DEF ReconcileWrite
    <2>3. s.reason = "none"
      BY <2>1 DEF States
    <2> HIDE DEF s
    <2>4. DoubtsRest
      BY <1>0, <2>1, <2>2, <2>3 DEF DoubtsRest, Unknown, RunTyped, Rows
    <2> QED
      BY <1>4, <2>4, <1>r, <1>v DEF ReconcileWrite, Doubts
  <1>5. ASSUME NEW w \in Workers, Checkpoint(w) PROVE Doubts'
    <2>1. /\ pc[w] = "commit" /\ cur[w] \in Runs /\ pc'[w] = "idle"
          /\ \A v \in Workers \ {w} : pc'[v] = pc[v] /\ cur'[v] = cur[v] /\ loc'[v] = loc[v] /\ out'[v] = out[v]
      BY <1>0, <1>5 DEF Checkpoint, WorkerTyped
    <2>2. \A v \in Workers \ {w} : pc'[v] # "idle" /\ Unknown(loc'[v]) =>
                 pc'[v] = "commit" /\ out'[v] = "paused" /\ Entered(cur[v], loc[v])'
      BY <2>1, <1>w
    <2>3. WorkersInDoubt'
      BY <2>1, <2>2 DEF WorkersInDoubt, Unknown
    <2>4. CASE ~Owns(w, cur[w])
      BY <1>5, <2>3, <2>4, <1>r DEF Checkpoint, Doubts, DoubtsRest
    <2>5. CASE Owns(w, cur[w])
      <3>1. /\ run'[cur[w]].st = loc[w] /\ run'[cur[w]].status = CheckedInStatus(w, cur[w])
            /\ \A r \in Runs \ {cur[w]} : run'[r] = run[r]
        BY <1>0, <1>5, <2>1, <2>5 DEF Checkpoint, RunTyped, Rows
      <3>2. RowsInDoubt'
        <4> SUFFICES ASSUME NEW r \in Runs, Unknown(run'[r].st)
                     PROVE  /\ run'[r].status \in {"paused", "cancelled"}
                            /\ InBatch(run'[r].st) /\ steps'[r][Key(run'[r].st)].st # "none"
          BY DEF RowsInDoubt, Unknown, Entered, InBatch, Key
        <4>1. CASE r = cur[w]
          <5>1. out[w] = "paused" /\ Entered(cur[w], loc[w])
            BY <2>1, <3>1, <4>1 DEF Doubts, WorkersInDoubt, Unknown
          <5>2. InBatch(loc[w]) /\ steps'[cur[w]][Key(loc[w])].st # "none"
            BY <1>0, <1>a, <2>1, <5>1, EnteredStays
          <5> QED
            BY <3>1, <4>1, <5>1, <5>2 DEF CheckedInStatus
        <4>2. CASE r # cur[w]
          <5>1. run'[r] = run[r] /\ run[r].status \in {"paused", "cancelled"} /\ Entered(r, run[r].st)
            BY <3>1, <4>2 DEF Doubts, RowsInDoubt, Unknown
          <5>2. InBatch(run[r].st) /\ steps'[r][Key(run[r].st)].st # "none"
            BY <1>0, <1>a, <5>1, EnteredStays
          <5> QED
            BY <5>1, <5>2
        <4> QED
          BY <4>1, <4>2
      <3> QED
        BY <2>3, <3>2 DEF Doubts
    <2> QED
      BY <2>4, <2>5
  <1>6. ASSUME NEW w \in Workers, Heartbeat(w) PROVE Doubts'
    <2>1. cur[w] \in Runs /\ UNCHANGED worker
      BY <1>0, <1>6 DEF Heartbeat
    <2>2. DoubtsRest
      BY <1>0, <1>6, <2>1 DEF Heartbeat, DoubtsRest, RunTyped, Rows
    <2> QED
      BY <2>1, <2>2, <1>r, <1>v DEF Doubts
  <1>7. ASSUME NEW w \in Workers, NEW r \in Runs, Claim(w, r) PROVE Doubts'
    <2>1. /\ run' = [run EXCEPT ![r].status = "running", ![r].owner = w, ![r].lease = "live"]
          /\ run[r].status \in {"queued", "running"}
      BY <1>7 DEF Claim, Claimable, Recoverable
    <2>2. ~Unknown(run[r].st)
      BY <2>1 DEF Doubts, RowsInDoubt
    <2>3. run'[r].st = run[r].st /\ \A x \in Runs \ {r} : run'[x] = run[x]
      BY <1>0, <2>1 DEF RunTyped, Rows
    <2>4. DoubtsRest
      BY <2>2, <2>3 DEF DoubtsRest, Unknown
    <2>5. /\ loc'[w] = run[r].st
          /\ \A v \in Workers \ {w} : pc'[v] = pc[v] /\ cur'[v] = cur[v] /\ loc'[v] = loc[v] /\ out'[v] = out[v]
      BY <1>7 DEF Claim, WorkerTyped
    <2>6. \A v \in Workers \ {w} : pc'[v] # "idle" /\ Unknown(loc'[v]) =>
                 pc'[v] = "commit" /\ out'[v] = "paused" /\ Entered(cur[v], loc[v])'
      BY <2>5, <1>w
    <2>7. WorkersInDoubt'
      BY <2>2, <2>5, <2>6 DEF WorkersInDoubt, Unknown
    <2> QED
      BY <2>4, <2>7, <1>r DEF Doubts
  <1>8. ASSUME NEW r \in Runs, LeaseLapses(r) PROVE Doubts'
    <2>1. DoubtsRest
      BY <1>0, <1>8 DEF LeaseLapses, DoubtsRest, RunTyped, Rows
    <2> QED
      BY <1>8, <2>1, <1>r, <1>v DEF Doubts, LeaseLapses
  <1>9. CASE Crash
    <2>1. DoubtsRest
      BY <1>0, <1>9 DEF Crash, DoubtsRest, Rows
    <2>2. WorkersInDoubt'
      BY <1>9 DEF Crash, WorkersInDoubt
    <2> QED
      BY <2>1, <2>2, <1>r DEF Doubts
  <1> QED
    BY <1>1, <1>2, <1>3, <1>4, <1>5, <1>6, <1>7, <1>8, <1>9, Cases DEF Elsewhere

LEMMA DoubtsInit == Init => Doubts
  BY DEF Init, Doubts, RowsInDoubt, WorkersInDoubt, NoRun, NewState, Unknown

\* journal() and reconcile(): a run that stopped because nobody knows what a step
\* did has the entry of that very step, so the administrator's answer finds it.
THEOREM DoubtCanBeSettled == Spec => []UnknownIsReconcilable
  <1>1. Typed /\ Doubts /\ [Next]_vars => Doubts'
    BY DoubtsNext
  <1>2. Doubts => UnknownIsReconcilable
    BY DEF Doubts, RowsInDoubt, Unknown, Entered, UnknownIsReconcilable
  <1> QED
    BY <1>1, <1>2, InitTyped, TypedNext, DoubtsInit, PTL DEF Spec

-----------------------------------------------------------------------------
(* The position does not move back.  Whoever may still write a run's state,  *)
(* its owner or the administrator who read it, holds one that is not behind. *)

SameSpot(s, t) == s.round = t.round /\ s.queue = t.queue /\ s.idx = t.idx
\* A step that does not touch the positions, nor the owners.
SpotsRest == \A r \in Runs : SameSpot(run'[r].st, run[r].st) /\ run'[r].owner = run[r].owner

OwnersAhead ==
  \A w \in Workers : pc[w] # "idle" /\ Owns(w, cur[w]) => Ahead(run[cur[w]].st, loc[w])
ReadersAhead ==
  \A a \in Admins : rec[a] # NoRequest => Ahead(run[rec[a].run].st, rec[a].st)
Forward == OwnersAhead /\ ReadersAhead
NoneBack == \A r \in Runs : Ahead(run[r].st, run'[r].st)

LEMMA SpotsAhead ==
  ASSUME NEW s \in States, NEW t, NEW u, SameSpot(t, s)
  PROVE  Ahead(s, t) /\ (Ahead(s, u) => Ahead(t, u))
  BY AheadFacts DEF SameSpot, Ahead

LEMMA RequestsStandStill ==
  ASSUME Typed, Requests
  PROVE  SpotsRest
  <1> USE DEF SpotsRest, SameSpot, Typed
  <1>0. \A r \in Runs : run[r] \in Rows /\ run[r].st \in States
    BY DEF RunTyped, Rows, GoodStates
  <1>e. \A r \in Runs : Expired(r).owner = run[r].owner /\ SameSpot(Expired(r).st, run[r].st)
    BY <1>0 DEF Expired, Rows, States
  <1>1. ASSUME NEW r \in Runs, Create(r) PROVE SpotsRest
    BY <1>0, <1>1 DEF Create, RunTyped, Rows
  <1>2. ASSUME NEW r \in Runs, Cancel(r) PROVE SpotsRest
    BY <1>0, <1>2 DEF Cancel, RunTyped, Rows
  <1>a. ASSUME NEW r \in Runs, NEW status, NEW reason,
               run' = [run EXCEPT ![r].status = status, ![r].st.reason = reason]
        PROVE  SpotsRest
    <2>1. /\ run'[r].st = [run[r].st EXCEPT !.reason = reason] /\ run'[r].owner = run[r].owner
          /\ \A x \in Runs \ {r} : run'[x] = run[x]
      BY <1>0, <1>a DEF RunTyped, Rows
    <2>2. SameSpot(run'[r].st, run[r].st)
      BY <1>0, <2>1 DEF States
    <2> QED
      BY <2>1, <2>2
  <1>3. ASSUME NEW r \in Runs, Resume(r) \/ ScriptInputLost(r) PROVE SpotsRest
    BY <1>3, <1>a DEF Resume, ScriptInputLost
  <1>5. ASSUME NEW a \in Approvals, NEW ok \in BOOLEAN, Resolve(a, ok) PROVE SpotsRest
    <2> DEFINE r == approvals[a].run
               d == {[key |-> c.key, call |-> c.call, ok |-> ok] : c \in approvals[a].calls}
    <2>1. r \in Runs
      BY <1>5 DEF Resolve, ApprovalsTyped
    <2>2. run' = [run EXCEPT ![r].status = "queued", ![r].st.approval = None, ![r].st.decisions = d]
      BY <1>5 DEF Resolve
    <2> HIDE DEF d, r
    <2>3. /\ run'[r].st = [run[r].st EXCEPT !.approval = None, !.decisions = d]
          /\ run'[r].owner = run[r].owner /\ \A x \in Runs \ {r} : run'[x] = run[x]
      BY <1>0, <2>1, <2>2 DEF RunTyped, Rows
    <2>4. SameSpot(run'[r].st, run[r].st)
      BY <1>0, <2>1, <2>3 DEF States
    <2> QED
      BY <2>3, <2>4
  <1>6. CASE ExpireApprovals
    BY <1>6, <1>e DEF ExpireApprovals
  <1>7. ASSUME NEW a \in Approvals, ExpireOne(a) PROVE SpotsRest
    <2>1. approvals[a].run \in Runs
      BY <1>7 DEF ExpireOne, Due, ApprovalsTyped
    <2> QED
      BY <1>7, <1>e, <2>1 DEF ExpireOne, RunTyped
  <1> QED
    BY <1>1, <1>2, <1>3, <1>5, <1>6, <1>7 DEF Requests

LEMMA ForwardNext ==
  ASSUME OneAdmin, Typed, Custody, Forward, [Next]_vars
  PROVE  Forward' /\ NoneBack
  <1> USE DEF Typed
  <1>0. /\ \A r \in Runs : run[r] \in Rows /\ run[r].st \in States /\ Ahead(run[r].st, run[r].st)
        /\ \A w \in Workers : loc[w] \in States /\ w # None /\ (pc[w] # "idle" => cur[w] \in Runs)
        /\ \A a \in Admins : rec[a].st \in States /\ (rec[a] # NoRequest => rec[a].run \in Runs)
    <2>1. /\ \A r \in Runs : run[r] \in Rows /\ run[r].st \in States
          /\ \A w \in Workers : loc[w] \in States /\ w # None /\ (pc[w] # "idle" => cur[w] \in Runs)
          /\ \A a \in Admins : rec[a].st \in States /\ (rec[a] # NoRequest => rec[a].run \in Runs)
      BY ConstantsAssumption DEF RunTyped, Rows, WorkerTyped, GoodStates, RecTyped, None
    <2> QED
      BY <2>1, AheadFacts
  <1>f. /\ \A w \in Workers : pc[w] # "idle" /\ run[cur[w]].owner = w => Ahead(run[cur[w]].st, loc[w])
        /\ \A a \in Admins : rec[a] # NoRequest =>
             /\ Ahead(run[rec[a].run].st, rec[a].st)
             /\ run[rec[a].run].status \in {"paused", "cancelled"}
        /\ \A r \in Runs : run[r].status = "running" <=> run[r].owner # None
    BY DEF Forward, OwnersAhead, ReadersAhead, Owns, Custody, Held, Awaiting
  <1>s. ASSUME SpotsRest, UNCHANGED <<pc, cur, loc, rec>> PROVE Forward' /\ NoneBack
    <2>1. \A r \in Runs : SameSpot(run'[r].st, run[r].st) /\ run'[r].owner = run[r].owner
      BY <1>s DEF SpotsRest
    <2>2. \A r \in Runs : \A u : Ahead(run[r].st, u) => Ahead(run'[r].st, u)
      BY <2>1, <1>0, SpotsAhead
    <2>3. NoneBack
      BY <2>1, <1>0, SpotsAhead DEF NoneBack
    <2>4. OwnersAhead'
      BY <1>0, <1>f, <1>s, <2>1, <2>2 DEF OwnersAhead, Owns
    <2>5. ReadersAhead'
      BY <1>0, <1>f, <1>s, <2>2 DEF ReadersAhead
    <2> QED
      BY <2>3, <2>4, <2>5 DEF Forward
  <1>1. CASE Requests
    <2>1. UNCHANGED <<pc, cur, loc, rec>>
      BY <1>1 DEF Requests, Create, Cancel, Resume, ScriptInputLost, Resolve, ExpireApprovals, ExpireOne, worker
    <2> QED
      BY <1>1, <2>1, <1>s, RequestsStandStill
  <1>2. CASE (\E a \in Approvals : ApprovalFallsDue(a)) \/ UNCHANGED vars
    BY <1>2, <1>s DEF ApprovalFallsDue, vars, worker, SpotsRest, SameSpot
  <1>3. ASSUME NEW a \in Admins, NEW r \in Runs, ReconcileRead(a, r) PROVE Forward' /\ NoneBack
    <2>1. /\ rec'[a] = [run |-> r, st |-> run[r].st] /\ \A b \in Admins \ {a} : rec'[b] = rec[b]
          /\ UNCHANGED <<run, pc, cur, loc>>
      BY <1>3 DEF ReconcileRead, RecTyped, worker
    <2>2. ReadersAhead'
      BY <1>0, <1>f, <2>1 DEF ReadersAhead
    <2>3. OwnersAhead' /\ NoneBack
      BY <1>0, <1>f, <2>1 DEF OwnersAhead, Owns, NoneBack
    <2> QED
      BY <2>2, <2>3 DEF Forward
  <1>4. ASSUME NEW a \in Admins, NEW k \in Keys, NEW ok \in BOOLEAN, ReconcileWrite(a, k, ok)
        PROVE  Forward' /\ NoneBack
    <2> DEFINE s == [rec[a].st EXCEPT !.reason = "none"]
               r == rec[a].run
    <2>1. /\ r \in Runs /\ rec[a] # NoRequest /\ UNCHANGED <<pc, cur, loc>>
          /\ run[r].owner = None /\ Ahead(run[r].st, rec[a].st)
      BY <1>0, <1>4, <1>f DEF ReconcileWrite, worker
    <2>2. run' = run \/ run' = [run EXCEPT ![r].status = "queued", ![r].st = s]
      BY <1>4 DEF ReconcileWrite
    <2>3. SameSpot(s, rec[a].st)
      BY <1>0 DEF States, SameSpot
    <2>4. Ahead(run[r].st, s)
      <3> HIDE DEF s, r
      <3> QED
        BY <2>1, <2>3 DEF SameSpot, Ahead
    <2>5. \A b \in Admins : rec'[b] = NoRequest
      BY <1>4 DEF ReconcileWrite, OneAdmin, RecTyped
    <2> HIDE DEF s, r
    <2>6. \A x \in Runs : /\ run'[x].owner = run[x].owner
                          /\ run'[x].st = run[x].st \/ (x = r /\ run'[x].st = s)
      BY <1>0, <2>1, <2>2 DEF RunTyped, Rows
    <2>7. NoneBack
      BY <1>0, <2>4, <2>6 DEF NoneBack
    <2>8. OwnersAhead'
      BY <1>0, <1>f, <2>1, <2>6 DEF OwnersAhead, Owns
    <2>9. ReadersAhead'
      BY <2>5 DEF ReadersAhead, NoRequest
    <2> QED
      BY <2>7, <2>8, <2>9 DEF Forward
  <1>5. ASSUME NEW w \in Workers, Checkpoint(w) PROVE Forward' /\ NoneBack
    <2> DEFINE r == cur[w]
    <2>1. /\ r \in Runs /\ rec' = rec /\ pc[w] # "idle" /\ pc'[w] = "idle"
          /\ \A v \in Workers \ {w} : pc'[v] = pc[v] /\ cur'[v] = cur[v] /\ loc'[v] = loc[v]
      BY <1>0, <1>5 DEF Checkpoint, WorkerTyped
    <2>2. CASE ~Owns(w, r)
      <3>1. run' = run
        BY <1>5, <2>2 DEF Checkpoint
      <3> QED
        BY <1>0, <1>f, <2>1, <3>1 DEF Forward, OwnersAhead, ReadersAhead, NoneBack, Owns
    <2>3. CASE Owns(w, r)
      <3>1. /\ run'[r].st = loc[w] /\ run'[r].owner = None
            /\ \A x \in Runs \ {r} : run'[x] = run[x]
        BY <1>0, <1>5, <2>1, <2>3 DEF Checkpoint, RunTyped, Rows
      <3>2. run[r].owner = w /\ run[r].status = "running" /\ Ahead(run[r].st, loc[w])
        BY <1>0, <1>f, <2>1, <2>3 DEF Owns
      <3> HIDE DEF r
      <3>3. NoneBack
        BY <1>0, <3>1, <3>2 DEF NoneBack
      <3>4. OwnersAhead'
        BY <1>0, <1>f, <2>1, <3>1 DEF OwnersAhead, Owns
      <3>5. \A a \in Admins : rec[a] # NoRequest => rec[a].run # r
        BY <1>f, <3>2
      <3>6. ReadersAhead'
        BY <1>0, <1>f, <2>1, <3>1, <3>5 DEF ReadersAhead, NoRequest
      <3> QED
        BY <3>3, <3>4, <3>6 DEF Forward
    <2> QED
      BY <2>2, <2>3
  <1>6. ASSUME NEW w \in Workers, NEW r \in Runs, Claim(w, r) PROVE Forward' /\ NoneBack
    <2>1. /\ loc'[w] = run[r].st /\ cur'[w] = r /\ rec' = rec
          /\ \A v \in Workers \ {w} : pc'[v] = pc[v] /\ cur'[v] = cur[v] /\ loc'[v] = loc[v]
          /\ run' = [run EXCEPT ![r].status = "running", ![r].owner = w, ![r].lease = "live"]
      BY <1>6 DEF Claim, WorkerTyped
    <2>2. /\ run'[r].st = run[r].st /\ run'[r].owner = w
          /\ \A x \in Runs \ {r} : run'[x] = run[x]
      BY <1>0, <2>1 DEF RunTyped, Rows
    <2>3. \A x \in Runs : run'[x].st = run[x].st /\ (run'[x].owner = run[x].owner \/ x = r)
      BY <2>2
    <2>4. ASSUME NEW v \in Workers, pc'[v] # "idle", run'[cur'[v]].owner = v
          PROVE  Ahead(run'[cur'[v]].st, loc'[v])
      <3>1. CASE v = w
        BY <1>0, <2>1, <2>3, <3>1
      <3>2. CASE v # w
        <4>1. cur'[v] = cur[v] /\ pc[v] # "idle" /\ loc'[v] = loc[v] /\ cur[v] \in Runs /\ cur[v] # r
          BY <1>0, <2>1, <2>2, <2>4, <3>2
        <4> QED
          BY <1>f, <2>3, <2>4, <4>1
      <3> QED
        BY <3>1, <3>2
    <2>5. OwnersAhead'
      BY <2>4 DEF OwnersAhead, Owns
    <2>6. NoneBack
      BY <1>0, <2>3 DEF NoneBack
    <2>7. ReadersAhead'
      <3> SUFFICES ASSUME NEW a \in Admins, rec'[a] # NoRequest
                   PROVE  Ahead(run'[rec'[a].run].st, rec'[a].st)
        BY DEF ReadersAhead, NoRequest, NewState
      <3>1. rec[a] # NoRequest /\ rec' = rec
        BY <2>1
      <3>2. rec[a].run \in Runs /\ Ahead(run[rec[a].run].st, rec[a].st)
        BY <1>0, <1>f, <3>1
      <3> QED
        BY <2>3, <3>1, <3>2
    <2> QED
      BY <2>5, <2>6, <2>7 DEF Forward
  <1>7. CASE (\E r \in Runs : LeaseLapses(r)) \/ (\E w \in Workers : Heartbeat(w))
    <2>1. PICK r \in Runs, lease \in {"live", "lapsed"} : run' = [run EXCEPT ![r].lease = lease]
      BY <1>0, <1>7 DEF LeaseLapses, Heartbeat
    <2>2. SpotsRest
      BY <1>0, <2>1 DEF SpotsRest, SameSpot, RunTyped, Rows
    <2> QED
      BY <1>7, <2>2, <1>s DEF LeaseLapses, Heartbeat, worker
  <1>8. CASE Crash
    <2>1. \A r \in Runs : run'[r].st = run[r].st
      BY <1>0, <1>8 DEF Crash, Rows
    <2> QED
      BY <1>0, <1>8, <2>1 DEF Crash, Forward, OwnersAhead, ReadersAhead, NoneBack, NoRequest
  <1>9. ASSUME NEW w \in Workers, WorkerStep(w), ~Checkpoint(w) PROVE Forward' /\ NoneBack
    <2>1. /\ run' = run /\ rec' = rec /\ cur' = cur /\ pc[w] # "idle"
          /\ \A v \in Workers \ {w} : pc'[v] = pc[v] /\ loc'[v] = loc[v]
          /\ loc'[w] = loc[w] \/ Ahead(loc[w], loc'[w])
      BY <1>9, WorkersMove DEF Others, GoesOn, IsDone
    <2>2. loc'[w] \in States
      BY TypedNext DEF Typed, WorkerTyped, GoodStates
    <2>3. run[cur[w]].owner = w => Ahead(run[cur[w]].st, loc'[w])
      BY <1>0, <1>f, <2>1, <2>2, AheadFacts
    <2>4. OwnersAhead'
      BY <1>f, <2>1, <2>3 DEF OwnersAhead, Owns
    <2>5. ReadersAhead' /\ NoneBack
      BY <1>0, <1>f, <2>1 DEF ReadersAhead, NoneBack, NoRequest
    <2> QED
      BY <2>4, <2>5 DEF Forward
  <1> QED
    BY <1>1, <1>2, <1>3, <1>4, <1>5, <1>6, <1>7, <1>8, <1>9, Cases DEF Elsewhere

\* checkpoint() and reconcile(): with one administrator at a time, no late check-in
\* and no settled step puts an older position over a newer one, late heartbeats and
\* crashes included, so no step key is decided and acted upon a second time.
THEOREM PositionsOnlyAdvance == OneAdmin => (Spec => ProgressNeverRollsBack)
  <1> SUFFICES ASSUME OneAdmin PROVE Spec => ProgressNeverRollsBack
    OBVIOUS
  <1> DEFINE Inv == Typed /\ Custody /\ Forward
  <1>1. Init => Inv
    <2>1. Init => Forward
      BY DEF Init, Forward, OwnersAhead, ReadersAhead, NoRequest
    <2> QED
      BY <2>1, InitTyped, CustodyInit
  <1>2. Inv /\ [Next]_vars => Inv'
    BY TypedNext, CustodyNext, ForwardNext
  <1>3. Inv /\ [Next]_vars =>
          [\A r \in Runs : LET old == run[r].st  new == run'[r].st IN
             \/ old.round < new.round
             \/ old.round = new.round /\ old.queue = new.queue /\ old.idx <= new.idx]_vars
    BY ForwardNext DEF NoneBack, Ahead
  <1> QED
    BY <1>1, <1>2, <1>3, PTL DEF Spec, ProgressNeverRollsBack

-----------------------------------------------------------------------------
(* A recorded result stays.  A worker between its journal entry and the      *)
(* result is alone with the entry; if its heartbeat is never late the entry  *)
(* is still open, for it owns its run and reconcile() finds no run to settle. *)

Inside(w) == pc[w] \in {"started", "execute", "executed"}
Alone ==
  /\ \A w \in Workers : Inside(w) => steps[cur[w]][Key(loc[w])].st # "none"
  /\ \A w, v \in Workers : Inside(w) /\ Inside(v) /\ cur[w] = cur[v] /\ Key(loc[w]) = Key(loc[v]) => w = v
  /\ \A w \in Workers \ StallingWorkers : Inside(w) => steps[cur[w]][Key(loc[w])].st = "started"

\* No worker comes to stand inside a step.
InsideRests == \A w \in Workers : Inside(w)' => Inside(w) /\ cur'[w] = cur[w] /\ loc'[w] = loc[w]

ResultsStay ==
  \A r \in Runs, k \in Keys : steps[r][k].st = "done" =>
    \/ steps'[r][k] = steps[r][k]
    \/ \E w \in StallingWorkers : pc[w] = "executed" /\ cur[w] = r /\ Key(loc[w]) = k
                                  /\ pc'[w] # "executed"

LEMMA InsideAtKey ==
  ASSUME Typed, NEW w \in Workers, Inside(w)
  PROVE  cur[w] \in Runs /\ Key(loc[w]) \in Keys
  BY KeyInKeys DEF Inside, Typed, WorkerTyped, AtTool

\* All but three steps leave the journal as it is and let nobody inside.
LEMMA QuietJournal ==
  ASSUME Typed, [Next]_vars,
         ~ \E w \in Workers : Journal(w) \/ Record(w),
         ~ \E a \in Admins, k \in Keys, ok \in BOOLEAN : ReconcileWrite(a, k, ok)
  PROVE  steps' = steps /\ InsideRests
  <1> USE DEF InsideRests, Inside, Typed
  <1>1. CASE UserStep
    BY <1>1 DEF UserStep, Create, Cancel, Resume, ScriptInputLost, Resolve, ReconcileRead, worker
  <1>2. CASE \/ ExpireApprovals \/ (\E a \in Approvals : ExpireOne(a) \/ ApprovalFallsDue(a))
             \/ (\E r \in Runs : LeaseLapses(r)) \/ (\E w \in Workers : Heartbeat(w)) \/ UNCHANGED vars
    BY <1>2 DEF ExpireApprovals, ExpireOne, ApprovalFallsDue, LeaseLapses, Heartbeat, vars, worker
  <1>3. CASE Crash
    BY <1>3 DEF Crash
  <1>4. CASE \E w \in Workers, r \in Runs : Claim(w, r)
    BY <1>4 DEF Claim, WorkerTyped
  <1>5. ASSUME NEW w \in Workers, WorkerStep(w) PROVE steps' = steps /\ InsideRests
    <2>1. CASE Checkpoint(w)
      BY <2>1 DEF Checkpoint, WorkerTyped
    <2>2. CASE ~Checkpoint(w)
      <3>1. cur' = cur /\ Others(w) /\ (GoesOn(w) \/ IsDone(w))
        BY <1>5, <2>2, WorkersMove DEF Typed
      <3>2. steps' = steps
        BY <1>5, <2>2 DEF WorkerStep, Begin, Blocked, Reply, Verify, EndBatch, AskInput, Refuse,
             DecisionMismatch, RequestApproval, Permit, BeforeExecute, Execute, ExecuteRaises
      <3>3. pc'[w] \in {"started", "execute", "executed"} => pc[w] \in {"started", "execute", "executed"}
        <4>1. CASE BeforeExecute(w) \/ Execute(w) \/ ExecuteRaises(w)
          BY <4>1 DEF BeforeExecute, Execute, ExecuteRaises
        <4>2. CASE ~(BeforeExecute(w) \/ Execute(w) \/ ExecuteRaises(w))
          <5>1. (\E x, status : Finish(w, x, status)) \/ \E place \in {"model", "tools", "journal"} : GoTo(w, place)
            BY <1>5, <2>2, <4>2 DEF WorkerStep, Begin, Blocked, Reply, Verify, EndBatch, AskInput, Refuse,
               DecisionMismatch, RequestApproval, Permit, Consume
          <5> QED
            BY <5>1 DEF Finish, GoTo, WorkerTyped
        <4> QED
          BY <4>1, <4>2
      <3> QED
        BY <3>1, <3>2, <3>3 DEF Others, GoesOn, IsDone
    <2> QED
      BY <2>1, <2>2
  <1> QED
    BY <1>1, <1>2, <1>3, <1>4, <1>5 DEF Next

LEMMA AloneNext ==
  ASSUME OneAdmin, Typed, Custody, PromptOwn, Alone, [Next]_vars
  PROVE  Alone' /\ ResultsStay
  <1>k. \A w \in Workers : Inside(w) => cur[w] \in Runs /\ Key(loc[w]) \in Keys
    BY InsideAtKey
  <1>p. \A w \in Workers : loc'[w] = loc[w] => Key(loc[w])' = Key(loc[w])
    BY KeyPrimed
  <1>a. /\ \A w \in Workers : Inside(w) => steps[cur[w]][Key(loc[w])].st # "none"
        /\ \A w, v \in Workers : Inside(w) /\ Inside(v) /\ cur[w] = cur[v] /\ Key(loc[w]) = Key(loc[v]) => w = v
        /\ \A w \in Workers \ StallingWorkers : Inside(w) => steps[cur[w]][Key(loc[w])].st = "started"
    BY DEF Alone
  \* What a step does to the entry at one key only.
  <1>o. ASSUME NEW r \in Runs, NEW k \in Keys, InsideRests,
               \A x \in Runs, l \in Keys : <<x, l>> # <<r, k>> => steps'[x][l] = steps[x][l],
               steps'[r][k].st # "none",
               \A v \in Workers \ StallingWorkers : Inside(v)' => <<cur[v], Key(loc[v])>> # <<r, k>>
        PROVE  Alone'
    <2>1. \A v \in Workers : Inside(v)' => /\ Inside(v) /\ cur'[v] = cur[v] /\ Key(loc[v])' = Key(loc[v])
                                          /\ cur[v] \in Runs /\ Key(loc[v]) \in Keys
      BY <1>k, <1>o, <1>p DEF InsideRests
    <2>2. \A v \in Workers : Inside(v)' => steps'[cur'[v]][Key(loc[v])'].st # "none"
      BY <1>a, <1>o, <2>1
    <2>3. \A v, u \in Workers : Inside(v)' /\ Inside(u)' /\ cur'[v] = cur'[u]
                                /\ Key(loc[v])' = Key(loc[u])' => v = u
      BY <1>a, <2>1
    <2>4. \A v \in Workers \ StallingWorkers : Inside(v)' => steps'[cur'[v]][Key(loc[v])'].st = "started"
      BY <1>a, <1>o, <2>1
    <2> QED
      BY <2>2, <2>3, <2>4 DEF Alone
  <1>1. CASE /\ ~ \E w \in Workers : Journal(w) \/ Record(w)
             /\ ~ \E a \in Admins, k \in Keys, ok \in BOOLEAN : ReconcileWrite(a, k, ok)
    <2>1. steps' = steps /\ InsideRests
      BY <1>1, QuietJournal
    <2>2. \A v \in Workers : Inside(v)' => Inside(v) /\ cur'[v] = cur[v] /\ Key(loc[v])' = Key(loc[v])
      BY <1>p, <2>1 DEF InsideRests
    <2>3. Alone'
      BY <1>a, <2>1, <2>2 DEF Alone
    <2> QED
      BY <2>1, <2>3 DEF ResultsStay
  <1>2. ASSUME NEW w \in Workers, Journal(w) PROVE Alone' /\ ResultsStay
    <2> DEFINE r == cur[w]
               k == Key(loc[w])
    <2>1. r \in Runs /\ k \in Keys /\ pc[w] = "journal"
      BY <1>2, KeyInKeys DEF Journal, Typed, WorkerTyped, AtTool
    <2>2. CASE UNCHANGED steps /\ \E x, status : Finish(w, x, status)
      <3>1. InsideRests
        BY <2>2 DEF InsideRests, Inside, Finish, Typed, WorkerTyped
      <3>2. \A v \in Workers : Inside(v)' => Inside(v) /\ cur'[v] = cur[v] /\ Key(loc[v])' = Key(loc[v])
        BY <1>p, <3>1 DEF InsideRests
      <3> QED
        BY <1>a, <2>2, <3>2 DEF Alone, ResultsStay
    <2>3. CASE /\ MayStart(steps[r][k]) /\ GoTo(w, "started")
               /\ steps' = [steps EXCEPT ![r][k] = [st |-> "started", call |-> Call(loc[w]), ok |-> FALSE]]
      <3>1. steps[r][k].st = "none"
        BY <2>3 DEF MayStart
      <3>2. /\ UNCHANGED <<cur, loc>> /\ pc'[w] = "started" /\ \A v \in Workers \ {w} : pc'[v] = pc[v]
        BY <2>3 DEF GoTo, Typed, WorkerTyped
      <3>3. /\ steps'[r][k].st = "started"
            /\ \A x \in Runs, l \in Keys : <<x, l>> # <<r, k>> => steps'[x][l] = steps[x][l]
        BY <2>1, <2>3 DEF Typed, StepsTyped
      <3>4. \A v \in Workers : cur'[v] = cur[v] /\ Key(loc[v])' = Key(loc[v])
        BY <1>p, <3>2
      <3>5. \A v \in Workers \ {w} : Inside(v)' => Inside(v)
        BY <3>2 DEF Inside
      <3>6. \A v \in Workers : Inside(v) => <<cur[v], Key(loc[v])>> # <<r, k>>
        BY <1>a, <3>1
      <3>7. \A v \in Workers : Inside(v)' =>
              steps'[cur'[v]][Key(loc[v])'].st = IF v = w THEN "started" ELSE steps[cur[v]][Key(loc[v])].st
        BY <1>k, <3>3, <3>4, <3>5, <3>6
      <3>8. \A v, u \in Workers : Inside(v)' /\ Inside(u)' /\ cur'[v] = cur'[u]
                                  /\ Key(loc[v])' = Key(loc[u])' => v = u
        BY <1>a, <3>4, <3>5, <3>6
      <3>9. Alone'
        BY <1>a, <3>5, <3>7, <3>8 DEF Alone
      <3>10. ResultsStay
        BY <3>1, <3>3 DEF ResultsStay
      <3> QED
        BY <3>9, <3>10
    <2> QED
      BY <1>2, <2>2, <2>3 DEF Journal, Consume
  <1>3. ASSUME NEW w \in Workers, Record(w) PROVE Alone' /\ ResultsStay
    <2> DEFINE r == cur[w]
               k == Key(loc[w])
               row == [steps[r][k] EXCEPT !.st = "done", !.ok = out[w] = "ok"]
    <2>1. Inside(w) /\ r \in Runs /\ k \in Keys /\ pc[w] = "executed"
      BY <1>3, <1>k DEF Record, Inside
    <2>2. steps[r] \in [Keys -> JournalRows] /\ steps[r][k] \in JournalRows
      BY <2>1 DEF Typed, StepsTyped
    <2>3. steps' = [steps EXCEPT ![r] = [steps[r] EXCEPT ![k] = row]]
      BY <1>3, <2>1, <2>2 DEF Record, JournalRows
    <2>4. row.st = "done"
      BY <2>2 DEF JournalRows
    <2>5. /\ steps'[r][k].st = "done"
          /\ \A x \in Runs, l \in Keys : <<x, l>> # <<r, k>> => steps'[x][l] = steps[x][l]
      <3> HIDE DEF row, r, k
      <3> QED
        BY <2>1, <2>2, <2>3, <2>4 DEF Typed, StepsTyped
    <2>6. pc'[w] = "commit" /\ InsideRests
      BY <1>3 DEF Record, Consume, Finish, InsideRests, Inside, Typed, WorkerTyped
    <2>7. \A v \in Workers : Inside(v)' => v # w /\ Inside(v)
      BY <2>6 DEF InsideRests, Inside
    <2>8. \A v \in Workers : Inside(v)' => <<cur[v], Key(loc[v])>> # <<r, k>>
      BY <1>a, <2>1, <2>7
    <2>9. Alone'
      <3> HIDE DEF row, r, k
      <3> QED
        BY <1>o, <2>1, <2>5, <2>6, <2>8
    <2>10. steps[r][k].st = "done" => w \in StallingWorkers
      BY <1>a, <2>1
    <2>11. ResultsStay
      BY <2>1, <2>5, <2>6, <2>10 DEF ResultsStay
    <2> QED
      BY <2>9, <2>11
  <1>4. ASSUME NEW a \in Admins, NEW k \in Keys, NEW ok \in BOOLEAN, ReconcileWrite(a, k, ok)
        PROVE  Alone' /\ ResultsStay
    <2> DEFINE r == rec[a].run
               row == [steps[r][k] EXCEPT !.st = "done", !.ok = Settled(steps[r][k], ok)]
    <2>1. r \in Runs /\ UNCHANGED worker /\ run[r].status # "running"
      BY <1>4 DEF ReconcileWrite, Typed, RecTyped, Custody, Awaiting
    <2>2. steps[r] \in [Keys -> JournalRows] /\ steps[r][k] \in JournalRows
      BY <2>1 DEF Typed, StepsTyped
    <2>3. InsideRests
      BY <2>1 DEF InsideRests, Inside, worker
    <2>4. CASE steps' = steps
      <3>1. \A v \in Workers : Inside(v)' => Inside(v) /\ cur'[v] = cur[v] /\ Key(loc[v])' = Key(loc[v])
        BY <1>p, <2>3 DEF InsideRests
      <3> QED
        BY <1>a, <2>4, <3>1 DEF Alone, ResultsStay
    <2>5. CASE steps' # steps
      <3>1. steps' = [steps EXCEPT ![r] = [steps[r] EXCEPT ![k] = row]]
        BY <1>4, <2>2, <2>5 DEF ReconcileWrite, JournalRows
      <3>2. row.st = "done" /\ (steps[r][k].st = "done" => row = steps[r][k])
        BY <2>2 DEF JournalRows, Settled
      <3> HIDE DEF row, r
      <3>3. /\ steps'[r][k] = row
            /\ \A x \in Runs, l \in Keys : <<x, l>> # <<r, k>> => steps'[x][l] = steps[x][l]
        BY <2>1, <2>2, <3>1 DEF Typed, StepsTyped
      <3>4. \A v \in Workers \ StallingWorkers : Inside(v)' => cur[v] # r
        BY <2>1, <2>3 DEF InsideRests, PromptOwn, Inside
      <3>5. Alone'
        BY <1>o, <2>1, <2>3, <3>2, <3>3, <3>4
      <3>6. ResultsStay
        BY <3>2, <3>3 DEF ResultsStay
      <3> QED
        BY <3>5, <3>6
    <2> QED
      BY <2>4, <2>5
  <1> QED
    BY <1>1, <1>2, <1>3, <1>4

\* journal_result() and reconcile(): with one administrator at a time, an outcome that
\* is recorded for a step, by a worker or as an administrator's verdict, is replaced by
\* nothing but the answer of that very act: the worker that was inside the tool, and
\* whose heartbeat came late, may still overwrite the verdict.
THEOREM ResultsAreFinal == OneAdmin => (Spec => RecordedResultIsFinal)
  <1> SUFFICES ASSUME OneAdmin PROVE Spec => RecordedResultIsFinal
    OBVIOUS
  <1> DEFINE Inv == Typed /\ Custody /\ OnTime /\ PromptOwn /\ Alone
  <1>1. Init => Inv
    <2>1. Init => OnTime /\ PromptOwn /\ Alone
      BY DEF Init, OnTime, PromptOwn, NoRun, Alone, Inside
    <2> QED
      BY <2>1, InitTyped, CustodyInit
  <1>2. Inv /\ [Next]_vars => Inv'
    BY TypedNext, CustodyNext, OnTimeNext, WorkersOwn, AloneNext
  <1>3. Inv /\ [Next]_vars => [ResultsStay]_vars
    BY AloneNext
  <1> QED
    BY <1>1, <1>2, <1>3, PTL DEF Spec, RecordedResultIsFinal, ResultsStay

-----------------------------------------------------------------------------
(* A run that waits for an approval can get it.  Between the request and the  *)
(* check-in the worker keeps an answerable request, unless it has lost the    *)
(* run or the run is to stop: then nothing is checked in as waiting.          *)

\* Whoever owns a run has it running; only reconcile() may queue it under the owner.
OwnedRuns == \A r \in Runs : run[r].owner # None => run[r].status \in {"running", "queued"}

\* The approval that a state shows was asked for the call it stands at.
Shows(r, s) ==
  /\ s.approval \in Approvals /\ approvals[s.approval].run = r
  /\ approvals[s.approval].status # "unused"
  /\ [key |-> Key(s), call |-> Call(s)] \in approvals[s.approval].calls
WorkersAsk ==
  \A w \in Workers : pc[w] = "commit" /\ out[w] = "waiting_approval" =>
    /\ Shows(cur[w], loc[w])
    /\ Owns(w, cur[w]) /\ ~run[cur[w]].cancel =>
         approvals[loc[w].approval].status = "pending" /\ ~approvals[loc[w].approval].due
RowsAsk ==
  \A r \in Runs : run[r].status = "waiting_approval" =>
    Shows(r, run[r].st) /\ approvals[run[r].st.approval].status = "pending"
Answerable == OwnedRuns /\ WorkersAsk /\ RowsAsk

\* Requests keep their run and their calls.
RequestsKept ==
  \A a \in Approvals : approvals[a].status # "unused" =>
    /\ approvals'[a].run = approvals[a].run /\ approvals'[a].calls = approvals[a].calls
    /\ approvals'[a].status # "unused"

LEMMA RequestsKeptNext == Typed /\ [Next]_vars => RequestsKept
  <1> SUFFICES ASSUME Typed, [Next]_vars PROVE RequestsKept
    OBVIOUS
  <1> USE DEF RequestsKept, Typed, ApprovalsTyped, ApprovalRows
  <1>0. \A a \in Approvals : \A status, due :
          /\ [approvals[a] EXCEPT !.status = status].run = approvals[a].run
          /\ [approvals[a] EXCEPT !.status = status].calls = approvals[a].calls
          /\ [approvals[a] EXCEPT !.status = status].status = status
          /\ [approvals[a] EXCEPT !.due = due].run = approvals[a].run
          /\ [approvals[a] EXCEPT !.due = due].calls = approvals[a].calls
          /\ [approvals[a] EXCEPT !.due = due].status = approvals[a].status
    OBVIOUS
  <1>1. CASE UserStep
    <2>1. ASSUME NEW r \in Runs, Cancel(r) PROVE RequestsKept
      BY <2>1, <1>0 DEF Cancel
    <2>2. ASSUME NEW a \in Approvals, NEW ok \in BOOLEAN, Resolve(a, ok) PROVE RequestsKept
      BY <2>2, <1>0 DEF Resolve
    <2> QED
      BY <1>1, <2>1, <2>2 DEF UserStep, Create, Resume, ScriptInputLost, ReconcileRead, ReconcileWrite
  <1>2. CASE \/ ExpireApprovals \/ Crash
             \/ \E a \in Approvals : ExpireOne(a) \/ ApprovalFallsDue(a)
             \/ \E r \in Runs : LeaseLapses(r)
             \/ \E w \in Workers : Heartbeat(w) \/ \E r \in Runs : Claim(w, r)
    <2>1. CASE ExpireApprovals
      BY <2>1, <1>0 DEF ExpireApprovals
    <2>2. ASSUME NEW a \in Approvals, ExpireOne(a) \/ ApprovalFallsDue(a) PROVE RequestsKept
      BY <2>2, <1>0 DEF ExpireOne, ApprovalFallsDue
    <2> QED
      BY <1>2, <2>1, <2>2 DEF Crash, LeaseLapses, Heartbeat, Claim
  <1>3. ASSUME NEW w \in Workers, WorkerStep(w) PROVE RequestsKept
    <2>1. CASE \E a \in Approvals : RequestApproval(w, a)
      BY <2>1 DEF RequestApproval, NoApproval
    <2>2. CASE ~ \E a \in Approvals : RequestApproval(w, a)
      BY <1>3, <2>2 DEF WorkerStep, Begin, Blocked, Reply, Verify, EndBatch, AskInput, Refuse,
                  DecisionMismatch, Permit, Journal, BeforeExecute, Execute, ExecuteRaises,
                  Record, Checkpoint
    <2> QED
      BY <2>1, <2>2
  <1>4. CASE UNCHANGED vars
    BY <1>4 DEF vars
  <1> QED
    BY <1>1, <1>2, <1>3, <1>4 DEF Next

LEMMA ShowsStays ==
  ASSUME RequestsKept, NEW r, NEW s, Shows(r, s)
  PROVE  Shows(r, s)'
  BY DEF Shows, RequestsKept, Key, Call

LEMMA OwnedRunsNext ==
  ASSUME Typed, Decided, OwnedRuns, [Next]_vars
  PROVE  OwnedRuns'
  <1> USE DEF Typed, OwnedRuns
  <1>0. \A r \in Runs : run[r] \in Rows
    BY DEF RunTyped
  <1>1. CASE Requests
    <2>1. ASSUME NEW r \in Runs, Create(r) PROVE OwnedRuns'
      BY <1>0, <2>1 DEF Create, RunTyped, Rows
    <2>2. ASSUME NEW r \in Runs, Cancel(r) PROVE OwnedRuns'
      BY <1>0, <2>2 DEF Cancel, StoppedStatus, RunTyped, Rows
    <2>3. ASSUME NEW r \in Runs, Resume(r) \/ ScriptInputLost(r) PROVE OwnedRuns'
      BY <1>0, <2>3 DEF Resume, ScriptInputLost, RunTyped, Rows
    <2>4. ASSUME NEW a \in Approvals, NEW ok \in BOOLEAN, Resolve(a, ok) PROVE OwnedRuns'
      <3> DEFINE r == approvals[a].run
                 d == {[key |-> c.key, call |-> c.call, ok |-> ok] : c \in approvals[a].calls}
      <3>1. run' = [run EXCEPT ![r].status = "queued", ![r].st.approval = None, ![r].st.decisions = d]
            /\ r \in Runs
        BY <2>4 DEF Resolve, ApprovalsTyped
      <3> HIDE DEF d, r
      <3>2. run'[r].status = "queued" /\ \A x \in Runs \ {r} : run'[x] = run[x]
        BY <1>0, <3>1 DEF RunTyped, Rows
      <3> QED
        BY <3>2
    <2>5. CASE ExpireApprovals
      BY <1>0, <2>5 DEF ExpireApprovals, Expired, Rows
    <2>6. ASSUME NEW a \in Approvals, ExpireOne(a) PROVE OwnedRuns'
      <3>1. approvals[a].run \in Runs
        BY <2>6 DEF ExpireOne, Due, ApprovalsTyped
      <3> QED
        BY <1>0, <2>6, <3>1 DEF ExpireOne, Expired, RunTyped, Rows
    <2> QED
      BY <1>1, <2>1, <2>2, <2>3, <2>4, <2>5, <2>6 DEF Requests
  <1>2. CASE Elsewhere
    BY <1>2, ElsewhereRest
  <1>3. ASSUME NEW a \in Admins, NEW k \in Keys, NEW ok \in BOOLEAN, ReconcileWrite(a, k, ok)
        PROVE  OwnedRuns'
    <2> DEFINE s == [rec[a].st EXCEPT !.reason = "none"]
               r == rec[a].run
    <2>1. r \in Runs /\ (run' = run \/ run' = [run EXCEPT ![r].status = "queued", ![r].st = s])
      BY <1>3 DEF ReconcileWrite, RecTyped
    <2> HIDE DEF s, r
    <2> QED
      BY <1>0, <2>1 DEF RunTyped, Rows
  <1>4. ASSUME NEW w \in Workers, Checkpoint(w) PROVE OwnedRuns'
    BY <1>0, <1>4 DEF Checkpoint, RunTyped, Rows, WorkerTyped
  <1>5. CASE (\E w \in Workers : Heartbeat(w)) \/ (\E r \in Runs : LeaseLapses(r))
    <2>1. PICK r \in Runs, lease \in {"live", "lapsed"} : run' = [run EXCEPT ![r].lease = lease]
      BY <1>5 DEF Heartbeat, LeaseLapses, WorkerTyped
    <2> QED
      BY <1>0, <2>1 DEF RunTyped, Rows
  <1>6. ASSUME NEW w \in Workers, NEW r \in Runs, Claim(w, r) PROVE OwnedRuns'
    BY <1>0, <1>6 DEF Claim, RunTyped, Rows
  <1>8. CASE Crash
    BY <1>0, <1>8 DEF Crash, Rows
  <1> QED
    BY <1>1, <1>2, <1>3, <1>4, <1>5, <1>6, <1>8, Cases

\* What a worker asked for is still open when it checks in.
LEMMA WorkersAskNext ==
  ASSUME Punctual, Typed, Answerable, [Next]_vars
  PROVE  WorkersAsk'
  <1> USE DEF Typed
  <1>0. /\ \A r \in Runs : run[r] \in Rows
        /\ \A w \in Workers : w # None /\ (pc[w] # "idle" => cur[w] \in Runs)
        /\ \A a \in Approvals : approvals[a] \in ApprovalRows
    BY ConstantsAssumption DEF RunTyped, WorkerTyped, ApprovalsTyped, None
  <1>k. RequestsKept
    BY RequestsKeptNext
  \* Whoever was at the check-in and still is keeps what it asked for, if the
  \* request stays open as long as the run is its own and not to stop.
  <1>w. ASSUME NEW w \in Workers, pc[w] = "commit", cur'[w] = cur[w], loc'[w] = loc[w],
               out[w] = "waiting_approval",
               Owns(w, cur[w])' /\ ~run'[cur[w]].cancel =>
                 /\ Owns(w, cur[w]) /\ ~run[cur[w]].cancel
                 /\ \A a \in Approvals : a = loc[w].approval /\ approvals[a].status = "pending"
                                         /\ ~approvals[a].due =>
                      approvals'[a].status = "pending" /\ ~approvals'[a].due
        PROVE  /\ Shows(cur[w], loc[w])'
               /\ (Owns(w, cur[w]) /\ ~run[cur[w]].cancel =>
                     approvals[loc[w].approval].status = "pending" /\ ~approvals[loc[w].approval].due)'
    <2>1. /\ Shows(cur[w], loc[w]) /\ loc[w].approval \in Approvals
          /\ Owns(w, cur[w]) /\ ~run[cur[w]].cancel =>
               approvals[loc[w].approval].status = "pending" /\ ~approvals[loc[w].approval].due
      BY <1>w DEF Answerable, WorkersAsk, Shows
    <2>2. Shows(cur[w], loc[w])'
      BY <1>k, <1>w, <2>1 DEF Shows, RequestsKept, Key, Call
    <2> QED
      BY <1>w, <2>1, <2>2
  <1>q. ASSUME pc' = pc, cur' = cur, loc' = loc, out' = out,
               \A w \in Workers : pc[w] = "commit" /\ out[w] = "waiting_approval" /\ run'[cur[w]].owner = w
                                  /\ ~run'[cur[w]].cancel =>
                 /\ run[cur[w]].owner = w /\ ~run[cur[w]].cancel
                 /\ \A a \in Approvals : a = loc[w].approval /\ approvals[a].run = cur[w]
                                         /\ approvals[a].status = "pending" /\ ~approvals[a].due =>
                      approvals'[a].status = "pending" /\ ~approvals'[a].due
        PROVE  WorkersAsk'
    <2> SUFFICES ASSUME NEW w \in Workers, pc[w] = "commit", out[w] = "waiting_approval"
                 PROVE  /\ Shows(cur[w], loc[w])'
                        /\ (Owns(w, cur[w]) /\ ~run[cur[w]].cancel =>
                              approvals[loc[w].approval].status = "pending" /\ ~approvals[loc[w].approval].due)'
      BY <1>q DEF WorkersAsk
    <2>1. approvals[loc[w].approval].run = cur[w]
      BY DEF Answerable, WorkersAsk, Shows
    <2>2. Owns(w, cur[w])' /\ ~run'[cur[w]].cancel =>
                 /\ Owns(w, cur[w]) /\ ~run[cur[w]].cancel
                 /\ \A a \in Approvals : a = loc[w].approval /\ approvals[a].status = "pending"
                                         /\ ~approvals[a].due =>
                      approvals'[a].status = "pending" /\ ~approvals'[a].due
      BY <1>q, <2>1 DEF Owns
    <2> QED
      BY <1>q, <1>w, <2>2
  <1>1. ASSUME NEW r \in Runs, Create(r) \/ Resume(r) \/ ScriptInputLost(r) PROVE WorkersAsk'
    <2>1. \A x \in Runs : run'[x].owner = run[x].owner /\ run'[x].cancel = run[x].cancel
      BY <1>0, <1>1 DEF Create, Resume, ScriptInputLost, RunTyped, Rows
    <2> QED
      BY <1>0, <1>1, <2>1, <1>q DEF Create, Resume, ScriptInputLost, worker
  <1>2. ASSUME NEW r \in Runs, Cancel(r) PROVE WorkersAsk'
    <2>1. /\ pc' = pc /\ cur' = cur /\ loc' = loc /\ out' = out
          /\ \A a \in Approvals : approvals[a].run # r => approvals'[a] = approvals[a]
      BY <1>2 DEF Cancel, worker
    <2>2. CASE Active(r)
      <3>1. /\ run'[r].cancel /\ run'[r].owner = run[r].owner
            /\ \A x \in Runs \ {r} : run'[x] = run[x]
        BY <1>0, <1>2, <2>2 DEF Cancel, RunTyped, Rows
      <3> QED
        BY <1>0, <1>q, <2>1, <3>1
    <2>3. CASE ~Active(r)
      <3>1. run' = run /\ run[r].owner = None
        BY <1>0, <1>2, <2>3 DEF Cancel, Active, Exists, Answerable, OwnedRuns, TERMINAL
      <3> QED
        BY <1>0, <1>q, <2>1, <3>1
    <2> QED
      BY <2>2, <2>3
  <1>3. ASSUME NEW a \in Approvals, NEW ok \in BOOLEAN, Resolve(a, ok) PROVE WorkersAsk'
    <2> DEFINE r == approvals[a].run
               d == {[key |-> c.key, call |-> c.call, ok |-> ok] : c \in approvals[a].calls}
    <2>1. /\ run' = [run EXCEPT ![r].status = "queued", ![r].st.approval = None, ![r].st.decisions = d]
          /\ r \in Runs /\ run[r].owner = None
          /\ pc' = pc /\ cur' = cur /\ loc' = loc /\ out' = out
          /\ \A b \in Approvals \ {a} : approvals'[b] = approvals[b]
      BY <1>3 DEF Resolve, ApprovalsTyped, Answerable, OwnedRuns, worker
    <2>2. \A b \in Approvals : approvals[b].run # r => approvals'[b] = approvals[b]
      BY <2>1
    <2> HIDE DEF d, r
    <2>3. \A x \in Runs : run'[x].owner = run[x].owner /\ run'[x].cancel = run[x].cancel
      BY <1>0, <2>1 DEF RunTyped, Rows
    <2>4. ASSUME NEW w \in Workers, pc[w] = "commit", run'[cur[w]].owner = w, ~run'[cur[w]].cancel
          PROVE  /\ run[cur[w]].owner = w /\ ~run[cur[w]].cancel
                 /\ \A b \in Approvals : approvals[b].run = cur[w] => approvals'[b] = approvals[b]
      <3>1. cur[w] \in Runs /\ run[cur[w]].owner = w /\ ~run[cur[w]].cancel
        BY <1>0, <2>3, <2>4
      <3>2. cur[w] # r
        BY <1>0, <2>1, <3>1
      <3> QED
        BY <2>2, <3>1, <3>2
    <2> QED
      BY <1>q, <2>1, <2>4
  <1>4. CASE ExpireApprovals \/ \E a \in Approvals : ExpireOne(a)
    <2>1. /\ pc' = pc /\ cur' = cur /\ loc' = loc /\ out' = out
          /\ \A b \in Approvals : ~approvals[b].due => approvals'[b] = approvals[b]
      BY <1>4 DEF ExpireApprovals, ExpireOne, Due, worker, ApprovalsTyped
    <2>2. \A x \in Runs : Expired(x).owner = run[x].owner /\ Expired(x).cancel = run[x].cancel
      BY <1>0 DEF Expired, Rows
    <2>3. \A x \in Runs : run'[x].owner = run[x].owner /\ run'[x].cancel = run[x].cancel
      BY <1>4, <2>2 DEF ExpireApprovals, ExpireOne, Due, ApprovalsTyped, RunTyped
    <2> QED
      BY <1>0, <1>q, <2>1, <2>3
  <1>5. ASSUME NEW a \in Approvals, ApprovalFallsDue(a) PROVE WorkersAsk'
    <2>1. /\ pc' = pc /\ cur' = cur /\ loc' = loc /\ out' = out /\ run' = run
          /\ \A b \in Approvals \ {a} : approvals'[b] = approvals[b]
          /\ \A w \in Workers : pc[w] = "commit" => loc[w].approval # a
      BY <1>5 DEF ApprovalFallsDue, worker, ApprovalsTyped, Punctual
    <2> QED
      BY <1>q, <2>1
  <1>6. ASSUME NEW a \in Admins, NEW k \in Keys, NEW ok \in BOOLEAN, ReconcileWrite(a, k, ok)
        PROVE  WorkersAsk'
    <2> DEFINE s == [rec[a].st EXCEPT !.reason = "none"]
               r == rec[a].run
    <2>1. /\ r \in Runs /\ (run' = run \/ run' = [run EXCEPT ![r].status = "queued", ![r].st = s])
          /\ pc' = pc /\ cur' = cur /\ loc' = loc /\ out' = out /\ approvals' = approvals
      BY <1>6 DEF ReconcileWrite, RecTyped, worker
    <2> HIDE DEF s, r
    <2>2. \A x \in Runs : run'[x].owner = run[x].owner /\ run'[x].cancel = run[x].cancel
      BY <1>0, <2>1 DEF RunTyped, Rows
    <2> QED
      BY <1>0, <1>q, <2>1, <2>2
  <1>7. CASE (\E a \in Admins, r \in Runs : ReconcileRead(a, r)) \/ UNCHANGED vars
    BY <1>7, <1>q DEF ReconcileRead, vars, worker
  <1>8. CASE (\E w \in Workers : Heartbeat(w)) \/ (\E r \in Runs : LeaseLapses(r))
    <2>1. PICK r \in Runs, lease \in {"live", "lapsed"} : run' = [run EXCEPT ![r].lease = lease]
      BY <1>8 DEF Heartbeat, LeaseLapses, WorkerTyped
    <2>2. \A x \in Runs : run'[x].owner = run[x].owner /\ run'[x].cancel = run[x].cancel
      BY <1>0, <2>1 DEF RunTyped, Rows
    <2> QED
      BY <1>0, <1>8, <1>q, <2>2 DEF Heartbeat, LeaseLapses, worker
  <1>9. CASE Crash
    BY <1>9 DEF Crash, WorkersAsk
  <1>10. ASSUME NEW v \in Workers, NEW r \in Runs, Claim(v, r) PROVE WorkersAsk'
    <2>1. /\ run' = [run EXCEPT ![r].status = "running", ![r].owner = v, ![r].lease = "live"]
          /\ pc'[v] = "begin" /\ approvals' = approvals /\ out' = out
          /\ \A w \in Workers \ {v} : pc'[w] = pc[w] /\ cur'[w] = cur[w] /\ loc'[w] = loc[w]
      BY <1>10 DEF Claim, WorkerTyped
    <2>2. \A x \in Runs : /\ run'[x].owner \in {run[x].owner, v}
                          /\ run'[x].cancel = run[x].cancel
      BY <1>0, <2>1 DEF RunTyped, Rows
    <2> SUFFICES ASSUME NEW w \in Workers, pc'[w] = "commit", out'[w] = "waiting_approval"
                 PROVE  /\ Shows(cur[w], loc[w])'
                        /\ (Owns(w, cur[w]) /\ ~run[cur[w]].cancel =>
                              approvals[loc[w].approval].status = "pending" /\ ~approvals[loc[w].approval].due)'
      BY DEF WorkersAsk
    <2>3. w # v /\ pc[w] = "commit" /\ cur'[w] = cur[w] /\ loc'[w] = loc[w] /\ out[w] = "waiting_approval"
      BY <2>1
    <2>4. Owns(w, cur[w])' /\ ~run'[cur[w]].cancel => Owns(w, cur[w]) /\ ~run[cur[w]].cancel
      BY <1>0, <2>2, <2>3 DEF Owns
    <2> QED
      BY <1>w, <2>1, <2>3, <2>4
  <1>11. ASSUME NEW v \in Workers, Checkpoint(v) PROVE WorkersAsk'
    <2>1. /\ pc'[v] = "idle" /\ approvals' = approvals /\ cur[v] \in Runs
          /\ \A w \in Workers \ {v} : pc'[w] = pc[w] /\ cur'[w] = cur[w] /\ loc'[w] = loc[w] /\ out'[w] = out[w]
      BY <1>0, <1>11 DEF Checkpoint, WorkerTyped
    <2>2. \A x \in Runs : /\ run'[x].owner \in {run[x].owner, None}
                          /\ run'[x].cancel = run[x].cancel
      BY <1>0, <1>11, <2>1 DEF Checkpoint, RunTyped, Rows
    <2> SUFFICES ASSUME NEW w \in Workers, pc'[w] = "commit", out'[w] = "waiting_approval"
                 PROVE  /\ Shows(cur[w], loc[w])'
                        /\ (Owns(w, cur[w]) /\ ~run[cur[w]].cancel =>
                              approvals[loc[w].approval].status = "pending" /\ ~approvals[loc[w].approval].due)'
      BY DEF WorkersAsk
    <2>3. w # v /\ pc[w] = "commit" /\ cur'[w] = cur[w] /\ loc'[w] = loc[w] /\ out[w] = "waiting_approval"
      BY <2>1
    <2>4. Owns(w, cur[w])' /\ ~run'[cur[w]].cancel => Owns(w, cur[w]) /\ ~run[cur[w]].cancel
      BY <1>0, <2>2, <2>3 DEF Owns
    <2> QED
      BY <1>w, <2>1, <2>3, <2>4
  <1>12. ASSUME NEW v \in Workers, WorkerStep(v), ~Checkpoint(v) PROVE WorkersAsk'
    <2>1. /\ run' = run /\ cur' = cur /\ Others(v) /\ (GoesOn(v) \/ IsDone(v))
      BY <1>12, WorkersMove
    <2>2. CASE \E a \in Approvals : RequestApproval(v, a)
      <3>1. PICK a \in Approvals : RequestApproval(v, a)
        BY <2>2
      <3>2. /\ InBatch(loc[v]) /\ Kind[Call(loc[v])] = "gated" /\ approvals[a] = NoApproval
            /\ approvals'[a] = [run |-> cur[v], status |-> "pending", due |-> FALSE, calls |-> Asked(loc[v])]
            /\ \A b \in Approvals \ {a} : approvals'[b] = approvals[b]
            /\ loc'[v] = [loc[v] EXCEPT !.approval = a]
        BY <3>1 DEF RequestApproval, Finish, ApprovalsTyped, WorkerTyped
      <3>3. loc[v] \in States
        BY DEF WorkerTyped, GoodStates
      <3>4. /\ loc'[v].approval = a /\ loc'[v].round = loc[v].round /\ loc'[v].idx = loc[v].idx
            /\ loc'[v].queue = loc[v].queue
        BY <3>2, <3>3 DEF States
      <3>5. [key |-> Key(loc[v]), call |-> Call(loc[v])] \in Asked(loc[v])
        <4>1. loc[v].idx \in Nat /\ Len(loc[v].queue) \in Nat /\ loc[v].idx < Len(loc[v].queue)
          BY <3>2, <3>3, BatchFacts, ConstantsAssumption DEF States, InBatch
        <4>2. loc[v].idx \in loc[v].idx .. Len(loc[v].queue) - 1
          BY <4>1
        <4> QED
          BY <3>2, <4>2 DEF Asked, Pending, Key, Call
      <3>6. Shows(cur[v], loc[v])'
        BY <2>1, <3>2, <3>4, <3>5 DEF Shows, Key, Call
      <3>7. approvals'[loc'[v].approval].status = "pending" /\ ~approvals'[loc'[v].approval].due
        BY <3>2, <3>4
      <3>8. ASSUME NEW w \in Workers \ {v}, pc'[w] = "commit", out'[w] = "waiting_approval"
            PROVE  /\ Shows(cur[w], loc[w])'
                   /\ (Owns(w, cur[w]) /\ ~run[cur[w]].cancel =>
                         approvals[loc[w].approval].status = "pending" /\ ~approvals[loc[w].approval].due)'
        <4>1. pc[w] = "commit" /\ cur'[w] = cur[w] /\ loc'[w] = loc[w] /\ out[w] = "waiting_approval"
          BY <2>1, <3>8 DEF Others
        <4>2. loc[w].approval # a
          <5>1. approvals[loc[w].approval].status # "unused"
            BY <4>1 DEF Answerable, WorkersAsk, Shows
          <5> QED
            BY <3>2, <5>1 DEF NoApproval
        <4> QED
          BY <1>w, <2>1, <3>2, <4>1, <4>2 DEF Owns
      <3> QED
        BY <3>6, <3>7, <3>8 DEF WorkersAsk
    <2>3. CASE ~ \E a \in Approvals : RequestApproval(v, a)
      <3>1. approvals' = approvals
        BY <1>12, <2>3 DEF WorkerStep, Begin, Blocked, Reply, Verify, EndBatch, AskInput, Refuse,
             DecisionMismatch, Permit, Journal, BeforeExecute, Execute, ExecuteRaises, Record
      <3> SUFFICES ASSUME NEW w \in Workers, pc'[w] = "commit", out'[w] = "waiting_approval"
                   PROVE  /\ Shows(cur[w], loc[w])'
                          /\ (Owns(w, cur[w]) /\ ~run[cur[w]].cancel =>
                                approvals[loc[w].approval].status = "pending" /\ ~approvals[loc[w].approval].due)'
        BY DEF WorkersAsk
      <3>2. w # v
        BY <2>1, <2>3 DEF GoesOn, IsDone
      <3>3. pc[w] = "commit" /\ cur'[w] = cur[w] /\ loc'[w] = loc[w] /\ out[w] = "waiting_approval"
        BY <2>1, <3>2 DEF Others
      <3> QED
        BY <1>w, <2>1, <3>1, <3>3 DEF Owns
    <2> QED
      BY <2>2, <2>3
  <1> QED
    BY <1>1, <1>2, <1>3, <1>4, <1>5, <1>6, <1>7, <1>8, <1>9, <1>10, <1>11, <1>12, Cases
    DEF Requests, Elsewhere

\* A run that waits is the run of a request nobody has answered.
LEMMA RowsAskNext ==
  ASSUME Typed, Answerable, [Next]_vars
  PROVE  RowsAsk'
  <1> USE DEF Typed
  <1>0. /\ \A r \in Runs : run[r] \in Rows /\ run[r].st \in States
        /\ \A w \in Workers : pc[w] # "idle" => cur[w] \in Runs
        /\ \A a \in Approvals : approvals[a] \in ApprovalRows
    BY DEF RunTyped, Rows, WorkerTyped, GoodStates, ApprovalsTyped
  <1>k. RequestsKept
    BY RequestsKeptNext
  <1>r. ASSUME NEW r \in Runs, run[r].status = "waiting_approval", run'[r].st = run[r].st,
               \A a \in Approvals : approvals[a].run = r /\ approvals[a].status = "pending" =>
                                      approvals'[a].status = "pending"
        PROVE  Shows(r, run[r].st)' /\ (approvals[run[r].st.approval].status = "pending")'
    <2>1. Shows(r, run[r].st) /\ approvals[run[r].st.approval].status = "pending"
      BY <1>r DEF Answerable, RowsAsk
    <2>2. Shows(r, run[r].st)'
      BY <1>k, <1>r, <2>1 DEF Shows, RequestsKept, Key, Call
    <2> QED
      BY <1>r, <2>1, <2>2 DEF Shows
  \* Whoever waits after the step waited before, and its requests are as they were.
  <1>q. ASSUME \A r \in Runs : run'[r].status = "waiting_approval" =>
                 /\ run[r].status = "waiting_approval" /\ run'[r].st = run[r].st
                 /\ \A a \in Approvals : approvals[a].run = r /\ approvals[a].status = "pending" =>
                                           approvals'[a].status = "pending"
        PROVE  RowsAsk'
    BY <1>q, <1>r DEF RowsAsk
  <1>1. ASSUME NEW r \in Runs, Create(r) PROVE RowsAsk'
    BY <1>0, <1>1, <1>q DEF Create, RunTyped, Rows
  <1>2. ASSUME NEW r \in Runs, Cancel(r) PROVE RowsAsk'
    <2>1. \A x \in Runs \ {r} : run'[x] = run[x]
      BY <1>0, <1>2 DEF Cancel, RunTyped
    <2>2. \A a \in Approvals : approvals[a].run # r => approvals'[a] = approvals[a]
      BY <1>2 DEF Cancel
    <2>3. run'[r].status # "waiting_approval"
      <3>1. CASE ~Active(r)
        BY <1>2, <3>1 DEF Cancel, Active, Exists, TERMINAL
      <3>2. CASE Active(r)
        <4>1. run'[r].status = StoppedStatus(r)
          BY <1>0, <1>2, <3>2 DEF Cancel, RunTyped, Rows
        <4>2. StoppedStatus(r) # "waiting_approval"
          BY DEF StoppedStatus, Answerable, OwnedRuns
        <4> QED
          BY <4>1, <4>2
      <3> QED
        BY <3>1, <3>2
    <2> QED
      BY <1>q, <2>1, <2>2, <2>3
  <1>3. ASSUME NEW r \in Runs, Resume(r) \/ ScriptInputLost(r) PROVE RowsAsk'
    <2>1. /\ run'[r].status # "waiting_approval" /\ approvals' = approvals
          /\ \A x \in Runs \ {r} : run'[x] = run[x]
      BY <1>0, <1>3 DEF Resume, ScriptInputLost, RunTyped, Rows
    <2> QED
      BY <1>q, <2>1
  <1>4. ASSUME NEW a \in Approvals, NEW ok \in BOOLEAN, Resolve(a, ok) PROVE RowsAsk'
    <2> DEFINE r == approvals[a].run
               d == {[key |-> c.key, call |-> c.call, ok |-> ok] : c \in approvals[a].calls}
    <2>1. /\ run' = [run EXCEPT ![r].status = "queued", ![r].st.approval = None, ![r].st.decisions = d]
          /\ r \in Runs /\ \A b \in Approvals \ {a} : approvals'[b] = approvals[b]
      BY <1>4 DEF Resolve, ApprovalsTyped
    <2>2. \A b \in Approvals : approvals[b].run # r => approvals'[b] = approvals[b]
      BY <2>1
    <2> HIDE DEF d, r
    <2>3. run'[r].status = "queued" /\ \A x \in Runs \ {r} : run'[x] = run[x]
      BY <1>0, <2>1 DEF RunTyped, Rows
    <2> QED
      BY <1>q, <2>2, <2>3
  <1>5. CASE ExpireApprovals
    <2>1. \A r \in Runs : Expired(r).status = "paused"
      BY <1>0 DEF Expired, Rows
    <2>2. ASSUME NEW r \in Runs, run'[r].status = "waiting_approval"
          PROVE  /\ run[r].status = "waiting_approval" /\ run'[r].st = run[r].st
                 /\ \A a \in Approvals : approvals[a].run = r /\ approvals[a].status = "pending" =>
                                           approvals'[a].status = "pending"
      <3>1. run'[r] = run[r] /\ \A a \in Due : approvals[a].run # r
        BY <1>5, <2>1, <2>2 DEF ExpireApprovals
      <3> QED
        BY <1>5, <2>2, <3>1 DEF ExpireApprovals
    <2> QED
      BY <1>q, <2>2
  <1>6. ASSUME NEW a \in Approvals, ExpireOne(a) PROVE RowsAsk'
    <2> DEFINE r == approvals[a].run
    <2>1. r \in Runs /\ \A b \in Approvals : approvals[b].run # r => approvals'[b] = approvals[b]
      BY <1>6 DEF ExpireOne, Due, ApprovalsTyped
    <2>2. run'[r].status = "paused" /\ \A x \in Runs \ {r} : run'[x] = run[x]
      BY <1>0, <1>6, <2>1 DEF ExpireOne, Expired, RunTyped, Rows
    <2> HIDE DEF r
    <2> QED
      BY <1>q, <2>1, <2>2
  <1>7. ASSUME NEW a \in Approvals, ApprovalFallsDue(a) PROVE RowsAsk'
    <2>1. run' = run /\ \A b \in Approvals : approvals'[b].status = approvals[b].status
      BY <1>0, <1>7 DEF ApprovalFallsDue, ApprovalsTyped, ApprovalRows
    <2> QED
      BY <1>q, <2>1
  <1>8. CASE (\E a \in Admins, r \in Runs : ReconcileRead(a, r)) \/ UNCHANGED vars
    BY <1>8, <1>q DEF ReconcileRead, vars
  <1>9. ASSUME NEW a \in Admins, NEW k \in Keys, NEW ok \in BOOLEAN, ReconcileWrite(a, k, ok)
        PROVE  RowsAsk'
    <2> DEFINE s == [rec[a].st EXCEPT !.reason = "none"]
               r == rec[a].run
    <2>1. /\ r \in Runs /\ (run' = run \/ run' = [run EXCEPT ![r].status = "queued", ![r].st = s])
          /\ approvals' = approvals
      BY <1>9 DEF ReconcileWrite, RecTyped
    <2> HIDE DEF s, r
    <2>2. \A x \in Runs : run'[x] = run[x] \/ run'[x].status = "queued"
      BY <1>0, <2>1 DEF RunTyped, Rows
    <2> QED
      BY <1>q, <2>1, <2>2
  <1>10. CASE (\E w \in Workers : Heartbeat(w)) \/ (\E r \in Runs : LeaseLapses(r))
    <2>1. PICK r \in Runs, lease \in {"live", "lapsed"} : run' = [run EXCEPT ![r].lease = lease]
      BY <1>10 DEF Heartbeat, LeaseLapses, WorkerTyped
    <2>2. \A x \in Runs : run'[x].status = run[x].status /\ run'[x].st = run[x].st
      BY <1>0, <2>1 DEF RunTyped, Rows
    <2> QED
      BY <1>10, <1>q, <2>2 DEF Heartbeat, LeaseLapses
  <1>11. CASE Crash
    <2>1. \A x \in Runs : run'[x].status = run[x].status /\ run'[x].st = run[x].st
      BY <1>0, <1>11 DEF Crash, Rows
    <2> QED
      BY <1>11, <1>q, <2>1 DEF Crash
  <1>12. ASSUME NEW v \in Workers, NEW r \in Runs, Claim(v, r) PROVE RowsAsk'
    BY <1>0, <1>12, <1>q DEF Claim, RunTyped, Rows
  <1>13. ASSUME NEW v \in Workers, Checkpoint(v) PROVE RowsAsk'
    <2>0. PICK x \in Runs : x = cur[v]
      BY <1>0, <1>13 DEF Checkpoint
    <2>1. approvals' = approvals /\ pc[v] = "commit"
      BY <1>13 DEF Checkpoint
    <2>2. CASE ~Owns(v, x)
      BY <1>13, <1>q, <2>0, <2>2 DEF Checkpoint
    <2>3. CASE Owns(v, x)
      <3>1. /\ run'[x].st = loc[v] /\ run'[x].status = CheckedInStatus(v, x)
            /\ \A r \in Runs \ {x} : run'[r] = run[r]
        BY <1>0, <1>13, <2>0, <2>3 DEF Checkpoint, RunTyped, Rows
      <3>2. ASSUME run'[x].status = "waiting_approval"
            PROVE  Shows(x, run[x].st)' /\ (approvals[run[x].st.approval].status = "pending")'
        <4>1. out[v] = "waiting_approval" /\ ~run[x].cancel
          BY <3>1, <3>2 DEF CheckedInStatus
        <4>2. Shows(x, loc[v]) /\ approvals[loc[v].approval].status = "pending"
          BY <2>0, <2>1, <2>3, <4>1 DEF Answerable, WorkersAsk
        <4> QED
          BY <2>1, <3>1, <4>2 DEF Shows, Key, Call
      <3>3. \A r \in Runs \ {x} : run'[r].status = "waiting_approval" =>
              Shows(r, run[r].st)' /\ (approvals[run[r].st.approval].status = "pending")'
        BY <1>r, <2>1, <3>1
      <3> QED
        BY <3>2, <3>3 DEF RowsAsk
    <2> QED
      BY <2>2, <2>3
  <1>14. ASSUME NEW v \in Workers, WorkerStep(v), ~Checkpoint(v) PROVE RowsAsk'
    <2>1. run' = run
      BY <1>14, WorkersMove
    <2>2. \A a \in Approvals : approvals[a].status = "pending" => approvals'[a] = approvals[a]
      <3>1. CASE \E a \in Approvals : RequestApproval(v, a)
        BY <3>1 DEF RequestApproval, NoApproval
      <3>2. CASE ~ \E a \in Approvals : RequestApproval(v, a)
        BY <1>14, <3>2 DEF WorkerStep, Begin, Blocked, Reply, Verify, EndBatch, AskInput, Refuse,
             DecisionMismatch, Permit, Journal, BeforeExecute, Execute, ExecuteRaises, Record
      <3> QED
        BY <3>1, <3>2
    <2> QED
      BY <1>q, <2>1, <2>2
  <1> QED
    BY <1>1, <1>2, <1>3, <1>4, <1>5, <1>6, <1>7, <1>8, <1>9, <1>10, <1>11, <1>12, <1>13, <1>14, Cases
    DEF Requests, Elsewhere

\* approval(), checkpoint(), cancel() and expire_approvals(): where no heartbeat comes
\* late, a run in waiting_approval shows a pending request for the call it stands at,
\* whatever several administrators settle, users withdraw and crashes interrupt.  Runs
\* that wait for input are not spoken of.
THEOREM WaitingCanBeAnswered == Punctual => (Spec => []WaitingIsAnswerable)
  <1> SUFFICES ASSUME Punctual PROVE Spec => []WaitingIsAnswerable
    OBVIOUS
  <1> DEFINE Inv == Typed /\ Decided /\ Answerable
  <1>1. Init => Inv
    <2>1. Init => Decided /\ Answerable
      BY DEF Init, Decided, Answerable, OwnedRuns, WorkersAsk, RowsAsk, NoRun
    <2> QED
      BY <2>1, InitTyped
  <1>2. Inv /\ [Next]_vars => Inv'
    BY TypedNext, DecidedNext, OwnedRunsNext, WorkersAskNext, RowsAskNext DEF Answerable
  <1>3. Inv => WaitingIsAnswerable
    BY ConstantsAssumption DEF Answerable, RowsAsk, Shows, WaitingIsAnswerable, None
  <1> QED
    BY <1>1, <1>2, <1>3, PTL DEF Spec
=============================================================================
