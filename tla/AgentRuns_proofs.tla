-------------------------- MODULE AgentRuns_proofs --------------------------
(***************************************************************************)
(* Theorems about AgentRuns, for every set of runs, workers, calls and     *)
(* administrators and every bound.                                         *)
(***************************************************************************)
EXTENDS AgentRuns, TLAPS

\* A reply of the model is a sequence of calls of bounded length.
LEMMA BatchFacts ==
  ASSUME NEW q \in Batches
  PROVE  /\ q \in Seq(Calls)
         /\ Len(q) \in 0 .. MaxQueue
         /\ \A i \in 1 .. Len(q) : q[i] \in Calls
  <1>1. PICK n \in 0 .. MaxQueue : q \in [1 .. n -> Calls]
    BY DEF Batches, SeqOf
  <1>2. n \in Nat
    BY <1>1, ConstantsAssumption
  <1>3. q \in Seq(Calls) /\ Len(q) = n
    BY <1>1, <1>2
  <1> QED
    BY <1>1, <1>2, <1>3

LEMMA EmptyBatch == <<>> \in Batches
  <1>1. <<>> \in [1 .. 0 -> Calls]
    OBVIOUS
  <1>2. 0 \in 0 .. MaxQueue
    BY ConstantsAssumption
  <1> QED
    BY <1>1, <1>2 DEF Batches, SeqOf

-----------------------------------------------------------------------------
(* Type correctness.  TypeOK is not inductive: that a step key names a row  *)
(* of the journal needs the round of a state in phase "tools" to be one of  *)
(* the counted rounds, and a worker at the journal to stand inside a batch. *)

GoodStates == {s \in States : s.phase = "tools" => s.round \in 1 .. MaxRounds}
Rows == [status : Statuses, st : GoodStates, cancel : BOOLEAN,
         owner : Workers \cup {None, "dead"}, lease : {"none", "live", "lapsed"}]
JournalRows == [st : {"none", "started", "done"}, call : Calls \cup {None}, ok : BOOLEAN]
ApprovalRows ==
  [run : Runs \cup {None}, due : BOOLEAN,
   status : {"unused", "pending", "approved", "denied", "expired", "cancelled"},
   calls : SUBSET [key : Keys, call : Calls]]
AtTool == {"journal", "started", "execute", "executed"}
Places == {"idle", "begin", "model", "tools", "commit"} \cup AtTool

RunTyped == run \in [Runs -> Rows]
StepsTyped == steps \in [Runs -> [Keys -> JournalRows]]
ApprovalsTyped == /\ approvals \in [Approvals -> ApprovalRows]
                  /\ \A a \in Approvals : approvals[a].status # "unused" => approvals[a].run \in Runs
WorkerTyped ==
  /\ pc \in [Workers -> Places]
  /\ cur \in [Workers -> Runs \cup {None}]
  /\ loc \in [Workers -> GoodStates]
  /\ out \in [Workers -> Statuses \cup {None, "ok", "bad"}]
  /\ \A w \in Workers : pc[w] # "idle" => cur[w] \in Runs
  /\ \A w \in Workers : pc[w] \in {"tools"} \cup AtTool => loc[w].phase = "tools"
  /\ \A w \in Workers : pc[w] \in AtTool => InBatch(loc[w])
  /\ \A w \in Workers : pc[w] = "commit" => out[w] \in Statuses
RecTyped == /\ rec \in [Admins -> [run : Runs \cup {None}, st : GoodStates]]
            /\ \A a \in Admins : rec[a] # NoRequest => rec[a].run \in Runs
EffectsTyped == effects \in [Runs -> [Keys -> Nat]] /\ crashes \in 0 .. MaxCrashes

Typed == /\ RunTyped /\ StepsTyped /\ ApprovalsTyped /\ WorkerTyped /\ RecTyped /\ EffectsTyped

LEMMA NewStateGood == NewState \in GoodStates
  <1> USE EmptyBatch, ConstantsAssumption
  <1>1. NewState \in States
    BY DEF NewState, States, Reasons
  <1> QED
    BY <1>1 DEF NewState, GoodStates

\* Inside a batch the step key names a row of the journal.
LEMMA KeyInKeys ==
  ASSUME NEW s \in GoodStates, InBatch(s)
  PROVE  /\ Key(s) \in Keys /\ Call(s) \in Calls
         /\ s.idx + 1 \in 0 .. MaxQueue
  <1>1. /\ s.queue \in Batches /\ s.idx \in 0 .. MaxQueue
        /\ s.round \in 1 .. MaxRounds /\ s.idx < Len(s.queue)
    BY DEF GoodStates, States, InBatch
  <1>2. /\ Len(s.queue) \in 0 .. MaxQueue
        /\ \A i \in 1 .. Len(s.queue) : s.queue[i] \in Calls
    BY <1>1, BatchFacts
  <1> QED
    BY <1>1, <1>2, ConstantsAssumption DEF Key, Call, Keys

LEMMA ConsumedGood ==
  ASSUME NEW s \in GoodStates, InBatch(s), NEW ok \in BOOLEAN, NEW reason \in Reasons
  PROVE  [Consumed(s, ok) EXCEPT !.reason = reason] \in GoodStates
  <1>1. Call(s) \in Calls /\ s.idx + 1 \in 0 .. MaxQueue
    BY KeyInKeys
  <1> QED
    BY <1>1 DEF GoodStates, States, Consumed, Counted

\* Whatever ends a step, the worker's variables keep their types.
LEMMA FinishTyped ==
  ASSUME WorkerTyped, NEW w \in Workers, pc[w] # "idle",
         NEW s \in GoodStates, NEW status \in Statuses, Finish(w, s, status)
  PROVE  WorkerTyped'
  BY DEF WorkerTyped, Finish, Places, AtTool

LEMMA ConsumeTyped ==
  ASSUME WorkerTyped, NEW w \in Workers, pc[w] # "idle",
         InBatch(loc[w]), NEW ok \in BOOLEAN, Consume(w, ok)
  PROVE  WorkerTyped'
  <1>1. PICK status \in {"queued", "paused", "waiting_input"} :
          Finish(w, [Consumed(loc[w], ok) EXCEPT !.reason = WhyStopped(loc[w], status)], status)
    BY DEF Consume
  <1>2. loc[w] \in GoodStates /\ loc[w].reason \in Reasons
    BY DEF WorkerTyped, GoodStates, States
  <1>3. WhyStopped(loc[w], status) \in Reasons
    BY <1>2 DEF Reasons, WhyStopped
  <1>4. [Consumed(loc[w], ok) EXCEPT !.reason = WhyStopped(loc[w], status)] \in GoodStates
    BY <1>2, <1>3, ConsumedGood
  <1>5. status \in Statuses
    BY DEF Statuses, WAITING
  <1> QED
    BY <1>1, <1>4, <1>5, FinishTyped

LEMMA GoToTyped ==
  ASSUME WorkerTyped, NEW w \in Workers, pc[w] # "idle", NEW place \in Places \ {"commit"},
         place \in {"tools"} \cup AtTool => loc[w].phase = "tools",
         place \in AtTool => InBatch(loc[w]), GoTo(w, place)
  PROVE  WorkerTyped'
  BY DEF WorkerTyped, GoTo

LEMMA InitTyped == Init => Typed
  <1> SUFFICES ASSUME Init PROVE Typed
    OBVIOUS
  <1>1. NewState \in GoodStates
    BY NewStateGood
  <1>2. NoRun \in Rows /\ NoStep \in JournalRows /\ NoApproval \in ApprovalRows
    BY <1>1 DEF NoRun, Rows, NoStep, JournalRows, NoApproval, ApprovalRows, Statuses
  <1>3. NoRequest \in [run : Runs \cup {None}, st : GoodStates]
    BY <1>1 DEF NoRequest
  <1>4. RunTyped /\ StepsTyped /\ ApprovalsTyped /\ RecTyped /\ EffectsTyped
    BY <1>2, <1>3, ConstantsAssumption
    DEF Init, RunTyped, StepsTyped, ApprovalsTyped, RecTyped, EffectsTyped, NoApproval
  <1>5. WorkerTyped
    BY <1>1 DEF Init, WorkerTyped, Places, AtTool
  <1> QED
    BY <1>4, <1>5 DEF Typed

\* The requests of users and administrators.
LEMMA UserStepTyped ==
  ASSUME Typed, UserStep
  PROVE  Typed'
  <1> USE DEF Typed
  <1>w. UNCHANGED <<pc, cur, loc, out>> => WorkerTyped'
    BY DEF WorkerTyped, InBatch
  <1>1. ASSUME NEW r \in Runs, Create(r) PROVE Typed'
    <2>1. [run[r] EXCEPT !.status = "queued"] \in Rows
      BY DEF RunTyped, Rows, Statuses
    <2>2. RunTyped'
      BY <1>1, <2>1 DEF Create, RunTyped
    <2> QED
      BY <1>w, <1>1, <2>2 DEF worker, Create, StepsTyped, ApprovalsTyped, RecTyped, EffectsTyped
  <1>2. ASSUME NEW r \in Runs, Cancel(r) PROVE Typed'
    <2>r. StoppedStatus(r) \in Statuses
      BY DEF RunTyped, Rows, StoppedStatus, Statuses, TERMINAL
    <2>s. [run[r] EXCEPT !.cancel = TRUE, !.status = StoppedStatus(r)] \in Rows
      BY <2>r DEF RunTyped, Rows
    <2>1. RunTyped'
      BY <1>2, <2>s DEF Cancel, RunTyped
    <2>2. ApprovalsTyped'
      BY <1>2 DEF Cancel, ApprovalsTyped, ApprovalRows
    <2> QED
      BY <1>w, <1>2, <2>1, <2>2 DEF worker, Cancel, StepsTyped, RecTyped, EffectsTyped
  <1>3. ASSUME NEW r \in Runs, Resume(r) PROVE Typed'
    <2>1. run[r] \in Rows
      BY DEF RunTyped
    <2>2. [run[r].st EXCEPT !.reason = "none"] \in GoodStates
      BY <2>1 DEF Rows, GoodStates, States, Reasons
    <2>3. [run[r] EXCEPT !.status = "queued", !.st = [run[r].st EXCEPT !.reason = "none"]] \in Rows
      BY <2>1, <2>2 DEF Rows, Statuses
    <2>4. RunTyped'
      BY <1>3, <2>3 DEF Resume, RunTyped
    <2> QED
      BY <1>w, <1>3, <2>4 DEF worker, Resume, StepsTyped, ApprovalsTyped, RecTyped, EffectsTyped
  <1>7. ASSUME NEW r \in Runs, ScriptInputLost(r) PROVE Typed'
    <2>1. run[r] \in Rows
      BY DEF RunTyped
    <2>2. [run[r].st EXCEPT !.reason = "script_input_unavailable"] \in GoodStates
      BY <2>1 DEF Rows, GoodStates, States, Reasons
    <2>3. [run[r] EXCEPT !.status = "paused",
                         !.st = [run[r].st EXCEPT !.reason = "script_input_unavailable"]] \in Rows
      BY <2>1, <2>2 DEF Rows, Statuses, WAITING
    <2>4. RunTyped'
      BY <1>7, <2>3 DEF ScriptInputLost, RunTyped
    <2> QED
      BY <1>w, <1>7, <2>4 DEF worker, ScriptInputLost, StepsTyped, ApprovalsTyped, RecTyped, EffectsTyped
  <1>4. ASSUME NEW a \in Approvals, NEW ok \in BOOLEAN, Resolve(a, ok) PROVE Typed'
    <2> DEFINE r == approvals[a].run
               d == {[key |-> c.key, call |-> c.call, ok |-> ok] : c \in approvals[a].calls}
    <2>1. approvals[a] \in ApprovalRows
      BY DEF ApprovalsTyped
    <2>2. d \in SUBSET Decisions
      BY <2>1 DEF Decisions, ApprovalRows
    <2>3. run' = [run EXCEPT ![r].status = "queued", ![r].st.approval = None, ![r].st.decisions = d]
      BY <1>4 DEF Resolve
    <2>r. r \in Runs /\ run[r] \in Rows
      BY <1>4, <2>1 DEF Resolve, ApprovalsTyped, RunTyped
    <2>s. [run[r].st EXCEPT !.approval = None, !.decisions = d] \in GoodStates
      BY <2>2, <2>r DEF Rows, GoodStates, States
    <2>t. [run[r] EXCEPT !.status = "queued",
                         !.st = [run[r].st EXCEPT !.approval = None, !.decisions = d]] \in Rows
      BY <2>r, <2>s DEF Rows, Statuses
    <2>4. RunTyped'
      BY <2>3, <2>r, <2>t DEF RunTyped
    <2>5. ApprovalsTyped'
      BY <1>4, <2>1 DEF Resolve, ApprovalsTyped, ApprovalRows
    <2> QED
      BY <1>w, <1>4, <2>4, <2>5 DEF worker, Resolve, StepsTyped, RecTyped, EffectsTyped
  <1>5. ASSUME NEW a \in Admins, NEW r \in Runs, ReconcileRead(a, r) PROVE Typed'
    <2>1. RecTyped'
      BY <1>5 DEF ReconcileRead, RecTyped, RunTyped, Rows
    <2> QED
      BY <1>w, <1>5, <2>1 DEF worker, ReconcileRead, RunTyped, StepsTyped, ApprovalsTyped, EffectsTyped
  <1>6. ASSUME NEW a \in Admins, NEW k \in Keys, NEW ok \in BOOLEAN, ReconcileWrite(a, k, ok) PROVE Typed'
    <2>1. rec[a] \in [run : Runs \cup {None}, st : GoodStates]
      BY DEF RecTyped
    <2>2. RecTyped'
      BY <1>6, NewStateGood DEF ReconcileWrite, RecTyped, NoRequest
    <2>3. [rec[a].st EXCEPT !.reason = "none"] \in GoodStates
      BY <2>1 DEF GoodStates, States, Reasons
    <2>4. RunTyped'
      BY <1>6, <2>3 DEF ReconcileWrite, RunTyped, Rows, Statuses
    <2>5. StepsTyped'
      <3> DEFINE r == rec[a].run
                 row == [steps[r][k] EXCEPT !.st = "done", !.ok = Settled(steps[r][k], ok)]
      <3>1. r \in Runs
        BY <1>6 DEF ReconcileWrite, RecTyped
      <3>2. steps[r] \in [Keys -> JournalRows] /\ steps[r][k] \in JournalRows
        BY <3>1 DEF StepsTyped
      <3>3. Settled(steps[r][k], ok) \in BOOLEAN
        BY <3>2 DEF Settled, JournalRows
      <3>4. row \in JournalRows
        BY <3>2, <3>3 DEF JournalRows
      <3>5. steps' = steps \/ steps' = [steps EXCEPT ![r] = [steps[r] EXCEPT ![k] = row]]
        BY <1>6, <3>2 DEF ReconcileWrite, StepsTyped, JournalRows
      <3> QED
        BY <3>1, <3>2, <3>4, <3>5 DEF StepsTyped
    <2> QED
      BY <1>w, <1>6, <2>2, <2>4, <2>5 DEF worker, ReconcileWrite, ApprovalsTyped, EffectsTyped
  <1> QED
    BY <1>1, <1>2, <1>3, <1>4, <1>5, <1>6, <1>7 DEF UserStep

\* The background loop, the clock and crashes.
LEMMA BackgroundTyped ==
  ASSUME Typed,
         \/ ExpireApprovals \/ Crash
         \/ \E a \in Approvals : ExpireOne(a) \/ ApprovalFallsDue(a)
         \/ \E r \in Runs : LeaseLapses(r)
         \/ \E w \in Workers : Heartbeat(w) \/ \E r \in Runs : Claim(w, r)
  PROVE  Typed'
  <1> USE DEF Typed
  <1>w. UNCHANGED <<pc, cur, loc, out>> => WorkerTyped'
    BY DEF WorkerTyped, InBatch
  <1>e. ASSUME NEW r \in Runs PROVE Expired(r) \in Rows
    <2>1. run[r] \in Rows
      BY DEF RunTyped
    <2>2. [run[r].st EXCEPT !.reason = "approval_expired", !.approval = None] \in GoodStates
      BY <2>1 DEF Rows, GoodStates, States, Reasons
    <2>3. Expired(r) = [run[r] EXCEPT !.status = "paused",
                          !.st = [run[r].st EXCEPT !.reason = "approval_expired", !.approval = None]]
      BY <2>1 DEF Expired, Rows, GoodStates, States
    <2> QED
      BY <2>1, <2>2, <2>3 DEF Rows, Statuses, WAITING
  <1>1. ASSUME ExpireApprovals PROVE Typed'
    <2>1. RunTyped'
      BY <1>1, <1>e DEF ExpireApprovals, RunTyped
    <2>2. ApprovalsTyped'
      BY <1>1 DEF ExpireApprovals, ApprovalsTyped, ApprovalRows, Due
    <2> QED
      BY <1>w, <1>1, <2>1, <2>2 DEF worker, ExpireApprovals, StepsTyped, RecTyped, EffectsTyped
  <1>2. ASSUME Crash PROVE Typed'
    <2>1. RunTyped'
      BY <1>2 DEF Crash, RunTyped, Rows
    <2>2. WorkerTyped'
      BY <1>2, NewStateGood DEF Crash, WorkerTyped, Places, AtTool
    <2>3. RecTyped'
      BY <1>2, NewStateGood DEF Crash, RecTyped, NoRequest
    <2>4. EffectsTyped'
      BY <1>2, ConstantsAssumption DEF Crash, EffectsTyped
    <2> QED
      BY <1>2, <2>1, <2>2, <2>3, <2>4 DEF Crash, StepsTyped, ApprovalsTyped
  <1>3. ASSUME NEW a \in Approvals, ExpireOne(a) PROVE Typed'
    <2>1. approvals[a].run \in Runs
      BY <1>3 DEF ExpireOne, Due, ApprovalsTyped
    <2>2. RunTyped'
      BY <1>3, <1>e, <2>1 DEF ExpireOne, RunTyped
    <2>3. ApprovalsTyped'
      BY <1>3, <2>1 DEF ExpireOne, ApprovalsTyped, ApprovalRows
    <2> QED
      BY <1>w, <1>3, <2>2, <2>3 DEF worker, ExpireOne, StepsTyped, RecTyped, EffectsTyped
  <1>4. ASSUME NEW a \in Approvals, ApprovalFallsDue(a) PROVE Typed'
    <2>1. ApprovalsTyped'
      BY <1>4 DEF ApprovalFallsDue, ApprovalsTyped, ApprovalRows
    <2> QED
      BY <1>w, <1>4, <2>1 DEF worker, ApprovalFallsDue, RunTyped, StepsTyped, RecTyped, EffectsTyped
  <1>5. ASSUME NEW r \in Runs, LeaseLapses(r) PROVE Typed'
    <2>1. RunTyped'
      BY <1>5 DEF LeaseLapses, RunTyped, Rows
    <2> QED
      BY <1>w, <1>5, <2>1 DEF worker, LeaseLapses, ApprovalsTyped, StepsTyped, RecTyped, EffectsTyped
  <1>6. ASSUME NEW w \in Workers, Heartbeat(w) PROVE Typed'
    <2>1. RunTyped'
      BY <1>6 DEF Heartbeat, RunTyped, Rows
    <2> QED
      BY <1>w, <1>6, <2>1 DEF worker, Heartbeat, ApprovalsTyped, StepsTyped, RecTyped, EffectsTyped
  <1>7. ASSUME NEW w \in Workers, NEW r \in Runs, Claim(w, r) PROVE Typed'
    <2>1. run[r] \in Rows
      BY DEF RunTyped
    <2>2. [run[r] EXCEPT !.status = "running", !.owner = w, !.lease = "live"] \in Rows
      BY <2>1 DEF Rows, Statuses
    <2>3. RunTyped'
      BY <1>7, <2>2 DEF Claim, RunTyped
    <2>4. /\ pc' = [pc EXCEPT ![w] = "begin"] /\ cur' = [cur EXCEPT ![w] = r]
          /\ loc' = [loc EXCEPT ![w] = run[r].st] /\ out' = out /\ run[r].st \in GoodStates
      BY <1>7, <2>1 DEF Claim, Rows
    <2>5. WorkerTyped'
      BY <2>4 DEF WorkerTyped, Places, AtTool, InBatch
    <2> QED
      BY <1>7, <2>3, <2>5 DEF Claim, ApprovalsTyped, StepsTyped, RecTyped, EffectsTyped
  <1> QED
    BY <1>1, <1>2, <1>3, <1>4, <1>5, <1>6, <1>7

\* The steps of a worker: they touch its own variables, and at most one table.
LEMMA WorkerStepTyped ==
  ASSUME Typed, NEW w \in Workers, WorkerStep(w)
  PROVE  Typed'
  <1> USE DEF Typed
  <1> DEFINE s == loc[w]
  <1>s. s \in GoodStates /\ s \in States
    BY DEF WorkerTyped, GoodStates
  <1>r. [s EXCEPT !.reason = "blocked"] \in GoodStates /\ [s EXCEPT !.reason = "execution_unknown"] \in GoodStates
    BY <1>s DEF GoodStates, States, Reasons
  <1>p. /\ \A x \in {"model", "verify", "finalize"} : [s EXCEPT !.phase = x] \in GoodStates
        /\ \A a \in Approvals : [s EXCEPT !.approval = a] \in GoodStates
    BY <1>s DEF GoodStates, States
  <1>t. \A x \in {"queued", "running", "waiting_approval", "waiting_input", "paused", "succeeded",
                  "failed", "cancelled"} : x \in Statuses
    BY DEF Statuses, TERMINAL, WAITING
  <1>o. UNCHANGED <<run, steps, approvals, rec, effects, crashes>> /\ WorkerTyped' => Typed'
    BY DEF RunTyped, StepsTyped, ApprovalsTyped, RecTyped, EffectsTyped
  <1>f. ASSUME NEW x \in GoodStates, NEW status \in Statuses, pc[w] # "idle", Finish(w, x, status)
        PROVE WorkerTyped'
    BY <1>f, FinishTyped
  <1>1. ASSUME Begin(w) PROVE Typed'
    <2>1. \/ Finish(w, s, "cancelled")
          \/ GoTo(w, "model")
          \/ s.phase = "tools" /\ GoTo(w, "tools")
          \/ Finish(w, s, IF s.failures = {} THEN "succeeded" ELSE "failed")
      BY <1>1 DEF Begin
    <2>2. pc[w] # "idle"
      BY <1>1 DEF Begin
    <2>3. (IF s.failures = {} THEN "succeeded" ELSE "failed") \in Statuses /\ "cancelled" \in Statuses
      BY <1>t
    <2>4. WorkerTyped'
      BY <2>1, <2>2, <2>3, <1>s, <1>f, GoToTyped DEF Places, AtTool
    <2> QED
      BY <1>1, <1>o, <2>4 DEF Begin
  <1>2. ASSUME Blocked(w) PROVE Typed'
    BY <1>2, <1>r, <1>t, <1>f, <1>o DEF Blocked
  <1>3. ASSUME Reply(w) PROVE Typed'
    <2> DEFINE n == [s EXCEPT !.round = NextRound(@)]
    <2>1. pc[w] = "model" /\ s.phase = "model"
      BY <1>3 DEF Reply
    <2>2. NextRound(s.round) \in 0 .. MaxRounds + 1
      BY <1>s, ConstantsAssumption DEF States, NextRound
    <2>3. n \in GoodStates
      BY <1>s, <2>1, <2>2 DEF GoodStates, States
    <2>4. [n EXCEPT !.reason = "blocked"] \in GoodStates
      BY <2>3 DEF GoodStates, States, Reasons
    <2>5. \A p \in {"verify", "finalize"} : [n EXCEPT !.phase = p] \in GoodStates
      BY <2>3 DEF GoodStates, States
    <2>6. ASSUME NEW q \in Batches, s.round < MaxRounds
          PROVE [n EXCEPT !.phase = "tools", !.queue = q, !.idx = 0] \in GoodStates
      <3>1. NextRound(s.round) \in 1 .. MaxRounds
        BY <1>s, <2>6, ConstantsAssumption DEF States, NextRound
      <3>2. 0 \in 0 .. MaxQueue
        BY ConstantsAssumption
      <3>3. n.round \in 1 .. MaxRounds
        BY <1>s, <3>1 DEF States
      <3> QED
        BY <2>3, <3>2, <3>3 DEF GoodStates, States
    <2>7. \/ Finish(w, s, "cancelled")
          \/ \E q \in Batches : s.round < MaxRounds /\
               Finish(w, [n EXCEPT !.phase = "tools", !.queue = q, !.idx = 0], "queued")
          \/ Finish(w, n, "queued")
          \/ Finish(w, [n EXCEPT !.reason = "blocked"], "paused")
          \/ Finish(w, n, "failed")
          \/ \E p \in {"verify", "finalize"} : Finish(w, [n EXCEPT !.phase = p], "queued")
      BY <1>3 DEF Reply
    <2>8. WorkerTyped'
      BY <2>1, <2>3, <2>4, <2>5, <2>6, <2>7, <1>s, <1>t, <1>f
    <2> QED
      BY <1>3, <1>o, <2>8 DEF Reply
  <1>4. ASSUME Verify(w) PROVE Typed'
    <2>1. \/ Finish(w, s, "cancelled")
          \/ Finish(w, [s EXCEPT !.phase = "finalize"], "queued")
          \/ Finish(w, [s EXCEPT !.phase = "model"], "queued")
          \/ Finish(w, [s EXCEPT !.reason = "blocked"], "paused")
      BY <1>4 DEF Verify
    <2>2. pc[w] # "idle"
      BY <1>4 DEF Verify
    <2>3. WorkerTyped'
      BY <2>1, <2>2, <1>s, <1>r, <1>p, <1>t, <1>f
    <2> QED
      BY <1>4, <1>o, <2>3 DEF Verify
  <1>c. ASSUME InBatch(s), pc[w] # "idle", NEW ok \in BOOLEAN, Consume(w, ok) PROVE WorkerTyped'
    BY <1>c, ConsumeTyped
  <1>k. ASSUME InBatch(s) PROVE [s EXCEPT !.idx = @ + 1] \in GoodStates
    BY <1>k, <1>s, KeyInKeys DEF GoodStates, States
  <1>5. ASSUME EndBatch(w) PROVE Typed'
    BY <1>5, <1>p, <1>t, <1>f, <1>o DEF EndBatch
  <1>6. ASSUME AskInput(w) PROVE Typed'
    <2>1. [s EXCEPT !.idx = @ + 1] \in GoodStates /\ pc[w] # "idle"
      BY <1>6, <1>k DEF AskInput
    <2>2. [s EXCEPT !.idx = @ + 1, !.reason = "blocked"] \in GoodStates
      BY <2>1, <1>s DEF GoodStates, States, Reasons
    <2>3. WorkerTyped'
      BY <1>6, <2>1, <2>2, <1>t, <1>f DEF AskInput
    <2> QED
      BY <1>6, <2>3, <1>o DEF AskInput
  <1>7. ASSUME Refuse(w) PROVE Typed'
    BY <1>7, <1>c, <1>o DEF Refuse
  <1>8. ASSUME DecisionMismatch(w) PROVE Typed'
    BY <1>8, <1>r, <1>t, <1>f, <1>o DEF DecisionMismatch
  <1>9. ASSUME NEW a \in Approvals, RequestApproval(w, a) PROVE Typed'
    <2>1. WorkerTyped'
      BY <1>9, <1>p, <1>t, <1>f DEF RequestApproval
    <2>2. Asked(s) \in SUBSET [key : Keys, call : Calls]
      <3>1. s.round \in 1 .. MaxRounds /\ s.queue \in Batches /\ s.idx \in 0 .. MaxQueue
        BY <1>9, <1>s DEF RequestApproval, InBatch, GoodStates, States
      <3>2. Len(s.queue) \in 0 .. MaxQueue /\ \A j \in 1 .. Len(s.queue) : s.queue[j] \in Calls
        BY <3>1, BatchFacts
      <3>3. ASSUME NEW i \in s.idx .. Len(s.queue) - 1
            PROVE  <<s.round, i>> \in Keys /\ s.queue[i + 1] \in Calls
        <4> DEFINE n == Len(s.queue)
        <4>1. n \in Nat /\ n <= MaxQueue /\ s.idx \in Nat /\ MaxQueue \in Nat
          BY <3>1, <3>2, ConstantsAssumption
        <4>2. i \in s.idx .. n - 1
          OBVIOUS
        <4>3. i \in 0 .. MaxQueue - 1 /\ i + 1 \in 1 .. n
          <5> HIDE DEF n
          <5> QED
            BY <4>1, <4>2
        <4> QED
          BY <4>3, <3>1, <3>2 DEF Keys
      <3>4. ASSUME NEW c \in Asked(s) PROVE c \in [key : Keys, call : Calls]
        <4>1. PICK i \in s.idx .. Len(s.queue) - 1 : c = [key |-> <<s.round, i>>, call |-> s.queue[i + 1]]
          BY DEF Asked, Pending
        <4> QED
          BY <4>1, <3>3
      <3> QED
        BY <3>4
    <2>3. cur[w] \in Runs
      BY <1>9 DEF RequestApproval, WorkerTyped
    <2>4. ApprovalsTyped'
      BY <1>9, <2>2, <2>3 DEF RequestApproval, ApprovalsTyped, ApprovalRows
    <2> QED
      BY <1>9, <2>1, <2>4 DEF RequestApproval, RunTyped, StepsTyped, RecTyped, EffectsTyped
  <1>10. ASSUME Permit(w) PROVE Typed'
    <2>1. Finish(w, s, "cancelled") \/ GoTo(w, "journal")
      BY <1>10 DEF Permit
    <2>2. pc[w] # "idle" /\ InBatch(s) /\ s.phase = "tools"
      BY <1>10 DEF Permit, InBatch
    <2>3. WorkerTyped'
      BY <2>1, <2>2, <1>s, <1>t, <1>f, GoToTyped DEF Places, AtTool
    <2> QED
      BY <1>10, <1>o, <2>3 DEF Permit
  <1>a. ASSUME pc[w] \in AtTool
        PROVE  /\ pc[w] # "idle" /\ cur[w] \in Runs /\ InBatch(s) /\ s.phase = "tools"
               /\ Key(s) \in Keys /\ Call(s) \in Calls
               /\ steps[cur[w]] \in [Keys -> JournalRows] /\ steps[cur[w]][Key(s)] \in JournalRows
    <2>1. pc[w] # "idle" /\ cur[w] \in Runs /\ InBatch(s) /\ s.phase = "tools"
      BY <1>a DEF WorkerTyped, AtTool
    <2>2. Key(s) \in Keys /\ Call(s) \in Calls
      BY <2>1, <1>s, KeyInKeys
    <2> QED
      BY <2>1, <2>2 DEF StepsTyped
  <1>11. ASSUME Journal(w) PROVE Typed'
    <2> DEFINE r == cur[w]
               k == Key(s)
               row == [st |-> "started", call |-> Call(s), ok |-> FALSE]
    <2>1. pc[w] \in AtTool
      BY <1>11 DEF Journal, AtTool
    <2>2. row \in JournalRows
      BY <2>1, <1>a DEF JournalRows
    <2>3. steps[r][k].ok \in BOOLEAN
      BY <2>1, <1>a DEF JournalRows
    <2>4. \/ steps' = [steps EXCEPT ![r] = [steps[r] EXCEPT ![k] = row]] /\ GoTo(w, "started")
          \/ Consume(w, steps[r][k].ok) /\ steps' = steps
          \/ Finish(w, [s EXCEPT !.reason = "execution_unknown"], "paused") /\ steps' = steps
      BY <1>11 DEF Journal
    <2>5. StepsTyped'
      BY <2>1, <2>2, <2>4, <1>a DEF StepsTyped
    <2>6. WorkerTyped'
      BY <2>1, <2>3, <2>4, <1>a, <1>c, <1>r, <1>t, <1>f, GoToTyped DEF Places, AtTool
    <2> QED
      BY <1>11, <2>5, <2>6 DEF Journal, RunTyped, ApprovalsTyped, RecTyped, EffectsTyped
  <1>12. ASSUME BeforeExecute(w) PROVE Typed'
    <2>1. Finish(w, s, "cancelled") \/ GoTo(w, "execute")
      BY <1>12 DEF BeforeExecute
    <2>2. pc[w] \in AtTool
      BY <1>12 DEF BeforeExecute, AtTool
    <2>3. WorkerTyped'
      BY <2>1, <2>2, <1>a, <1>s, <1>t, <1>f, GoToTyped DEF Places, AtTool
    <2> QED
      BY <1>12, <1>o, <2>3 DEF BeforeExecute
  <1>13. ASSUME Execute(w) PROVE Typed'
    <2>1. pc[w] \in AtTool
      BY <1>13 DEF Execute, AtTool
    <2>2. WorkerTyped'
      BY <1>13, <2>1, <1>a DEF Execute, WorkerTyped, Places, AtTool, InBatch
    <2>3. effects[cur[w]] \in [Keys -> Nat] /\ effects[cur[w]][Key(s)] + 1 \in Nat
      BY <2>1, <1>a DEF EffectsTyped
    <2>4. effects' = [effects EXCEPT ![cur[w]] =
                        [effects[cur[w]] EXCEPT ![Key(s)] = effects[cur[w]][Key(s)] + 1]]
      BY <1>13 DEF Execute
    <2>5. EffectsTyped'
      BY <1>13, <2>1, <2>3, <2>4, <1>a DEF Execute, EffectsTyped
    <2> QED
      BY <1>13, <2>2, <2>5 DEF Execute, RunTyped, StepsTyped, ApprovalsTyped, RecTyped
  <1>14. ASSUME ExecuteRaises(w) PROVE Typed'
    BY <1>14, <1>r, <1>t, <1>f, <1>o DEF ExecuteRaises
  <1>15. ASSUME Record(w) PROVE Typed'
    <2> DEFINE ok == out[w] = "ok"
               row == [steps[cur[w]][Key(s)] EXCEPT !.st = "done", !.ok = ok]
    <2>1. pc[w] \in AtTool
      BY <1>15 DEF Record, AtTool
    <2>2. ok \in BOOLEAN
      OBVIOUS
    <2>3. WorkerTyped'
      BY <1>15, <2>1, <2>2, <1>a, <1>c DEF Record
    <2>4. row \in JournalRows
      BY <2>1, <2>2, <1>a DEF JournalRows
    <2>5. steps' = [steps EXCEPT ![cur[w]] = [steps[cur[w]] EXCEPT ![Key(s)] = row]]
      BY <1>15, <2>1, <1>a DEF Record, JournalRows
    <2>6. StepsTyped'
      BY <2>1, <2>4, <2>5, <1>a DEF StepsTyped
    <2> QED
      BY <1>15, <2>3, <2>6 DEF Record, RunTyped, ApprovalsTyped, RecTyped, EffectsTyped
  <1>16. ASSUME Checkpoint(w) PROVE Typed'
    <2> DEFINE r == cur[w]
               row == [run[r] EXCEPT !.st = s, !.owner = None, !.lease = "none",
                                     !.status = CheckedInStatus(w, r)]
    <2>1. r \in Runs /\ out[w] \in Statuses
      BY <1>16 DEF Checkpoint, WorkerTyped
    <2>2. CheckedInStatus(w, r) \in Statuses
      BY <2>1, <1>t DEF CheckedInStatus
    <2>3. row \in Rows
      BY <2>1, <2>2, <1>s DEF RunTyped, Rows
    <2>4. run' = run \/ run' = [run EXCEPT ![r] = row]
      BY <1>16 DEF Checkpoint
    <2>5. RunTyped'
      BY <2>1, <2>3, <2>4 DEF RunTyped
    <2>6. WorkerTyped'
      BY <1>16, NewStateGood DEF Checkpoint, WorkerTyped, Places, AtTool, InBatch
    <2> QED
      BY <1>16, <2>5, <2>6 DEF Checkpoint, StepsTyped, ApprovalsTyped, RecTyped, EffectsTyped
  <1> QED
    BY <1>1, <1>2, <1>3, <1>4, <1>5, <1>6, <1>7, <1>8, <1>9, <1>10, <1>11, <1>12, <1>13, <1>14,
       <1>15, <1>16 DEF WorkerStep

LEMMA TypedNext == Typed /\ [Next]_vars => Typed'
  <1> SUFFICES ASSUME Typed, [Next]_vars PROVE Typed'
    OBVIOUS
  <1>1. CASE UserStep
    BY <1>1, UserStepTyped
  <1>2. CASE \E w \in Workers : WorkerStep(w)
    BY <1>2, WorkerStepTyped
  <1>3. CASE \/ ExpireApprovals \/ Crash
             \/ \E a \in Approvals : ExpireOne(a) \/ ApprovalFallsDue(a)
             \/ \E r \in Runs : LeaseLapses(r)
             \/ \E w \in Workers : Heartbeat(w) \/ \E r \in Runs : Claim(w, r)
    BY <1>3, BackgroundTyped
  <1>4. CASE UNCHANGED vars
    BY <1>4 DEF vars, Typed, RunTyped, StepsTyped, ApprovalsTyped, WorkerTyped, RecTyped, EffectsTyped,
                InBatch
  <1> QED
    BY <1>1, <1>2, <1>3, <1>4 DEF Next

\* The model's type invariant, for all constants.
THEOREM TypeCorrect == Spec => []TypeOK
  <1>1. Typed => TypeOK
    <2> SUFFICES ASSUME Typed PROVE TypeOK
      OBVIOUS
    <2>1. GoodStates \subseteq States
      BY DEF GoodStates
    <2> QED
      BY <2>1 DEF Typed, TypeOK, RunTyped, StepsTyped, ApprovalsTyped, WorkerTyped, RecTyped,
                  EffectsTyped, Rows, JournalRows, ApprovalRows, Places, AtTool
  <1> QED
    BY <1>1, InitTyped, TypedNext, PTL DEF Spec

-----------------------------------------------------------------------------
(* At most one effect per step.  The strengthening: a worker between its    *)
(* journal entry and the tool is alone with that entry, and the entry has   *)
(* not acted yet; a step without an entry has not acted.                    *)

Armed(w) == pc[w] \in {"started", "execute"}

Once ==
  /\ \A r \in Runs, k \in Keys : effects[r][k] <= 1
  /\ \A r \in Runs, k \in Keys : steps[r][k].st = "none" => effects[r][k] = 0
  /\ \A w \in Workers : Armed(w) => /\ steps[cur[w]][Key(loc[w])].st # "none"
                                    /\ effects[cur[w]][Key(loc[w])] = 0
  /\ \A w, v \in Workers : Armed(w) /\ Armed(v) /\ cur[w] = cur[v] /\ Key(loc[w]) = Key(loc[v]) => w = v

\* Journal entries are not taken back, and a call once entered stays.
EntriesStay ==
  \A r \in Runs, k \in Keys :
    /\ steps'[r][k].st = "none" => steps[r][k].st = "none"
    /\ steps[r][k].st # "none" => steps'[r][k].call = steps[r][k].call
\* No worker arrives between the journal and the tool.
NoneArmed ==
  \A w \in Workers : Armed(w)' => Armed(w) /\ cur'[w] = cur[w] /\ loc'[w] = loc[w]

LEMMA KeyPrimed ==
  ASSUME NEW w, loc'[w] = loc[w]
  PROVE  Key(loc[w])' = Key(loc[w])
  BY DEF Key

LEMMA ArmedAtKey ==
  ASSUME Typed, NEW w \in Workers, Armed(w)
  PROVE  /\ cur[w] \in Runs /\ InBatch(loc[w]) /\ loc[w] \in GoodStates
         /\ Key(loc[w]) \in Keys /\ Call(loc[w]) \in Calls
  BY KeyInKeys DEF Armed, Typed, WorkerTyped, AtTool

LEMMA EntryUpdate ==
  ASSUME StepsTyped, NEW r \in Runs, NEW k \in Keys, NEW row \in JournalRows,
         row.st # "none", row.call = steps[r][k].call,
         steps' = [steps EXCEPT ![r] = [steps[r] EXCEPT ![k] = row]]
  PROVE  EntriesStay
  BY DEF EntriesStay, StepsTyped

LEMMA FinishArmsNone ==
  ASSUME WorkerTyped, NEW w \in Workers, NEW x, NEW status, Finish(w, x, status)
  PROVE  NoneArmed
  BY DEF NoneArmed, Armed, WorkerTyped, Finish

\* Every step but Journal and Execute leaves the entries, the effects and the
\* workers at a tool as they are.
LEMMA QuietSteps ==
  ASSUME Typed, [Next]_vars,
         ~ \E w \in Workers : Journal(w) \/ Execute(w)
  PROVE  EntriesStay /\ NoneArmed /\ effects' = effects
  <1> USE DEF EntriesStay, NoneArmed, Armed, Typed
  <1>1. CASE UserStep
    <2>1. UNCHANGED <<pc, cur, loc, effects>>
      BY <1>1 DEF UserStep, Create, Cancel, Resume, ScriptInputLost, Resolve, ReconcileRead, ReconcileWrite, worker
    <2>2. EntriesStay
      <3>1. CASE steps' = steps
        BY <3>1
      <3>2. ASSUME NEW a \in Admins, NEW k \in Keys, NEW ok \in BOOLEAN, ReconcileWrite(a, k, ok)
            PROVE  EntriesStay
        <4> DEFINE r == rec[a].run
                   row == [steps[r][k] EXCEPT !.st = "done", !.ok = Settled(steps[r][k], ok)]
        <4>1. r \in Runs
          BY <3>2 DEF ReconcileWrite, RecTyped
        <4>2. steps[r] \in [Keys -> JournalRows] /\ steps[r][k] \in JournalRows
          BY <4>1 DEF StepsTyped
        <4>3. row \in JournalRows /\ row.st # "none" /\ row.call = steps[r][k].call
          BY <4>2 DEF Settled, JournalRows
        <4>4. steps' = steps \/ steps' = [steps EXCEPT ![r] = [steps[r] EXCEPT ![k] = row]]
          BY <3>2, <4>2 DEF ReconcileWrite, JournalRows
        <4> QED
          BY <3>1, <4>1, <4>3, <4>4, EntryUpdate
      <3> QED
        BY <1>1, <3>1, <3>2 DEF UserStep, Create, Cancel, Resume, ScriptInputLost, Resolve, ReconcileRead
    <2> QED
      BY <2>1, <2>2
  <1>2. CASE ExpireApprovals \/ \E a \in Approvals : ExpireOne(a) \/ ApprovalFallsDue(a)
    BY <1>2 DEF ExpireApprovals, ExpireOne, ApprovalFallsDue, worker
  <1>3. CASE \E r \in Runs : LeaseLapses(r)
    BY <1>3 DEF LeaseLapses, worker
  <1>4. CASE Crash
    BY <1>4 DEF Crash
  <1>5. CASE \E w \in Workers : Heartbeat(w)
    BY <1>5 DEF Heartbeat, worker
  <1>6. CASE \E w \in Workers, r \in Runs : Claim(w, r)
    BY <1>6 DEF Claim, WorkerTyped
  <1>7. CASE UNCHANGED vars
    BY <1>7 DEF vars
  <1>8. ASSUME NEW w \in Workers, WorkerStep(w)
        PROVE  EntriesStay /\ NoneArmed /\ effects' = effects
    <2>1. CASE Record(w)
      <3>1. pc[w] \in AtTool /\ pc[w] # "idle" /\ InBatch(loc[w]) /\ cur[w] \in Runs /\ Key(loc[w]) \in Keys
        BY <2>1, KeyInKeys DEF Record, AtTool, WorkerTyped
      <3>2. steps[cur[w]] \in [Keys -> JournalRows] /\ steps[cur[w]][Key(loc[w])] \in JournalRows
        BY <3>1 DEF StepsTyped
      <3>3. pc' = [pc EXCEPT ![w] = "commit"] /\ cur' = cur /\ effects' = effects
            /\ \A v \in Workers \ {w} : loc'[v] = loc[v]
        BY <2>1 DEF Record, Consume, Finish, WorkerTyped
      <3>4. NoneArmed
        BY <3>3 DEF WorkerTyped
      <3>5. EntriesStay
        <4> DEFINE row == [steps[cur[w]][Key(loc[w])] EXCEPT !.st = "done", !.ok = out[w] = "ok"]
        <4>1. row \in JournalRows /\ row.st # "none" /\ row.call = steps[cur[w]][Key(loc[w])].call
          BY <3>2 DEF JournalRows
        <4>2. steps' = [steps EXCEPT ![cur[w]] = [steps[cur[w]] EXCEPT ![Key(loc[w])] = row]]
          BY <2>1, <3>1, <3>2 DEF Record, JournalRows
        <4> QED
          BY <3>1, <4>1, <4>2, EntryUpdate
      <3> QED
        BY <3>3, <3>4, <3>5
    <2>2. CASE Begin(w) \/ Blocked(w) \/ Reply(w) \/ Verify(w) \/ EndBatch(w) \/ AskInput(w) \/ Refuse(w)
               \/ DecisionMismatch(w) \/ (\E a \in Approvals : RequestApproval(w, a)) \/ ExecuteRaises(w)
      <3>1. \/ \E x, status : Finish(w, x, status)
            \/ GoTo(w, "model") \/ GoTo(w, "tools")
        BY <2>2 DEF Begin, Blocked, Reply, Verify, EndBatch, AskInput, Refuse, DecisionMismatch,
                    RequestApproval, ExecuteRaises, Consume
      <3>2. UNCHANGED <<steps, effects>>
        BY <2>2 DEF Begin, Blocked, Reply, Verify, EndBatch, AskInput, Refuse, DecisionMismatch,
                    RequestApproval, ExecuteRaises
      <3>3. NoneArmed
        BY <3>1, FinishArmsNone DEF GoTo, WorkerTyped
      <3> QED
        BY <3>2, <3>3
    <2>3. CASE Permit(w) \/ BeforeExecute(w)
      <3>1. UNCHANGED <<steps, effects>>
        BY <2>3 DEF Permit, BeforeExecute
      <3>2. CASE \E x, status : Finish(w, x, status)
        BY <3>1, <3>2, FinishArmsNone
      <3>3. CASE GoTo(w, "journal")
        BY <3>1, <3>3 DEF GoTo, WorkerTyped
      <3>4. CASE pc[w] = "started" /\ GoTo(w, "execute")
        BY <3>1, <3>4 DEF GoTo, WorkerTyped
      <3> QED
        BY <2>3, <3>2, <3>3, <3>4 DEF Permit, BeforeExecute
    <2>4. CASE Checkpoint(w)
      BY <2>4 DEF Checkpoint, WorkerTyped
    <2> QED
      BY <1>8, <2>1, <2>2, <2>3, <2>4 DEF WorkerStep
  <1> QED
    BY <1>1, <1>2, <1>3, <1>4, <1>5, <1>6, <1>7, <1>8 DEF Next

LEMMA OnceInit == Init => Once
  BY DEF Init, Once, Armed, NoStep

LEMMA QuietKeepsOnce ==
  ASSUME Typed, Once, EntriesStay, NoneArmed, effects' = effects
  PROVE  Once'
  <1>1. (\A r \in Runs, k \in Keys : effects[r][k] <= 1)'
    BY DEF Once
  <1>2. (\A r \in Runs, k \in Keys : steps[r][k].st = "none" => effects[r][k] = 0)'
    BY DEF Once, EntriesStay
  <1>3. (\A w \in Workers : Armed(w) => /\ steps[cur[w]][Key(loc[w])].st # "none"
                                       /\ effects[cur[w]][Key(loc[w])] = 0)'
    <2> SUFFICES ASSUME NEW w \in Workers, Armed(w)'
                 PROVE  /\ steps'[cur'[w]][Key(loc[w])'].st # "none"
                        /\ effects'[cur'[w]][Key(loc[w])'] = 0
      OBVIOUS
    <2>1. Armed(w) /\ cur'[w] = cur[w] /\ loc'[w] = loc[w]
      BY DEF NoneArmed
    <2>2. Key(loc[w])' = Key(loc[w])
      BY <2>1, KeyPrimed
    <2>3. cur[w] \in Runs /\ Key(loc[w]) \in Keys
      BY <2>1, ArmedAtKey
    <2> QED
      BY <2>1, <2>2, <2>3 DEF Once, EntriesStay
  <1>4. (\A w, v \in Workers :
           Armed(w) /\ Armed(v) /\ cur[w] = cur[v] /\ Key(loc[w]) = Key(loc[v]) => w = v)'
    <2> SUFFICES ASSUME NEW w \in Workers, NEW v \in Workers, Armed(w)', Armed(v)',
                        cur'[w] = cur'[v], Key(loc[w])' = Key(loc[v])'
                 PROVE  w = v
      OBVIOUS
    <2>1. /\ Armed(w) /\ cur'[w] = cur[w] /\ loc'[w] = loc[w]
          /\ Armed(v) /\ cur'[v] = cur[v] /\ loc'[v] = loc[v]
      BY DEF NoneArmed
    <2>2. Key(loc[w])' = Key(loc[w]) /\ Key(loc[v])' = Key(loc[v])
      BY <2>1, KeyPrimed
    <2> QED
      BY <2>1, <2>2 DEF Once
  <1> QED
    BY <1>1, <1>2, <1>3, <1>4 DEF Once

\* A new entry arms the worker that made it, and nobody else stands at it.
LEMMA JournalKeepsOnce ==
  ASSUME Typed, Once, NEW w \in Workers, Journal(w)
  PROVE  Once'
  <1> DEFINE r == cur[w]
             k == Key(loc[w])
             entry == [st |-> "started", call |-> Call(loc[w]), ok |-> FALSE]
  <1>1. r \in Runs /\ k \in Keys /\ pc[w] = "journal"
    BY KeyInKeys DEF Journal, Typed, WorkerTyped, AtTool
  <1>2. effects' = effects
    BY DEF Journal
  <1>3. CASE UNCHANGED steps /\ \E x, status : Finish(w, x, status)
    <2>1. NoneArmed
      BY <1>3, FinishArmsNone DEF Typed
    <2>2. EntriesStay
      BY <1>3 DEF EntriesStay
    <2> QED
      BY <1>2, <2>1, <2>2, QuietKeepsOnce
  <1>4. CASE /\ MayStart(steps[r][k]) /\ GoTo(w, "started")
             /\ steps' = [steps EXCEPT ![r][k] = entry]
    <2>1. steps[r][k].st = "none" /\ effects[r][k] = 0
      BY <1>1, <1>4 DEF MayStart, Once
    <2>2. /\ UNCHANGED <<cur, loc>> /\ pc'[w] = "started"
          /\ \A v \in Workers \ {w} : pc'[v] = pc[v]
      BY <1>4 DEF GoTo, Typed, WorkerTyped
    <2>3. \A v \in Workers : cur'[v] = cur[v] /\ Key(loc[v])' = Key(loc[v])
      BY <2>2, KeyPrimed
    <2>4. \A v \in Workers \ {w} : Armed(v)' => Armed(v)
      BY <2>2 DEF Armed
    <2>5. /\ steps'[r][k].st = "started"
          /\ \A x \in Runs, l \in Keys : <<x, l>> # <<r, k>> => steps'[x][l] = steps[x][l]
      BY <1>1, <1>4 DEF Typed, StepsTyped
    <2>6. \A v \in Workers : Armed(v) => cur[v] \in Runs /\ Key(loc[v]) \in Keys
      BY ArmedAtKey
    <2>7. \A v \in Workers : Armed(v) => <<cur[v], Key(loc[v])>> # <<r, k>>
      BY <2>1 DEF Once
    <2>8. (\A x \in Runs, l \in Keys : steps[x][l].st = "none" => effects[x][l] = 0)'
      BY <1>2, <2>5, <2>1 DEF Once
    <2>9. \A v \in Workers : Armed(v)' => /\ steps'[cur'[v]][Key(loc[v])'].st # "none"
                                         /\ effects'[cur'[v]][Key(loc[v])'] = 0
      BY <1>1, <1>2, <2>1, <2>3, <2>4, <2>5, <2>6, <2>7 DEF Once
    <2>10. \A v, u \in Workers : Armed(v)' /\ Armed(u)' /\ cur'[v] = cur'[u]
                                 /\ Key(loc[v])' = Key(loc[u])' => v = u
      BY <2>3, <2>4, <2>7 DEF Once
    <2> QED
      BY <1>2, <2>8, <2>9, <2>10 DEF Once
  <1> QED
    BY <1>3, <1>4 DEF Journal, Consume

\* Whoever acts was alone with an entry that had not acted, and is done with it.
LEMMA ExecuteKeepsOnce ==
  ASSUME Typed, Once, NEW w \in Workers, Execute(w)
  PROVE  Once'
  <1> DEFINE r == cur[w]
             k == Key(loc[w])
  <1>1. Armed(w) /\ r \in Runs /\ k \in Keys
    BY ArmedAtKey DEF Execute, Armed
  <1>2. effects[r][k] = 0 /\ steps[r][k].st # "none"
    BY <1>1 DEF Once
  <1>3. /\ UNCHANGED <<cur, loc, steps>> /\ pc'[w] = "executed"
        /\ \A v \in Workers \ {w} : pc'[v] = pc[v]
    BY DEF Execute, Typed, WorkerTyped
  <1>4. \A v \in Workers : cur'[v] = cur[v] /\ Key(loc[v])' = Key(loc[v])
    BY <1>3, KeyPrimed
  <1>5. \A v \in Workers : Armed(v)' => Armed(v) /\ v # w
    BY <1>3 DEF Armed
  <1>6. /\ effects'[r][k] = 1
        /\ \A x \in Runs, l \in Keys : <<x, l>> # <<r, k>> => effects'[x][l] = effects[x][l]
    BY <1>1, <1>2 DEF Execute, Typed, EffectsTyped
  <1>7. \A v \in Workers : Armed(v) => cur[v] \in Runs /\ Key(loc[v]) \in Keys
    BY ArmedAtKey
  <1>8. (\A x \in Runs, l \in Keys : effects[x][l] <= 1)'
    BY <1>6 DEF Once
  <1>9. (\A x \in Runs, l \in Keys : steps[x][l].st = "none" => effects[x][l] = 0)'
    BY <1>2, <1>3, <1>6 DEF Once
  <1>10. \A v \in Workers : Armed(v)' => <<cur[v], Key(loc[v])>> # <<r, k>>
    BY <1>1, <1>5 DEF Once
  <1>11. \A v \in Workers : Armed(v)' => /\ steps'[cur'[v]][Key(loc[v])'].st # "none"
                                        /\ effects'[cur'[v]][Key(loc[v])'] = 0
    BY <1>3, <1>4, <1>5, <1>6, <1>7, <1>10 DEF Once
  <1>12. \A v, u \in Workers : Armed(v)' /\ Armed(u)' /\ cur'[v] = cur'[u]
                               /\ Key(loc[v])' = Key(loc[u])' => v = u
    BY <1>4, <1>5 DEF Once
  <1> QED
    BY <1>8, <1>9, <1>11, <1>12 DEF Once

LEMMA OnceNext == Typed /\ Once /\ [Next]_vars => Once'
  <1> SUFFICES ASSUME Typed, Once, [Next]_vars PROVE Once'
    OBVIOUS
  <1>1. CASE \E w \in Workers : Journal(w)
    BY <1>1, JournalKeepsOnce
  <1>2. CASE \E w \in Workers : Execute(w)
    BY <1>2, ExecuteKeepsOnce
  <1>3. CASE ~ \E w \in Workers : Journal(w) \/ Execute(w)
    BY <1>3, QuietSteps, QuietKeepsOnce
  <1> QED
    BY <1>1, <1>2, <1>3

\* journal(): however many runs, workers, administrators, approvals and crashes
\* there are, and however late heartbeats come, no step acts on the world twice.
THEOREM NeverTwice == Spec => []AtMostOnce
  <1>1. Once => AtMostOnce
    BY DEF Once, AtMostOnce
  <1> QED
    BY <1>1, InitTyped, TypedNext, OnceInit, OnceNext, PTL DEF Spec

-----------------------------------------------------------------------------
(* A gated call acts only after a human approved that very call: the argument *)
(* of GatedOnlyIfApproved.                                                    *)

Approved(r, k, c) ==
  \E a \in Approvals : /\ approvals[a].run = r /\ approvals[a].status = "approved"
                       /\ [key |-> k, call |-> c] \in approvals[a].calls
\* Every consent in a state rests on an approved request of the run r.
Backed(r, s) == \A d \in s.decisions : d.ok => Approved(r, d.key, d.call)
AtJournal(w) == pc[w] = "journal" \/ Armed(w)
MayAct(w) == Kind[Call(loc[w])] = "gated" => Approved(cur[w], Key(loc[w]), Call(loc[w]))

\* The strengthening: consents are backed wherever a state is kept (the row,
\* a worker's copy, a pending reconciliation), a worker past the decision is
\* allowed its call, and its journal entry names that call.
RowsBacked == \A r \in Runs : Backed(r, run[r].st)
WorkersBacked == \A w \in Workers : pc[w] # "idle" => Backed(cur[w], loc[w])
RequestsBacked == \A a \in Admins : Backed(rec[a].run, rec[a].st)
Gated ==
  /\ \A w \in Workers : AtJournal(w) => MayAct(w)
  /\ \A w \in Workers : Armed(w) => steps[cur[w]][Key(loc[w])].call = Call(loc[w])
  /\ GatedOnlyIfApproved
Consent == RowsBacked /\ WorkersBacked /\ RequestsBacked /\ Gated

\* An answered request keeps its answer, its run and its calls.
AnswersStay ==
  \A a \in Approvals : approvals[a].status = "approved" => approvals'[a] = approvals[a]

LEMMA ApprovedStays ==
  ASSUME AnswersStay, NEW r, NEW k, NEW c, Approved(r, k, c)
  PROVE  Approved(r, k, c)'
  BY DEF AnswersStay, Approved

LEMMA BackedStays ==
  ASSUME AnswersStay, NEW r, NEW s, Backed(r, s)
  PROVE  \A d \in s.decisions : d.ok => Approved(r, d.key, d.call)'
  BY ApprovedStays DEF Backed

LEMMA AnswersStayNext == Typed /\ [Next]_vars => AnswersStay
  <1> SUFFICES ASSUME Typed, [Next]_vars PROVE AnswersStay
    OBVIOUS
  <1> USE DEF AnswersStay, Typed, ApprovalsTyped
  <1>1. CASE UserStep
    BY <1>1 DEF UserStep, Create, Cancel, Resume, ScriptInputLost, Resolve, ReconcileRead, ReconcileWrite
  <1>2. CASE \/ ExpireApprovals \/ Crash
             \/ \E a \in Approvals : ExpireOne(a) \/ ApprovalFallsDue(a)
             \/ \E r \in Runs : LeaseLapses(r)
             \/ \E w \in Workers : Heartbeat(w) \/ \E r \in Runs : Claim(w, r)
    BY <1>2 DEF ExpireApprovals, Crash, ExpireOne, ApprovalFallsDue, LeaseLapses, Heartbeat, Claim, Due
  <1>3. CASE \E w \in Workers : WorkerStep(w)
    <2> SUFFICES ASSUME NEW w \in Workers, WorkerStep(w) PROVE AnswersStay
      BY <1>3
    <2>1. CASE \E a \in Approvals : RequestApproval(w, a)
      BY <2>1 DEF RequestApproval, NoApproval
    <2>2. CASE ~ \E a \in Approvals : RequestApproval(w, a)
      BY <2>2 DEF WorkerStep, Begin, Blocked, Reply, Verify, EndBatch, AskInput, Refuse,
                  DecisionMismatch, Permit, Journal, BeforeExecute, Execute, ExecuteRaises,
                  Record, Checkpoint
    <2> QED
      BY <2>1, <2>2
  <1>4. CASE UNCHANGED vars
    BY <1>4 DEF vars
  <1> QED
    BY <1>1, <1>2, <1>3, <1>4 DEF Next

-----------------------------------------------------------------------------
(* Where the consents go. *)

\* A worker's step, up to the check-in, takes its copy's consents along.
LEMMA WorkerKeepsDecisions ==
  ASSUME Typed, NEW w \in Workers, WorkerStep(w), ~Checkpoint(w)
  PROVE  /\ UNCHANGED <<run, rec>>
         /\ \A v \in Workers : /\ pc'[v] # "idle" => pc[v] # "idle"
                              /\ cur'[v] = cur[v] /\ loc'[v].decisions = loc[v].decisions
  <1> DEFINE Kept == \A v \in Workers : /\ pc'[v] # "idle" => pc[v] # "idle"
                                       /\ cur'[v] = cur[v] /\ loc'[v].decisions = loc[v].decisions
  <1>s. loc[w] \in States
    BY DEF Typed, WorkerTyped, GoodStates
  <1>f. ASSUME NEW x, NEW status, Finish(w, x, status), x.decisions = loc[w].decisions, pc[w] # "idle"
        PROVE  Kept
    BY <1>f DEF Finish, Typed, WorkerTyped
  <1>g. ASSUME NEW place, GoTo(w, place), pc[w] # "idle" PROVE Kept
    BY <1>g DEF GoTo, Typed, WorkerTyped
  <1>c. ASSUME NEW ok, Consume(w, ok), pc[w] # "idle" PROVE Kept
    <2>1. PICK status \in {"queued", "paused", "waiting_input"} :
            Finish(w, [Consumed(loc[w], ok) EXCEPT !.reason = WhyStopped(loc[w], status)], status)
      BY <1>c DEF Consume
    <2>2. Consumed(loc[w], ok).decisions = loc[w].decisions
      BY <1>s DEF Consumed, Counted, States
    <2>3. [Consumed(loc[w], ok) EXCEPT !.reason = WhyStopped(loc[w], status)].decisions
            = loc[w].decisions
      BY <1>s, <2>2 DEF Consumed, Counted, States
    <2> QED
      BY <1>c, <1>f, <2>1, <2>3
  <1>0. pc[w] # "idle" /\ UNCHANGED <<run, rec>>
    BY DEF WorkerStep, Begin, Blocked, Reply, Verify, EndBatch, AskInput, Refuse, DecisionMismatch,
           RequestApproval, Permit, Journal, BeforeExecute, Execute, ExecuteRaises, Record
  <1>1. CASE Begin(w)
    BY <1>0, <1>1, <1>f, <1>g DEF Begin
  <1>2. CASE Blocked(w)
    BY <1>0, <1>2, <1>f, <1>s DEF Blocked, States
  <1>3. CASE Reply(w)
    <2> DEFINE s == [loc[w] EXCEPT !.round = NextRound(@)]
    <2>1. /\ s.decisions = loc[w].decisions
          /\ [s EXCEPT !.reason = "blocked"].decisions = loc[w].decisions
          /\ \A p : [s EXCEPT !.phase = p].decisions = loc[w].decisions
          /\ \A q : [s EXCEPT !.phase = "tools", !.queue = q, !.idx = 0].decisions = loc[w].decisions
      BY <1>s DEF States
    <2>2. \E x, status : Finish(w, x, status) /\ x.decisions = loc[w].decisions
      <3> HIDE DEF s
      <3> QED
        BY <1>3, <2>1 DEF Reply, s
    <2> QED
      BY <1>0, <2>2, <1>f
  <1>4. CASE Verify(w)
    BY <1>0, <1>4, <1>f, <1>s DEF Verify, States
  <1>5. CASE EndBatch(w)
    BY <1>0, <1>5, <1>f, <1>s DEF EndBatch, States
  <1>6. CASE AskInput(w)
    BY <1>0, <1>6, <1>f, <1>s DEF AskInput, States
  <1>7. CASE Refuse(w)
    BY <1>0, <1>7, <1>c DEF Refuse
  <1>8. CASE DecisionMismatch(w)
    BY <1>0, <1>8, <1>f, <1>s DEF DecisionMismatch, States
  <1>9. CASE \E a \in Approvals : RequestApproval(w, a)
    <2>1. PICK a \in Approvals : RequestApproval(w, a)
      BY <1>9
    <2>2. Finish(w, [loc[w] EXCEPT !.approval = a], "waiting_approval")
      BY <2>1 DEF RequestApproval
    <2>3. [loc[w] EXCEPT !.approval = a].decisions = loc[w].decisions
      BY <1>s DEF States
    <2> QED
      BY <1>0, <2>2, <2>3, <1>f
  <1>10. CASE Permit(w)
    BY <1>0, <1>10, <1>f, <1>g DEF Permit
  <1>11. CASE Journal(w)
    BY <1>0, <1>11, <1>c, <1>f, <1>g, <1>s DEF Journal, States
  <1>12. CASE BeforeExecute(w)
    BY <1>0, <1>12, <1>f, <1>g DEF BeforeExecute
  <1>13. CASE Execute(w)
    BY <1>13, <1>0 DEF Execute, Typed, WorkerTyped
  <1>14. CASE ExecuteRaises(w)
    BY <1>0, <1>14, <1>f, <1>s DEF ExecuteRaises, States
  <1>15. CASE Record(w)
    BY <1>0, <1>15, <1>c DEF Record
  <1> QED
    BY <1>0, <1>1, <1>2, <1>3, <1>4, <1>5, <1>6, <1>7, <1>8, <1>9, <1>10, <1>11, <1>12, <1>13,
       <1>14, <1>15 DEF WorkerStep

\* A row's consents come from resolve(), or with a state that was backed already.
LEMMA RowsStayBacked ==
  ASSUME Typed, Consent, [Next]_vars
  PROVE  RowsBacked'
  <1> USE DEF Typed
  <1>a. AnswersStay
    BY AnswersStayNext
  <1>b. ASSUME \A r \in Runs : run'[r].st.decisions = run[r].st.decisions PROVE RowsBacked'
    BY <1>a, <1>b, ApprovedStays DEF RowsBacked, Backed, Consent
  <1>r. \A r \in Runs : run[r] \in Rows /\ run[r].st \in States
    BY DEF RunTyped, Rows, GoodStates
  <1>1. CASE \/ ExpireApprovals \/ Crash \/ UNCHANGED vars
             \/ \E a \in Approvals : ExpireOne(a) \/ ApprovalFallsDue(a)
             \/ \E r \in Runs : LeaseLapses(r) \/ Create(r) \/ Cancel(r) \/ Resume(r) \/ ScriptInputLost(r)
             \/ \E w \in Workers : Heartbeat(w) \/ \E r \in Runs : Claim(w, r)
             \/ \E a \in Admins, r \in Runs : ReconcileRead(a, r)
    <2>1. CASE ExpireApprovals
      <3>1. \A r \in Runs : Expired(r).st.decisions = run[r].st.decisions
        BY <1>r DEF Expired, Rows, States
      <3> QED
        BY <2>1, <3>1, <1>b DEF ExpireApprovals
    <2>2. CASE Crash \/ UNCHANGED vars \/ \E a \in Approvals : ApprovalFallsDue(a)
      BY <2>2, <1>r, <1>b DEF Crash, vars, ApprovalFallsDue, Rows
    <2>3. CASE \E a \in Approvals : ExpireOne(a)
      <3>1. \A r \in Runs : Expired(r).st.decisions = run[r].st.decisions
        BY <1>r DEF Expired, Rows, States
      <3> QED
        BY <2>3, <3>1, <1>b DEF ExpireOne, Due, RunTyped
    <2>4. CASE \E r \in Runs : LeaseLapses(r) \/ Create(r)
      BY <2>4, <1>b DEF LeaseLapses, Create, RunTyped, Rows
    <2>5. CASE \E r \in Runs : Cancel(r)
      BY <2>5, <1>b DEF Cancel, RunTyped, Rows
    <2>9. ASSUME NEW r \in Runs, ScriptInputLost(r) PROVE RowsBacked'
      <3>1. /\ run'[r].st = [run[r].st EXCEPT !.reason = "script_input_unavailable"]
            /\ \A x \in Runs \ {r} : run'[x] = run[x]
        BY <2>9, <1>r DEF ScriptInputLost, RunTyped, Rows
      <3>2. run'[r].st.decisions = run[r].st.decisions
        BY <3>1, <1>r DEF States
      <3> QED
        BY <3>1, <3>2, <1>b
    <2>6. ASSUME NEW r \in Runs, Resume(r) PROVE RowsBacked'
      <3>1. run'[r].st = [run[r].st EXCEPT !.reason = "none"] /\ \A x \in Runs \ {r} : run'[x] = run[x]
        BY <2>6, <1>r DEF Resume, RunTyped, Rows
      <3>2. run'[r].st.decisions = run[r].st.decisions
        BY <3>1, <1>r DEF States
      <3> QED
        BY <3>1, <3>2, <1>b
    <2>7. CASE \E w \in Workers : Heartbeat(w) \/ \E r \in Runs : Claim(w, r)
      <3>1. ASSUME NEW w \in Workers, Heartbeat(w) PROVE RowsBacked'
        BY <3>1, <1>b DEF Heartbeat, RunTyped, Rows, WorkerTyped
      <3>2. ASSUME NEW w \in Workers, NEW r \in Runs, Claim(w, r) PROVE RowsBacked'
        BY <3>2, <1>b DEF Claim, RunTyped, Rows
      <3> QED
        BY <2>7, <3>1, <3>2
    <2>8. CASE \E a \in Admins, r \in Runs : ReconcileRead(a, r)
      BY <2>8, <1>b DEF ReconcileRead
    <2> QED
      BY <1>1, <2>1, <2>2, <2>3, <2>4, <2>5, <2>6, <2>7, <2>8, <2>9
  <1>2. ASSUME NEW a \in Approvals, NEW ok \in BOOLEAN, Resolve(a, ok) PROVE RowsBacked'
    <2>0. PICK r \in Runs : r = approvals[a].run
      BY <1>2 DEF Resolve, ApprovalsTyped
    <2>d. PICK d : d = {[key |-> c.key, call |-> c.call, ok |-> ok] : c \in approvals[a].calls}
      OBVIOUS
    <2>1. approvals[a].calls \in SUBSET [key : Keys, call : Calls]
      BY DEF ApprovalsTyped, ApprovalRows
    <2>2. run'[r].st.decisions = d /\ \A x \in Runs \ {r} : run'[x] = run[x]
      <3>1. run' = [run EXCEPT ![r].status = "queued", ![r].st.approval = None, ![r].st.decisions = d]
        BY <1>2, <2>0, <2>d DEF Resolve
      <3>2. run'[r].st = [run[r].st EXCEPT !.approval = None, !.decisions = d]
        BY <3>1, <2>1, <1>r DEF RunTyped, Rows
      <3> QED
        BY <3>1, <3>2, <2>1, <1>r DEF States, RunTyped
    <2>3. ASSUME NEW e \in d, e.ok PROVE Approved(r, e.key, e.call)'
      <3>1. PICK c \in approvals[a].calls : e = [key |-> c.key, call |-> c.call, ok |-> ok]
        BY <2>3, <2>d
      <3>2. ok /\ [key |-> e.key, call |-> e.call] = c
        BY <2>1, <2>3, <3>1
      <3>3. /\ approvals'[a].run = r /\ approvals'[a].status = "approved"
            /\ approvals'[a].calls = approvals[a].calls
        BY <1>2, <2>0, <3>2 DEF Resolve, ApprovalsTyped, ApprovalRows
      <3> QED
        BY <3>1, <3>2, <3>3 DEF Approved
    <2>4. Backed(r, run[r].st)'
      BY <2>2, <2>3 DEF Backed
    <2>5. \A x \in Runs \ {r} : Backed(x, run[x].st)'
      BY <2>2, <1>a, ApprovedStays DEF Backed, Consent, RowsBacked
    <2> QED
      BY <2>4, <2>5 DEF RowsBacked
  <1>3. ASSUME NEW a \in Admins, NEW k \in Keys, NEW ok \in BOOLEAN, ReconcileWrite(a, k, ok)
        PROVE  RowsBacked'
    <2>0. PICK r \in Runs : r = rec[a].run
      BY <1>3 DEF ReconcileWrite, RecTyped
    <2>1. rec[a].st \in States
      BY DEF RecTyped, GoodStates
    <2>2. CASE run' = run
      BY <2>2, <1>b
    <2>3. CASE run' # run
      <3>1. /\ run'[r].st = [rec[a].st EXCEPT !.reason = "none"]
            /\ \A x \in Runs \ {r} : run'[x] = run[x]
        BY <1>3, <2>0, <2>1, <2>3 DEF ReconcileWrite, RunTyped, Rows
      <3>2. run'[r].st.decisions = rec[a].st.decisions
        BY <2>1, <3>1 DEF States
      <3>3. Backed(r, run[r].st)'
        BY <2>0, <3>2, <1>a, ApprovedStays DEF Backed, Consent, RequestsBacked
      <3>4. \A x \in Runs \ {r} : Backed(x, run[x].st)'
        BY <3>1, <1>a, ApprovedStays DEF Backed, Consent, RowsBacked
      <3> QED
        BY <3>3, <3>4 DEF RowsBacked
    <2> QED
      BY <2>2, <2>3
  <1>4. ASSUME NEW w \in Workers, WorkerStep(w) PROVE RowsBacked'
    <2>1. CASE ~Checkpoint(w)
      BY <1>4, <2>1, WorkerKeepsDecisions, <1>b
    <2>2. CASE Checkpoint(w)
      <3>0. PICK r \in Runs : r = cur[w]
        BY <2>2 DEF Checkpoint, WorkerTyped
      <3> DEFINE row == [run[r] EXCEPT !.st = loc[w], !.owner = None, !.lease = "none",
                                       !.status = CheckedInStatus(w, r)]
      <3>1. pc[w] # "idle"
        BY <2>2 DEF Checkpoint
      <3>2. run' = run \/ run' = [run EXCEPT ![r] = row]
        BY <2>2, <3>0 DEF Checkpoint
      <3>3. row.st = loc[w]
        BY <3>1, <1>r DEF Rows
      <3>4. CASE run' = [run EXCEPT ![r] = row]
        <4>1. run'[r].st = loc[w] /\ \A x \in Runs \ {r} : run'[x] = run[x]
          BY <3>1, <3>3, <3>4 DEF RunTyped
        <4>2. Backed(r, run[r].st)'
          BY <3>0, <3>1, <4>1, <1>a, ApprovedStays DEF Backed, Consent, WorkersBacked
        <4>3. \A x \in Runs \ {r} : Backed(x, run[x].st)'
          BY <4>1, <1>a, ApprovedStays DEF Backed, Consent, RowsBacked
        <4> QED
          BY <4>2, <4>3 DEF RowsBacked
      <3> QED
        BY <3>2, <3>4, <1>b
    <2> QED
      BY <2>1, <2>2
  <1> QED
    BY <1>1, <1>2, <1>3, <1>4 DEF Next, UserStep

\* Claim hands a row's state to a worker; every other step leaves it its own.
LEMMA WorkersStayBacked ==
  ASSUME Typed, Consent, [Next]_vars
  PROVE  WorkersBacked'
  <1> USE DEF Typed
  <1>a. AnswersStay
    BY AnswersStayNext
  <1>b. ASSUME \A v \in Workers : pc'[v] # "idle" =>
                 pc[v] # "idle" /\ cur'[v] = cur[v] /\ loc'[v].decisions = loc[v].decisions
        PROVE  WorkersBacked'
    BY <1>a, <1>b, ApprovedStays DEF WorkersBacked, Backed, Consent
  <1>1. ASSUME NEW w \in Workers, NEW r \in Runs, Claim(w, r) PROVE WorkersBacked'
    <2>1. /\ cur'[w] = r /\ loc'[w] = run[r].st
          /\ \A v \in Workers \ {w} : pc'[v] = pc[v] /\ cur'[v] = cur[v] /\ loc'[v] = loc[v]
      BY <1>1 DEF Claim, WorkerTyped
    <2>2. Backed(cur[w], loc[w])'
      BY <2>1, <1>a, ApprovedStays DEF Backed, Consent, RowsBacked
    <2>3. \A v \in Workers \ {w} : pc'[v] # "idle" => Backed(cur[v], loc[v])'
      BY <2>1, <1>a, ApprovedStays DEF Backed, Consent, WorkersBacked
    <2> QED
      BY <2>2, <2>3 DEF WorkersBacked
  <1>2. CASE UserStep
    BY <1>2, <1>b DEF UserStep, Create, Cancel, Resume, ScriptInputLost, Resolve, ReconcileRead, ReconcileWrite, worker
  <1>3. CASE \/ ExpireApprovals \/ Crash \/ UNCHANGED vars
             \/ \E a \in Approvals : ExpireOne(a) \/ ApprovalFallsDue(a)
             \/ \E r \in Runs : LeaseLapses(r)
             \/ \E w \in Workers : Heartbeat(w)
    BY <1>3, <1>b DEF ExpireApprovals, Crash, vars, ExpireOne, ApprovalFallsDue, LeaseLapses,
                      Heartbeat, worker
  <1>4. ASSUME NEW w \in Workers, WorkerStep(w) PROVE WorkersBacked'
    <2>1. CASE Checkpoint(w)
      BY <2>1, <1>b DEF Checkpoint, WorkerTyped
    <2>2. CASE ~Checkpoint(w)
      BY <1>4, <2>2, <1>b, WorkerKeepsDecisions
    <2> QED
      BY <2>1, <2>2
  <1> QED
    BY <1>1, <1>2, <1>3, <1>4 DEF Next

LEMMA RequestsStayBacked ==
  ASSUME Typed, Consent, [Next]_vars
  PROVE  RequestsBacked'
  <1> USE DEF Typed
  <1>a. AnswersStay
    BY AnswersStayNext
  <1>b. ASSUME \A a \in Admins : rec'[a] = rec[a] \/ rec'[a] = NoRequest PROVE RequestsBacked'
    BY <1>a, <1>b, ApprovedStays DEF RequestsBacked, Backed, Consent, NoRequest, NewState
  <1>1. ASSUME NEW a \in Admins, NEW r \in Runs, ReconcileRead(a, r) PROVE RequestsBacked'
    <2>1. rec'[a] = [run |-> r, st |-> run[r].st] /\ \A b \in Admins \ {a} : rec'[b] = rec[b]
      BY <1>1 DEF ReconcileRead, RecTyped
    <2>2. Backed(rec[a].run, rec[a].st)'
      BY <2>1, <1>a, ApprovedStays DEF Backed, Consent, RowsBacked
    <2>3. \A b \in Admins \ {a} : Backed(rec[b].run, rec[b].st)'
      BY <2>1, <1>a, ApprovedStays DEF Backed, Consent, RequestsBacked
    <2> QED
      BY <2>2, <2>3 DEF RequestsBacked
  <1>2. CASE UserStep /\ ~ \E a \in Admins, r \in Runs : ReconcileRead(a, r)
    BY <1>2, <1>b DEF UserStep, Create, Cancel, Resume, ScriptInputLost, Resolve, ReconcileWrite, RecTyped
  <1>3. CASE \/ ExpireApprovals \/ Crash \/ UNCHANGED vars
             \/ \E a \in Approvals : ExpireOne(a) \/ ApprovalFallsDue(a)
             \/ \E r \in Runs : LeaseLapses(r)
             \/ \E w \in Workers : Heartbeat(w) \/ \E r \in Runs : Claim(w, r)
    BY <1>3, <1>b DEF ExpireApprovals, Crash, vars, ExpireOne, ApprovalFallsDue, LeaseLapses,
                      Heartbeat, Claim
  <1>4. ASSUME NEW w \in Workers, WorkerStep(w) PROVE RequestsBacked'
    <2>1. CASE Checkpoint(w)
      BY <2>1, <1>b DEF Checkpoint
    <2>2. CASE ~Checkpoint(w)
      BY <1>4, <2>2, <1>b, WorkerKeepsDecisions
    <2> QED
      BY <2>1, <2>2
  <1> QED
    BY <1>1, <1>2, <1>3, <1>4 DEF Next

-----------------------------------------------------------------------------
(* From the consent to the act. *)

LEMMA MayActStays ==
  ASSUME AnswersStay, NEW w \in Workers, MayAct(w), cur'[w] = cur[w], loc'[w] = loc[w]
  PROVE  MayAct(w)'
  <1>1. Key(loc[w])' = Key(loc[w]) /\ Call(loc[w])' = Call(loc[w])
    BY DEF Key, Call
  <1>2. SUFFICES ASSUME Kind[Call(loc[w])] = "gated"
                 PROVE  Approved(cur[w], Key(loc[w]), Call(loc[w]))'
    BY <1>1 DEF MayAct
  <1>3. PICK a \in Approvals :
          /\ approvals[a].run = cur[w] /\ approvals[a].status = "approved"
          /\ [key |-> Key(loc[w]), call |-> Call(loc[w])] \in approvals[a].calls
    BY <1>2 DEF MayAct, Approved
  <1>4. approvals'[a] = approvals[a]
    BY <1>3 DEF AnswersStay
  <1>5. [key |-> Key(loc[w])', call |-> Call(loc[w])'] \in approvals'[a].calls
    BY <1>1, <1>3, <1>4
  <1> QED
    BY <1>3, <1>4, <1>5 DEF Approved

\* The only way to the journal is Permit.
LEMMA ToJournal ==
  ASSUME Typed, [Next]_vars, NEW w \in Workers, pc'[w] = "journal"
  PROVE  /\ cur'[w] = cur[w] /\ loc'[w] = loc[w]
         /\ pc[w] = "journal" \/ Permit(w)
  <1> USE DEF Typed
  <1>1. CASE UserStep
    BY <1>1 DEF UserStep, Create, Cancel, Resume, ScriptInputLost, Resolve, ReconcileRead, ReconcileWrite, worker
  <1>2. CASE \/ ExpireApprovals \/ Crash \/ UNCHANGED vars
             \/ \E a \in Approvals : ExpireOne(a) \/ ApprovalFallsDue(a)
             \/ \E r \in Runs : LeaseLapses(r)
             \/ \E v \in Workers : Heartbeat(v)
    BY <1>2 DEF ExpireApprovals, Crash, vars, ExpireOne, ApprovalFallsDue, LeaseLapses, Heartbeat, worker
  <1>3. CASE \E v \in Workers, r \in Runs : Claim(v, r)
    BY <1>3 DEF Claim, WorkerTyped
  <1>4. ASSUME NEW v \in Workers, WorkerStep(v)
        PROVE  /\ cur'[w] = cur[w] /\ loc'[w] = loc[w]
               /\ pc[w] = "journal" \/ Permit(w)
    <2>1. CASE Permit(v)
      <3>1. CASE GoTo(v, "journal")
        BY <2>1, <3>1 DEF GoTo, WorkerTyped
      <3>2. CASE Finish(v, loc[v], "cancelled")
        BY <3>2 DEF Finish, WorkerTyped
      <3> QED
        BY <2>1, <3>1, <3>2 DEF Permit
    <2>2. CASE Checkpoint(v) \/ Execute(v)
      BY <2>2 DEF Checkpoint, Execute, WorkerTyped
    <2>3. CASE ~Permit(v) /\ ~Checkpoint(v) /\ ~Execute(v)
      <3>1. \/ \E x, status : Finish(v, x, status)
            \/ \E place \in {"model", "tools", "started", "execute"} : GoTo(v, place)
        BY <1>4, <2>3 DEF WorkerStep, Begin, Blocked, Reply, Verify, EndBatch, AskInput, Refuse,
           DecisionMismatch, RequestApproval, Journal, BeforeExecute, ExecuteRaises, Record, Consume
      <3> QED
        BY <3>1 DEF Finish, GoTo, WorkerTyped
    <2> QED
      BY <2>1, <2>2, <2>3
  <1> QED
    BY <1>1, <1>2, <1>3, <1>4 DEF Next

\* Permit looks at the decisions of the worker's copy.
LEMMA PermitMayAct ==
  ASSUME Typed, Consent, NEW w \in Workers, Permit(w)
  PROVE  MayAct(w)
  <1> SUFFICES ASSUME Kind[Call(loc[w])] = "gated"
               PROVE  Approved(cur[w], Key(loc[w]), Call(loc[w]))
    BY DEF MayAct
  <1>1. PICK d \in DecisionsOn(loc[w]) : TRUE
    BY DEF Permit
  <1>2. d \in loc[w].decisions /\ d.key = Key(loc[w]) /\ d.call = Call(loc[w]) /\ d.ok
    BY <1>1 DEF Permit, DecisionsOn, Grants
  <1>3. pc[w] # "idle"
    BY DEF Permit
  <1> QED
    BY <1>2, <1>3 DEF Consent, WorkersBacked, Backed

LEMMA GatedNext ==
  ASSUME Typed, Once, Consent, [Next]_vars
  PROVE  Gated'
  <1>a. AnswersStay
    BY AnswersStayNext
  <1>b. \A w \in Workers : MayAct(w) /\ cur'[w] = cur[w] /\ loc'[w] = loc[w] => MayAct(w)'
    BY <1>a, MayActStays
  <1>c. \A w \in Workers : Armed(w) => cur[w] \in Runs /\ Key(loc[w]) \in Keys
    BY ArmedAtKey
  <1>d. \A w \in Workers : AtJournal(w) => MayAct(w)
    BY DEF Consent, Gated
  <1>e. \A w \in Workers : Armed(w) => steps[cur[w]][Key(loc[w])].call = Call(loc[w])
    BY DEF Consent, Gated
  <1>g. \A r \in Runs, k \in Keys : effects[r][k] > 0 /\ Kind[steps[r][k].call] = "gated" =>
                                    Approved(r, k, steps[r][k].call)
    BY DEF Consent, Gated, GatedOnlyIfApproved, Approved
  <1>s. \A w \in Workers : loc'[w] = loc[w] =>
                             Key(loc[w])' = Key(loc[w]) /\ Call(loc[w])' = Call(loc[w])
    BY DEF Key, Call
  <1>j. \A w \in Workers : pc'[w] = "journal" => MayAct(w)'
    <2> SUFFICES ASSUME NEW w \in Workers, pc'[w] = "journal" PROVE MayAct(w)'
      OBVIOUS
    <2>1. /\ cur'[w] = cur[w] /\ loc'[w] = loc[w]
          /\ pc[w] = "journal" \/ Permit(w)
      BY ToJournal
    <2>2. MayAct(w)
      BY <2>1, <1>d, PermitMayAct DEF AtJournal
    <2> QED
      BY <2>1, <2>2, <1>b
  <1>1. CASE ~ \E w \in Workers : Journal(w) \/ Execute(w)
    <2>1. EntriesStay /\ NoneArmed /\ effects' = effects
      BY <1>1, QuietSteps
    <2>2. (\A w \in Workers : AtJournal(w) => MayAct(w))'
      BY <2>1, <1>b, <1>d, <1>j DEF AtJournal, NoneArmed
    <2>3. \A w \in Workers : Armed(w)' => steps'[cur'[w]][Key(loc[w])'].call = Call(loc[w])'
      BY <2>1, <1>c, <1>e, <1>s DEF NoneArmed, EntriesStay, Once
    <2>4. \A r \in Runs, k \in Keys :
            effects[r][k] > 0 => steps[r][k].st # "none" /\ steps'[r][k].call = steps[r][k].call
      BY <2>1 DEF EntriesStay, Once
    <2>5. GatedOnlyIfApproved'
      BY <2>1, <2>4, <1>a, <1>g, ApprovedStays DEF GatedOnlyIfApproved, Approved
    <2> QED
      BY <2>2, <2>3, <2>5 DEF Gated
  <1>2. ASSUME NEW w \in Workers, Journal(w) PROVE Gated'
    <2>0. PICK r \in Runs, k \in Keys : r = cur[w] /\ k = Key(loc[w])
      BY <1>2, KeyInKeys DEF Journal, Typed, WorkerTyped, AtTool
    <2>1. effects' = effects
      BY <1>2 DEF Journal
    <2>2. CASE UNCHANGED steps /\ \E x, status : Finish(w, x, status)
      <3>1. NoneArmed
        BY <2>2, FinishArmsNone DEF Typed
      <3>2. (\A v \in Workers : AtJournal(v) => MayAct(v))'
        BY <3>1, <1>b, <1>d, <1>j DEF AtJournal, NoneArmed
      <3>3. \A v \in Workers : Armed(v)' => steps'[cur'[v]][Key(loc[v])'].call = Call(loc[v])'
        BY <2>2, <3>1, <1>e, <1>s DEF NoneArmed
      <3>4. GatedOnlyIfApproved'
        BY <2>1, <2>2, <1>a, <1>g, ApprovedStays DEF GatedOnlyIfApproved, Approved
      <3> QED
        BY <3>2, <3>3, <3>4 DEF Gated
    <2>3. CASE /\ MayStart(steps[r][k]) /\ GoTo(w, "started")
               /\ steps' = [steps EXCEPT ![r][k] = [st |-> "started", call |-> Call(loc[w]), ok |-> FALSE]]
      <3>1. steps[r][k].st = "none" /\ effects[r][k] = 0
        BY <2>3 DEF MayStart, Once
      <3>2. /\ UNCHANGED <<cur, loc>>
            /\ \A v \in Workers \ {w} : pc'[v] = pc[v]
        BY <2>3 DEF GoTo, Typed, WorkerTyped
      <3>3. AtJournal(w)
        BY <1>2 DEF Journal, AtJournal
      <3>4. (\A v \in Workers : AtJournal(v) => MayAct(v))'
        BY <3>2, <3>3, <1>b, <1>d DEF AtJournal, Armed
      <3>5. /\ steps'[r][k].call = Call(loc[w])
            /\ \A x \in Runs, l \in Keys : <<x, l>> # <<r, k>> => steps'[x][l] = steps[x][l]
        BY <2>3 DEF Typed, StepsTyped
      <3>6. \A v \in Workers : Armed(v) => <<cur[v], Key(loc[v])>> # <<r, k>>
        BY <3>1 DEF Once
      <3>7. \A v \in Workers : Armed(v)' => v = w \/ Armed(v)
        BY <3>2 DEF Armed
      <3>8. steps'[cur'[w]][Key(loc[w])'].call = Call(loc[w])'
        BY <2>0, <3>2, <3>5, <1>s
      <3>9. \A v \in Workers : Armed(v) => steps'[cur'[v]][Key(loc[v])'].call = Call(loc[v])'
        BY <3>2, <3>5, <3>6, <1>c, <1>e, <1>s
      <3>10. GatedOnlyIfApproved'
        <4>1. \A x \in Runs, l \in Keys : effects'[x][l] > 0 => steps'[x][l] = steps[x][l]
          BY <2>1, <3>1, <3>5
        <4> QED
          BY <2>1, <4>1, <1>a, <1>g, ApprovedStays DEF GatedOnlyIfApproved, Approved
      <3> QED
        BY <3>4, <3>7, <3>8, <3>9, <3>10 DEF Gated
    <2> QED
      BY <1>2, <2>0, <2>2, <2>3 DEF Journal, Consume
  <1>3. ASSUME NEW w \in Workers, Execute(w) PROVE Gated'
    <2>1. Armed(w) /\ AtJournal(w)
      BY <1>3 DEF Execute, Armed, AtJournal
    <2>0. PICK r \in Runs, k \in Keys : r = cur[w] /\ k = Key(loc[w])
      BY <2>1, <1>c
    <2>2. /\ UNCHANGED <<cur, loc, steps>> /\ pc'[w] = "executed"
          /\ \A v \in Workers \ {w} : pc'[v] = pc[v]
      BY <1>3 DEF Execute, Typed, WorkerTyped
    <2>3. (\A v \in Workers : AtJournal(v) => MayAct(v))'
      BY <2>2, <1>b, <1>d DEF AtJournal, Armed
    <2>4. \A v \in Workers : Armed(v)' => steps'[cur'[v]][Key(loc[v])'].call = Call(loc[v])'
      BY <2>2, <1>e, <1>s DEF Armed
    <2>5. \A x \in Runs, l \in Keys : <<x, l>> # <<r, k>> => effects'[x][l] = effects[x][l]
      BY <1>3, <2>0 DEF Execute, Typed, EffectsTyped
    <2>6. Kind[steps[r][k].call] = "gated" => Approved(r, k, steps[r][k].call)
      BY <2>0, <2>1, <1>d, <1>e DEF MayAct
    <2>7. \A x \in Runs, l \in Keys : effects'[x][l] > 0 /\ Kind[steps[x][l].call] = "gated" =>
                                      Approved(x, l, steps[x][l].call)
      BY <2>5, <2>6, <1>g
    <2>8. GatedOnlyIfApproved'
      BY <2>2, <2>7, <1>a, ApprovedStays DEF GatedOnlyIfApproved, Approved
    <2> QED
      BY <2>3, <2>4, <2>8 DEF Gated
  <1> QED
    BY <1>1, <1>2, <1>3

LEMMA ConsentInit == Init => Consent
  BY DEF Init, Consent, RowsBacked, WorkersBacked, RequestsBacked, Gated, Backed, AtJournal, Armed,
         NoRun, NewState, NoRequest, GatedOnlyIfApproved

\* resolve() and _tool_step(): whatever is withdrawn, cancelled, lost in a
\* crash or decided late, a gated call acts only on a human's yes to it.
THEOREM NeverUnapproved == Spec => []GatedOnlyIfApproved
  <1>1. Typed /\ Once /\ Consent /\ [Next]_vars => Consent'
    BY RowsStayBacked, WorkersStayBacked, RequestsStayBacked, GatedNext DEF Consent
  <1>2. Consent => GatedOnlyIfApproved
    BY DEF Consent, Gated
  <1> QED
    BY <1>1, <1>2, InitTyped, TypedNext, OnceInit, OnceNext, ConsentInit, PTL DEF Spec

-----------------------------------------------------------------------------
(* Who holds a run: for any number of runs and workers one owner, one live   *)
(* run per resource, and the life cycle other components see.                *)

\* One request to reconcile at a time; nobody settles runs; no heartbeat late.
OneAdmin == \A a, b \in Admins : a = b
NoAdmin == Admins = {}
Punctual == StallingWorkers = {}

CheckIns == {"queued"} \cup WAITING \cup TERMINAL

\* The row: running is owned, a lease has an owner.
Held ==
  \A r \in Runs : /\ run[r].status = "running" <=> run[r].owner # None
                  /\ run[r].lease # "none" => run[r].owner # None
\* What an administrator read is still a run that nobody works on.
Awaiting ==
  \A a \in Admins : rec[a] # NoRequest =>
    \/ run[rec[a].run].status = "cancelled"
    \/ run[rec[a].run].status = "paused" /\ run[rec[a].run].st.reason = "execution_unknown"

\* What a step can do to the rows if it is neither a claim, a check-in, a crash
\* nor the settling of a step: owners and leases stay, nobody starts to run.
RowsRest ==
  \A r \in Runs :
    /\ run'[r].owner = run[r].owner /\ run'[r].lease = run[r].lease
    /\ run'[r].status = "running" =>
         run[r].status = "running" /\ run'[r].st = run[r].st
    /\ run[r].status = "running" /\ run[r].owner # None => run'[r].status = "running"
    /\ run[r].status = "cancelled" => run'[r].status = "cancelled"
    /\ run[r].status = "paused" /\ run[r].st.reason = "execution_unknown" =>
         run'[r].status \in {"paused", "cancelled"} /\ run'[r].st = run[r].st

Requests ==
  \/ \E r \in Runs : Create(r) \/ Cancel(r) \/ Resume(r) \/ ScriptInputLost(r)
  \/ \E a \in Approvals, ok \in BOOLEAN : Resolve(a, ok)
  \/ ExpireApprovals \/ \E a \in Approvals : ExpireOne(a)

LEMMA RequestsRest ==
  ASSUME Typed, Requests
  PROVE  RowsRest
  <1> USE DEF RowsRest, Typed, RunTyped, Rows, TERMINAL, WAITING
  <1>1. ASSUME NEW r \in Runs, Create(r) PROVE RowsRest
    BY <1>1 DEF Create
  <1>2. ASSUME NEW r \in Runs, Cancel(r) PROVE RowsRest
    BY <1>2 DEF Cancel, StoppedStatus, Active, Exists
  <1>3. ASSUME NEW r \in Runs, Resume(r) PROVE RowsRest
    BY <1>3 DEF Resume
  <1>4. ASSUME NEW r \in Runs, ScriptInputLost(r) PROVE RowsRest
    BY <1>4 DEF ScriptInputLost
  <1>5. ASSUME NEW a \in Approvals, NEW ok \in BOOLEAN, Resolve(a, ok) PROVE RowsRest
    <2> DEFINE r == approvals[a].run
               d == {[key |-> c.key, call |-> c.call, ok |-> ok] : c \in approvals[a].calls}
    <2>1. r \in Runs /\ run[r].status = "waiting_approval"
      BY <1>5 DEF Resolve, ApprovalsTyped
    <2>2. run' = [run EXCEPT ![r].status = "queued", ![r].st.approval = None, ![r].st.decisions = d]
      BY <1>5 DEF Resolve
    <2>3. /\ run'[r].status = "queued" /\ run'[r].owner = run[r].owner /\ run'[r].lease = run[r].lease
          /\ \A x \in Runs \ {r} : run'[x] = run[x]
      <3> HIDE DEF d, r
      <3> QED
        BY <2>1, <2>2
    <2> QED
      BY <2>1, <2>3
  <1>6. ASSUME ExpireApprovals PROVE RowsRest
    BY <1>6 DEF ExpireApprovals, Expired
  <1>7. ASSUME NEW a \in Approvals, ExpireOne(a) PROVE RowsRest
    <2>1. approvals[a].run \in Runs
      BY <1>7 DEF ExpireOne, Due, ApprovalsTyped
    <2> QED
      BY <1>7, <2>1 DEF ExpireOne, Expired
  <1> QED
    BY <1>1, <1>2, <1>3, <1>4, <1>5, <1>6, <1>7 DEF Requests

\* The rows move in no other way.
Elsewhere ==
  \/ \E a \in Admins, r \in Runs : ReconcileRead(a, r)
  \/ \E a \in Approvals : ApprovalFallsDue(a)
  \/ \E w \in Workers : WorkerStep(w) /\ ~Checkpoint(w)
  \/ UNCHANGED vars

LEMMA ElsewhereRest ==
  ASSUME Elsewhere
  PROVE  run' = run
  BY DEF Elsewhere, ReconcileRead, ApprovalFallsDue, vars, WorkerStep, Begin, Blocked, Reply, Verify,
         EndBatch, AskInput, Refuse, DecisionMismatch, RequestApproval, Permit, Journal, BeforeExecute,
         Execute, ExecuteRaises, Record

LEMMA Cases ==
  ASSUME [Next]_vars
  PROVE  \/ Requests \/ Elsewhere
         \/ \E a \in Admins, k \in Keys, ok \in BOOLEAN : ReconcileWrite(a, k, ok)
         \/ \E w \in Workers : Checkpoint(w) \/ Heartbeat(w) \/ \E r \in Runs : Claim(w, r)
         \/ (\E r \in Runs : LeaseLapses(r)) \/ Crash
  BY DEF Next, UserStep, Requests, Elsewhere

-----------------------------------------------------------------------------
\* A worker that is done has a status to check in.
Decided == \A w \in Workers : pc[w] = "commit" => out[w] \in CheckIns

LEMMA FinishDecides ==
  ASSUME WorkerTyped, Decided, NEW w \in Workers, NEW x, NEW status \in CheckIns, Finish(w, x, status)
  PROVE  Decided'
  BY DEF WorkerTyped, Decided, Finish

LEMMA GoToDecides ==
  ASSUME WorkerTyped, Decided, NEW w \in Workers, NEW place, place # "commit", GoTo(w, place)
  PROVE  Decided'
  BY DEF WorkerTyped, Decided, GoTo

LEMMA DecidedNext ==
  ASSUME Typed, Decided, [Next]_vars
  PROVE  Decided'
  <1> USE DEF Typed
  <1>1. CASE UNCHANGED worker
    BY <1>1 DEF worker, Decided
  <1>2. CASE Crash
    BY <1>2 DEF Crash, Decided
  <1>3. ASSUME NEW w \in Workers, NEW r \in Runs, Claim(w, r) PROVE Decided'
    BY <1>3 DEF Claim, Decided, WorkerTyped
  <1>4. ASSUME NEW w \in Workers, WorkerStep(w) PROVE Decided'
    <2>1. CASE Execute(w)
      BY <2>1 DEF Execute, Decided, WorkerTyped
    <2>2. CASE Checkpoint(w)
      BY <2>2 DEF Checkpoint, Decided, WorkerTyped
    <2>3. CASE \E x, status : status \in CheckIns /\ Finish(w, x, status)
      BY <2>3, FinishDecides
    <2>4. CASE \E place : place # "commit" /\ GoTo(w, place)
      BY <2>4, GoToDecides
    <2>5. CASE \E ok : Consume(w, ok)
      <3>1. PICK status \in {"queued", "paused", "waiting_input"} : \E x : Finish(w, x, status)
        BY <2>5 DEF Consume
      <3> QED
        BY <3>1, FinishDecides DEF CheckIns, WAITING
    <2> QED
      BY <1>4, <2>1, <2>2, <2>3, <2>4, <2>5
      DEF WorkerStep, Begin, Blocked, Reply, Verify, EndBatch, AskInput, Refuse, DecisionMismatch,
          RequestApproval, Permit, Journal, BeforeExecute, ExecuteRaises, Record,
          CheckIns, WAITING, TERMINAL
  <1> QED
    BY <1>1, <1>2, <1>3, <1>4
    DEF Next, UserStep, Create, Cancel, Resume, ScriptInputLost, Resolve, ReconcileRead, ReconcileWrite,
        ExpireApprovals, ExpireOne, ApprovalFallsDue, LeaseLapses, Heartbeat, vars, worker

-----------------------------------------------------------------------------
\* Everything about who holds a run, but for the time its lease runs.
Custody == Held /\ Awaiting /\ Decided

LEMMA CustodyInit == Init => Custody
  BY DEF Init, Custody, Held, Awaiting, Decided, NoRun, NoRequest, None

LEMMA HeldNext ==
  ASSUME OneAdmin, Typed, Custody, [Next]_vars
  PROVE  Held' /\ Awaiting'
  <1> USE DEF Custody, Held, Awaiting, Typed
  <1>0. \A r \in Runs : run[r] \in Rows
    BY DEF RunTyped
  <1>1. CASE Requests
    <2>1. RowsRest /\ rec' = rec
      BY <1>1, RequestsRest DEF Requests, Create, Cancel, Resume, ScriptInputLost, Resolve,
                                ExpireApprovals, ExpireOne
    <2>2. Held'
      BY <2>1 DEF RowsRest
    <2>3. Awaiting'
      BY <2>1 DEF RowsRest, RecTyped
    <2> QED
      BY <2>2, <2>3
  <1>2. CASE Elsewhere
    <2>1. run' = run
      BY <1>2, ElsewhereRest
    <2>2. CASE rec' = rec
      BY <2>1, <2>2
    <2>3. ASSUME NEW a \in Admins, NEW r \in Runs, ReconcileRead(a, r) PROVE Held' /\ Awaiting'
      BY <2>1, <2>3 DEF ReconcileRead, RecTyped, NoRequest
    <2> QED
      BY <1>2, <2>2, <2>3
      DEF Elsewhere, ApprovalFallsDue, vars, WorkerStep, Begin, Blocked, Reply, Verify,
          EndBatch, AskInput, Refuse, DecisionMismatch, RequestApproval, Permit, Journal, BeforeExecute,
          Execute, ExecuteRaises, Record
  <1>3. ASSUME NEW a \in Admins, NEW k \in Keys, NEW ok \in BOOLEAN, ReconcileWrite(a, k, ok)
        PROVE  Held' /\ Awaiting'
    <2> DEFINE r == rec[a].run
    <2>1. r \in Runs /\ run[r].owner = None /\ rec[a] # NoRequest
      BY <1>3 DEF ReconcileWrite, RecTyped
    <2>2. \A b \in Admins : rec'[b] = NoRequest
      BY <1>3 DEF ReconcileWrite, OneAdmin, RecTyped
    <2>3. Held'
      BY <1>0, <1>3, <2>1 DEF ReconcileWrite, RunTyped, Rows
    <2> QED
      BY <2>2, <2>3
  <1>4. ASSUME NEW w \in Workers, Checkpoint(w) PROVE Held' /\ Awaiting'
    <2>1. w # None /\ rec' = rec /\ cur[w] \in Runs /\ pc[w] = "commit" /\ out[w] \in CheckIns
      BY <1>4, ConstantsAssumption DEF Checkpoint, None, WorkerTyped, Decided
    <2>2. CASE ~Owns(w, cur[w])
      BY <1>4, <2>1, <2>2 DEF Checkpoint
    <2>3. CASE Owns(w, cur[w])
      <3>1. CheckedInStatus(w, cur[w]) # "running"
        BY <2>1 DEF CheckedInStatus, CheckIns, WAITING, TERMINAL
      <3>2. /\ run'[cur[w]].status # "running" /\ run'[cur[w]].owner = None /\ run'[cur[w]].lease = "none"
            /\ \A r \in Runs \ {cur[w]} : run'[r] = run[r]
        BY <1>0, <1>4, <2>1, <2>3, <3>1 DEF Checkpoint, RunTyped, Rows
      <3>3. Held'
        BY <3>2
      <3>4. run[cur[w]].status = "running"
        BY <2>1, <2>3 DEF Owns
      <3>5. Awaiting'
        BY <2>1, <3>2, <3>4 DEF RecTyped
      <3> QED
        BY <3>3, <3>5
    <2> QED
      BY <2>2, <2>3
  <1>5. ASSUME NEW w \in Workers, Heartbeat(w) PROVE Held' /\ Awaiting'
    <2>1. w # None /\ cur[w] \in Runs /\ rec' = rec /\ run[cur[w]].owner = w
          /\ run' = [run EXCEPT ![cur[w]].lease = "live"]
      BY <1>5, ConstantsAssumption DEF Heartbeat, None, WorkerTyped
    <2>2. \A r \in Runs : run'[r].status = run[r].status /\ run'[r].owner = run[r].owner /\ run'[r].st = run[r].st
                          /\ (run'[r].lease = run[r].lease \/ run[r].owner # None)
      BY <1>0, <2>1 DEF RunTyped, Rows
    <2> QED
      BY <2>1, <2>2 DEF RecTyped
  <1>6. ASSUME NEW w \in Workers, NEW r \in Runs, Claim(w, r) PROVE Held' /\ Awaiting'
    <2>1. w # None /\ rec' = rec /\ run[r].status \in {"queued", "running"}
          /\ run' = [run EXCEPT ![r].status = "running", ![r].owner = w, ![r].lease = "live"]
      BY <1>6, ConstantsAssumption DEF Claim, None, Claimable, Recoverable
    <2>2. /\ run'[r].status = "running" /\ run'[r].owner = w
          /\ \A x \in Runs \ {r} : run'[x] = run[x]
      BY <1>0, <2>1 DEF RunTyped, Rows
    <2>3. Held'
      BY <2>1, <2>2
    <2>4. ASSUME NEW a \in Admins, rec[a] # NoRequest PROVE run'[rec[a].run] = run[rec[a].run]
      BY <2>1, <2>2, <2>4 DEF RecTyped
    <2>5. Awaiting'
      <3>1. SUFFICES ASSUME NEW a \in Admins, rec'[a] # NoRequest
                     PROVE  \/ run'[rec'[a].run].status = "cancelled"
                            \/ /\ run'[rec'[a].run].status = "paused"
                               /\ run'[rec'[a].run].st.reason = "execution_unknown"
        BY DEF NoRequest
      <3> QED
        BY <2>1, <2>4, <3>1
    <2> QED
      BY <2>3, <2>5
  <1>7. ASSUME NEW r \in Runs, LeaseLapses(r) PROVE Held' /\ Awaiting'
    <2>1. rec' = rec /\ run[r].lease # "none" /\ run' = [run EXCEPT ![r].lease = "lapsed"]
      BY <1>7 DEF LeaseLapses, Live
    <2>2. \A x \in Runs : run'[x].status = run[x].status /\ run'[x].owner = run[x].owner /\ run'[x].st = run[x].st
                          /\ (run'[x].lease = run[x].lease \/ run[x].lease # "none")
      BY <1>0, <2>1 DEF RunTyped, Rows
    <2> QED
      BY <2>1, <2>2 DEF RecTyped
  <1>8. CASE Crash
    <2>1. \A a \in Admins : rec'[a] = NoRequest
      BY <1>8 DEF Crash
    <2>2. Held'
      BY <1>0, <1>8 DEF Crash, None, Rows
    <2> QED
      BY <2>1, <2>2
  <1> QED
    BY <1>1, <1>2, <1>3, <1>4, <1>5, <1>6, <1>7, <1>8, Cases

LEMMA CustodyNext ==
  ASSUME OneAdmin, Typed, Custody, [Next]_vars
  PROVE  Custody'
  BY HeldNext, DecidedNext DEF Custody

Kept == \A r \in Runs : run[r].lease = "live" /\ run'[r].owner # run[r].owner =>
                          run'[r].owner \in {None, "dead"}

LEMMA LeasesKept ==
  ASSUME OneAdmin, Typed, Custody, [Next]_vars
  PROVE  Kept
  <1> USE DEF Custody, Held, Awaiting, Typed, Kept
  <1>1. \A r \in Runs : run[r] \in Rows
    BY DEF RunTyped
  <1>2. CASE Requests \/ Elsewhere
    BY <1>2, RequestsRest, ElsewhereRest DEF RowsRest
  <1>3. ASSUME NEW a \in Admins, NEW k \in Keys, NEW ok \in BOOLEAN, ReconcileWrite(a, k, ok) PROVE Kept
    <2>1. rec[a].run \in Runs /\ run[rec[a].run].lease # "live"
      BY <1>3 DEF ReconcileWrite, RecTyped
    <2>2. \A r \in Runs \ {rec[a].run} : run'[r] = run[r]
      BY <1>3, <2>1 DEF ReconcileWrite, RunTyped
    <2> QED
      BY <2>1, <2>2
  <1>4. ASSUME NEW w \in Workers, Checkpoint(w) PROVE Kept
    BY <1>1, <1>4 DEF Checkpoint, RunTyped, Rows, WorkerTyped
  <1>5. ASSUME NEW w \in Workers, Heartbeat(w) PROVE Kept
    BY <1>1, <1>5 DEF Heartbeat, RunTyped, Rows, WorkerTyped
  <1>6. ASSUME NEW w \in Workers, NEW r \in Runs, Claim(w, r) PROVE Kept
    <2>1. run[r].lease # "live"
      BY <1>1, <1>6 DEF Claim, Claimable, Recoverable
    <2> QED
      BY <1>6, <2>1 DEF Claim, RunTyped
  <1>7. ASSUME NEW r \in Runs, LeaseLapses(r) PROVE Kept
    BY <1>1, <1>7 DEF LeaseLapses, RunTyped, Rows
  <1>8. CASE Crash
    BY <1>1, <1>8 DEF Crash, Rows
  <1> QED
    BY <1>2, <1>3, <1>4, <1>5, <1>6, <1>7, <1>8, Cases

\* A live lease is left only by giving the run back or by dying: nobody takes a
\* run over whose owner is heard of (claim()), as long as one administrator at a
\* time settles doubtful steps.
THEOREM OwnershipIsExclusive == OneAdmin => (Spec => ExclusiveOwnership)
  <1> SUFFICES ASSUME OneAdmin PROVE Spec => ExclusiveOwnership
    OBVIOUS
  <1>1. Init => Typed /\ Custody
    BY InitTyped, CustodyInit
  <1>2. Typed /\ Custody /\ [Next]_vars => Typed' /\ Custody'
    BY TypedNext, CustodyNext
  <1>3. Typed /\ Custody /\ [Next]_vars => [Kept]_vars
    BY LeasesKept
  <1> QED
    BY <1>1, <1>2, <1>3, PTL DEF Spec, ExclusiveOwnership, Kept
-----------------------------------------------------------------------------
(* A lapsed lease has a dead owner, or one whose heartbeat came late. *)

OnTime == \A r \in Runs : run[r].lease = "lapsed" => run[r].owner \in StallingWorkers \cup {"dead"}

\* A run is live after a step if it was, in the same state, or was just claimed.
OnlyClaimsMakeLive ==
  \/ \E w \in Workers, r \in Runs : Claim(w, r)
  \/ \A r \in Runs : Live(r)' => Live(r) /\ run'[r].st = run[r].st

LEMMA OnTimeNext ==
  ASSUME Typed, OnTime, [Next]_vars
  PROVE  OnTime' /\ (Punctual => OnlyClaimsMakeLive)
  <1> USE DEF OnTime, Typed, OnlyClaimsMakeLive, Live
  <1>1. \A r \in Runs : run[r] \in Rows
    BY DEF RunTyped
  <1>2. CASE Requests \/ Elsewhere
    BY <1>2, RequestsRest, ElsewhereRest DEF RowsRest
  <1>3. ASSUME NEW a \in Admins, NEW k \in Keys, NEW ok \in BOOLEAN, ReconcileWrite(a, k, ok)
        PROVE  OnTime' /\ (Punctual => OnlyClaimsMakeLive)
    <2> DEFINE r == rec[a].run
               s == [rec[a].st EXCEPT !.reason = "none"]
    <2>1. r \in Runs
      BY <1>3 DEF ReconcileWrite, RecTyped
    <2>2. CASE run' = run
      BY <2>2
    <2>3. CASE run' = [run EXCEPT ![r].status = "queued", ![r].st = s]
      <3> HIDE DEF r, s
      <3>1. /\ run'[r].status = "queued" /\ run'[r].owner = run[r].owner /\ run'[r].lease = run[r].lease
            /\ \A x \in Runs \ {r} : run'[x] = run[x]
        BY <1>1, <2>1, <2>3 DEF RunTyped, Rows
      <3> QED
        BY <2>1, <3>1
    <2> QED
      BY <1>3, <2>2, <2>3 DEF ReconcileWrite
  <1>4. ASSUME NEW w \in Workers, Checkpoint(w) PROVE OnTime' /\ (Punctual => OnlyClaimsMakeLive)
    BY <1>1, <1>4 DEF Checkpoint, RunTyped, Rows, WorkerTyped
  <1>5. ASSUME NEW w \in Workers, Heartbeat(w) PROVE OnTime' /\ (Punctual => OnlyClaimsMakeLive)
    <2>1. run[cur[w]].owner = w /\ w # "dead" /\ cur[w] \in Runs /\ run' = [run EXCEPT ![cur[w]].lease = "live"]
      BY <1>5, ConstantsAssumption DEF Heartbeat, WorkerTyped
    <2>2. OnTime'
      BY <1>1, <2>1 DEF RunTyped, Rows
    <2>3. ~Punctual
      BY <1>5, <2>1 DEF Heartbeat, Punctual
    <2> QED
      BY <2>2, <2>3
  <1>6. ASSUME NEW w \in Workers, NEW r \in Runs, Claim(w, r) PROVE OnTime' /\ (Punctual => OnlyClaimsMakeLive)
    BY <1>1, <1>6 DEF Claim, RunTyped, Rows
  <1>7. ASSUME NEW r \in Runs, LeaseLapses(r) PROVE OnTime' /\ (Punctual => OnlyClaimsMakeLive)
    BY <1>1, <1>7 DEF LeaseLapses, RunTyped, Rows
  <1>8. CASE Crash
    BY <1>1, <1>8 DEF Crash, None
  <1> QED
    BY <1>2, <1>3, <1>4, <1>5, <1>6, <1>7, <1>8, Cases

LEMMA ExclusiveNext ==
  ASSUME Punctual, Typed, OnTime, ResourceExclusive, [Next]_vars
  PROVE  ResourceExclusive'
  <1>1. ASSUME NEW w \in Workers, NEW r \in Runs, Claim(w, r) PROVE ResourceExclusive'
    <2>1. /\ run' = [run EXCEPT ![r].status = "running", ![r].owner = w, ![r].lease = "live"]
          /\ ResourceKey(run[r].st) # None => ~ResourceBusy(r)
      BY <1>1 DEF Claim, Claimable, ResourceFree
    <2>2. run'[r].st = run[r].st /\ \A x \in Runs \ {r} : run'[x] = run[x]
      BY <2>1 DEF Typed, RunTyped, Rows
    <2>3. \A x \in Runs : run'[x].st = run[x].st
      BY <2>2
    <2>4. \A x \in Runs \ {r} : Live(x)' = Live(x)
      BY <2>2 DEF Live
    <2> DEFINE K(x) == ResourceKey(run[x].st)
    <2>5. \A x \in Runs : ResourceKey(run'[x].st) = K(x)
      BY <2>3
    <2>6. \A x, y \in Runs : Live(x) /\ Live(y) /\ K(x) # None /\ K(x) = K(y) => x = y
      BY DEF ResourceExclusive
    <2>7. K(r) # None => \A x \in Runs : ~(Live(x) /\ K(x) = K(r))
      BY <2>1 DEF ResourceBusy
    <2>8. SUFFICES ASSUME NEW x \in Runs, NEW y \in Runs, Live(x)', Live(y)',
                          K(x) # None, K(x) = K(y)
                   PROVE  x = y
      BY <2>5 DEF ResourceExclusive, ResourceKey, InBatch, Call
    <2> HIDE DEF K
    <2> QED
      BY <2>4, <2>6, <2>7, <2>8
  <1>2. CASE \A r \in Runs : Live(r)' => Live(r) /\ run'[r].st = run[r].st
    BY <1>2 DEF ResourceExclusive, ResourceKey, InBatch, Call
  <1> QED
    BY <1>1, <1>2, OnTimeNext DEF OnlyClaimsMakeLive

\* Two live runs never work on one workspace, data source or MCP server, however
\* many runs and workers there are, if no heartbeat comes late (claim()).
THEOREM OneRunPerResource == Punctual => (Spec => []ResourceExclusive)
  <1> SUFFICES ASSUME Punctual PROVE Spec => []ResourceExclusive
    OBVIOUS
  <1> DEFINE Inv == Typed /\ OnTime /\ ResourceExclusive
  <1>1. Init => Inv
    BY InitTyped DEF Init, OnTime, ResourceExclusive, Live, NoRun
  <1>2. Inv /\ [Next]_vars => Inv'
    BY TypedNext, OnTimeNext, ExclusiveNext
  <1> QED
    BY <1>1, <1>2, PTL DEF Spec
-----------------------------------------------------------------------------
(* A worker and the run it holds. *)

\* A worker whose heartbeat is never late owns the run it is working on.
PromptOwn ==
  \A w \in Workers \ StallingWorkers :
    pc[w] # "idle" => run[cur[w]].owner = w /\ run[cur[w]].status = "running"

LEMMA WorkersOwn ==
  ASSUME OneAdmin, Typed, Custody, OnTime, PromptOwn, [Next]_vars
  PROVE  PromptOwn'
  <1> USE DEF PromptOwn, Typed
  <1>0. /\ \A r \in Runs : run[r] \in Rows
        /\ \A w \in Workers : w # None /\ w # "dead" /\ (pc[w] # "idle" => cur[w] \in Runs)
    BY ConstantsAssumption DEF RunTyped, WorkerTyped, None
  <1>1. CASE Requests
    <2>1. RowsRest /\ pc' = pc /\ cur' = cur
      BY <1>1, RequestsRest DEF Requests, Create, Cancel, Resume, ScriptInputLost, Resolve,
                                ExpireApprovals, ExpireOne, worker
    <2> QED
      BY <1>0, <2>1 DEF RowsRest
  <1>2. CASE Elsewhere
    <2>1. run' = run
      BY <1>2, ElsewhereRest
    <2>2. \A w \in Workers : pc'[w] # "idle" => pc[w] # "idle" /\ cur'[w] = cur[w]
      <3>1. CASE UNCHANGED worker
        BY <3>1 DEF worker
      <3>2. ASSUME NEW v \in Workers, WorkerStep(v), ~Checkpoint(v)
            PROVE  pc[v] # "idle" /\ cur' = cur /\ \E place : pc' = [pc EXCEPT ![v] = place]
        <4>1. pc[v] # "idle"
          BY <3>2 DEF WorkerStep, Begin, Blocked, Reply, Verify, EndBatch, AskInput, Refuse, DecisionMismatch,
                      RequestApproval, Permit, Journal, BeforeExecute, Execute, ExecuteRaises, Record
        <4>2. Execute(v) \/ (\E x, status : Finish(v, x, status)) \/ \E place : GoTo(v, place)
          BY <3>2 DEF WorkerStep, Begin, Blocked, Reply, Verify, EndBatch, AskInput, Refuse, DecisionMismatch,
                      RequestApproval, Permit, Journal, BeforeExecute, ExecuteRaises, Record, Consume
        <4> QED
          BY <4>1, <4>2 DEF Execute, Finish, GoTo
      <3> QED
        BY <1>2, <3>1, <3>2 DEF Elsewhere, ReconcileRead, ApprovalFallsDue, vars, worker, WorkerTyped
    <2> QED
      BY <2>1, <2>2
  <1>3. ASSUME NEW a \in Admins, NEW k \in Keys, NEW ok \in BOOLEAN, ReconcileWrite(a, k, ok)
        PROVE  PromptOwn'
    <2>1. rec[a].run \in Runs /\ run[rec[a].run].status # "running"
      BY <1>3 DEF ReconcileWrite, RecTyped, Custody, Awaiting
    <2>2. pc' = pc /\ cur' = cur /\ \A r \in Runs \ {rec[a].run} : run'[r] = run[r]
      BY <1>3, <2>1 DEF ReconcileWrite, RunTyped, worker
    <2> QED
      BY <1>0, <2>1, <2>2
  <1>4. ASSUME NEW w \in Workers, Checkpoint(w) PROVE PromptOwn'
    <2>1. /\ pc'[w] = "idle" /\ \A v \in Workers \ {w} : pc'[v] = pc[v] /\ cur'[v] = cur[v]
          /\ \A r \in Runs \ {cur[w]} : run'[r] = run[r]
      BY <1>4 DEF Checkpoint, WorkerTyped, RunTyped
    <2>2. run[cur[w]].owner = w \/ run' = run
      BY <1>4 DEF Checkpoint, Owns
    <2> QED
      BY <1>0, <2>1, <2>2
  <1>5. ASSUME NEW w \in Workers, Heartbeat(w) PROVE PromptOwn'
    <2>1. pc' = pc /\ cur' = cur /\ cur[w] \in Runs /\ run' = [run EXCEPT ![cur[w]].lease = "live"]
      BY <1>0, <1>5 DEF Heartbeat, worker
    <2>2. \A x \in Runs : run'[x].status = run[x].status /\ run'[x].owner = run[x].owner
      BY <1>0, <2>1 DEF RunTyped, Rows
    <2> QED
      BY <1>0, <2>1, <2>2
  <1>6. ASSUME NEW w \in Workers, NEW r \in Runs, Claim(w, r) PROVE PromptOwn'
    <2>1. /\ run'[r].status = "running" /\ run'[r].owner = w /\ cur'[w] = r
          /\ \A v \in Workers \ {w} : pc'[v] = pc[v] /\ cur'[v] = cur[v]
          /\ \A x \in Runs \ {r} : run'[x] = run[x]
      BY <1>0, <1>6 DEF Claim, WorkerTyped, RunTyped, Rows
    <2>2. run[r].status # "running" \/ run[r].owner \in StallingWorkers \cup {"dead"}
      BY <1>6 DEF Claim, Claimable, Recoverable, OnTime
    <2>3. \A v \in Workers \ StallingWorkers : pc[v] # "idle" => cur[v] # r
      BY <1>0, <2>2
    <2> QED
      BY <1>0, <2>1, <2>3
  <1>7. ASSUME NEW r \in Runs, LeaseLapses(r) PROVE PromptOwn'
    <2>1. pc' = pc /\ cur' = cur /\ run' = [run EXCEPT ![r].lease = "lapsed"]
      BY <1>7 DEF LeaseLapses, worker
    <2>2. \A x \in Runs : run'[x].status = run[x].status /\ run'[x].owner = run[x].owner
      BY <1>0, <2>1 DEF RunTyped, Rows
    <2> QED
      BY <1>0, <2>1, <2>2
  <1>8. CASE Crash
    BY <1>8 DEF Crash
  <1> QED
    BY <1>1, <1>2, <1>3, <1>4, <1>5, <1>6, <1>7, <1>8, Cases

\* With heartbeats on time and one administrator at a time, whoever works on a run
\* owns it and it is running: no cancellation, answer, expiry, settled step or crash
\* hands it to a second worker (claim(), checkpoint(), cancel()).
THEOREM WorkersOwnTheirRuns == OneAdmin /\ Punctual => (Spec => []WorkerOwnsItsRun)
  <1> SUFFICES ASSUME OneAdmin, Punctual PROVE Spec => []WorkerOwnsItsRun
    OBVIOUS
  <1> DEFINE Inv == Typed /\ Custody /\ OnTime /\ PromptOwn
  <1>1. Init => Inv
    BY InitTyped, CustodyInit DEF Init, OnTime, PromptOwn, NoRun
  <1>2. Inv /\ [Next]_vars => Inv'
    BY TypedNext, CustodyNext, OnTimeNext, WorkersOwn
  <1>3. Inv => WorkerOwnsItsRun
    BY DEF PromptOwn, WorkerOwnsItsRun, Punctual
  <1> QED
    BY <1>1, <1>2, <1>3, PTL DEF Spec
-----------------------------------------------------------------------------
(* What parents, waiting requests and notifications see of a run. *)

\* Only a run that somebody works on can be asked to stop and not have ended.
Stoppable == \A r \in Runs : run[r].cancel => run[r].status \in TERMINAL \cup {"running"}

\* One step of the run as the life cycle has it: submitted, claimed, checked in,
\* answered, given up, stopped.
Moves(r) ==
  \/ run[r].status = "absent" /\ run'[r].status = "queued" /\ ~run'[r].cancel
  \/ run[r].status = "queued" /\ run'[r].status = "running" /\ run'[r].cancel = run[r].cancel
  \/ /\ run[r].status = "running" /\ run'[r].cancel = run[r].cancel
     /\ run'[r].status \in IF run[r].cancel THEN {"cancelled"} ELSE CheckIns
  \/ /\ run[r].status \in WAITING /\ ~run[r].cancel
     /\ run'[r].status = "queued" /\ run'[r].cancel = run[r].cancel
  \/ /\ run[r].status \in {"waiting_approval", "waiting_input"}
     /\ run'[r].status = "paused" /\ run'[r].cancel = run[r].cancel
  \/ /\ run[r].status \notin TERMINAL \cup {"absent"} /\ run'[r].cancel
     /\ run'[r].status = IF run[r].status = "running" THEN "running" ELSE "cancelled"

Stays(r) == run'[r].status = run[r].status /\ run'[r].cancel = run[r].cancel
Refines == \A r \in Runs : Moves(r) \/ Stays(r)

LEMMA OneMoves ==
  ASSUME RunTyped, NEW r \in Runs, Moves(r) \/ Stays(r), \A x \in Runs \ {r} : run'[x] = run[x]
  PROVE  Refines
  BY DEF Refines, Stays

LEMMA LifecycleStep ==
  ASSUME NoAdmin, Typed, Custody, Stoppable, [Next]_vars
  PROVE  Refines
  <1> USE DEF Typed, Stoppable, Moves, Stays, TERMINAL, WAITING
  <1>0. RunTyped /\ \A r \in Runs : run[r] \in Rows
    BY DEF RunTyped
  <1>1. ASSUME NEW r \in Runs, Create(r) PROVE Refines
    <2>1. /\ run'[r].status = "queued" /\ run'[r].cancel = run[r].cancel /\ run[r].status = "absent"
          /\ \A x \in Runs \ {r} : run'[x] = run[x]
      BY <1>0, <1>1 DEF Create, RunTyped, Rows
    <2> QED
      BY <1>0, <2>1, OneMoves
  <1>2. ASSUME NEW r \in Runs, Cancel(r) PROVE Refines
    <2>1. CASE ~Active(r)
      BY <1>2, <2>1 DEF Cancel, Refines
    <2>2. CASE Active(r)
      <3>1. /\ run'[r].status = StoppedStatus(r) /\ run'[r].cancel
            /\ \A x \in Runs \ {r} : run'[x] = run[x]
        BY <1>0, <1>2, <2>2 DEF Cancel, RunTyped, Rows
      <3>2. StoppedStatus(r) = IF run[r].status = "running" THEN "running" ELSE "cancelled"
        BY DEF StoppedStatus, Custody, Held
      <3> QED
        BY <1>0, <2>2, <3>1, <3>2, OneMoves DEF Active, Exists
    <2> QED
      BY <2>1, <2>2
  <1>3. ASSUME NEW r \in Runs, Resume(r) PROVE Refines
    <2>1. /\ run'[r].status = "queued" /\ run'[r].cancel = run[r].cancel
          /\ run[r].status \in {"paused", "waiting_input"}
          /\ \A x \in Runs \ {r} : run'[x] = run[x]
      BY <1>0, <1>3 DEF Resume, RunTyped, Rows
    <2> QED
      BY <1>0, <2>1, OneMoves
  <1>4. ASSUME NEW r \in Runs, ScriptInputLost(r) PROVE Refines
    <2>1. /\ run'[r].status = "paused" /\ run'[r].cancel = run[r].cancel
          /\ run[r].status = "waiting_input"
          /\ \A x \in Runs \ {r} : run'[x] = run[x]
      BY <1>0, <1>4 DEF ScriptInputLost, RunTyped, Rows
    <2> QED
      BY <1>0, <2>1, OneMoves
  <1>5. ASSUME NEW a \in Approvals, NEW ok \in BOOLEAN, Resolve(a, ok) PROVE Refines
    <2> DEFINE r == approvals[a].run
               d == {[key |-> c.key, call |-> c.call, ok |-> ok] : c \in approvals[a].calls}
    <2>1. r \in Runs /\ run[r].status = "waiting_approval"
      BY <1>5 DEF Resolve, ApprovalsTyped
    <2>2. run' = [run EXCEPT ![r].status = "queued", ![r].st.approval = None, ![r].st.decisions = d]
      BY <1>5 DEF Resolve
    <2> HIDE DEF d, r
    <2>3. /\ run'[r].status = "queued" /\ run'[r].cancel = run[r].cancel
          /\ \A x \in Runs \ {r} : run'[x] = run[x]
      BY <1>0, <2>1, <2>2 DEF RunTyped, Rows
    <2> QED
      BY <1>0, <2>1, <2>3, OneMoves
  <1>6. CASE ExpireApprovals
    BY <1>0, <1>6 DEF ExpireApprovals, Expired, Refines, RunTyped, Rows
  <1>7. ASSUME NEW a \in Approvals, ExpireOne(a) PROVE Refines
    <2> DEFINE r == approvals[a].run
    <2>1. r \in Runs /\ run[r].status = "waiting_approval" /\ run' = [run EXCEPT ![r] = Expired(r)]
      BY <1>7 DEF ExpireOne, Due, ApprovalsTyped
    <2> HIDE DEF r
    <2>2. Expired(r).status = "paused" /\ Expired(r).cancel = run[r].cancel
      BY <1>0, <2>1 DEF Expired, Rows
    <2> QED
      BY <1>0, <2>1, <2>2, OneMoves DEF RunTyped
  <1>8. ASSUME NEW w \in Workers, Checkpoint(w) PROVE Refines
    <2> DEFINE r == cur[w]
    <2>1. r \in Runs /\ out[w] \in CheckIns /\ w # None
      BY <1>8, ConstantsAssumption DEF Checkpoint, WorkerTyped, Custody, Decided, None
    <2>2. CASE ~Owns(w, r)
      BY <1>8, <2>2 DEF Checkpoint, Refines
    <2>3. CASE Owns(w, r)
      <3>1. run[r].status = "running"
        BY <2>1, <2>3 DEF Owns, Custody, Held
      <3>2. /\ run'[r].status = CheckedInStatus(w, r) /\ run'[r].cancel = run[r].cancel
            /\ \A x \in Runs \ {r} : run'[x] = run[x]
        BY <1>0, <1>8, <2>1, <2>3 DEF Checkpoint, RunTyped, Rows
      <3>3. run'[r].status \in IF run[r].cancel THEN {"cancelled"} ELSE CheckIns
        BY <2>1, <3>2 DEF CheckedInStatus
      <3> QED
        BY <1>0, <2>1, <3>1, <3>2, <3>3, OneMoves
    <2> QED
      BY <2>2, <2>3
  <1>9. ASSUME NEW w \in Workers, NEW r \in Runs, Claim(w, r) PROVE Refines
    <2>1. /\ run'[r].status = "running" /\ run'[r].cancel = run[r].cancel
          /\ run[r].status \in {"queued", "running"}
          /\ \A x \in Runs \ {r} : run'[x] = run[x]
      BY <1>0, <1>9 DEF Claim, Claimable, Recoverable, RunTyped, Rows
    <2> QED
      BY <1>0, <2>1, OneMoves
  <1>10. CASE Elsewhere \/ Crash \/ (\E w \in Workers : Heartbeat(w)) \/ \E r \in Runs : LeaseLapses(r)
    <2>1. CASE Elsewhere
      BY <2>1, ElsewhereRest DEF Refines
    <2>2. CASE Crash
      BY <1>0, <2>2 DEF Crash, Refines, Rows
    <2>3. ASSUME NEW r \in Runs, NEW lease, run' = [run EXCEPT ![r].lease = lease] PROVE Refines
      BY <1>0, <2>3 DEF Refines, RunTyped, Rows
    <2>4. ASSUME NEW w \in Workers, Heartbeat(w) PROVE Refines
      BY <2>3, <2>4 DEF Heartbeat, WorkerTyped
    <2>5. ASSUME NEW r \in Runs, LeaseLapses(r) PROVE Refines
      BY <2>3, <2>5 DEF LeaseLapses
    <2> QED
      BY <1>10, <2>1, <2>2, <2>4, <2>5
  <1> QED
    BY <1>1, <1>2, <1>3, <1>4, <1>5, <1>6, <1>7, <1>8, <1>9, <1>10, Cases DEF Requests, NoAdmin

LEMMA StoppableNext ==
  ASSUME Typed, Stoppable, Refines
  PROVE  Stoppable'
  BY DEF Stoppable, Refines, Moves, Stays, CheckIns, TERMINAL, WAITING

\* Where nobody settles doubtful steps, the durable run implements the life cycle
\* in which a finished run stays as it is and a stopped run is never started
\* again, with late heartbeats and crashes and for any number of workers.
THEOREM RunsImplementLifecycle == NoAdmin => (Spec => ImplementsLifecycle)
  <1> SUFFICES ASSUME NoAdmin PROVE Spec => ImplementsLifecycle
    OBVIOUS
  <1> DEFINE Inv == Typed /\ Custody /\ Stoppable
  <1>0. OneAdmin
    BY DEF NoAdmin, OneAdmin
  <1>1. Init => Inv
    BY InitTyped, CustodyInit DEF Init, Stoppable, NoRun
  <1>2. Inv /\ [Next]_vars => Inv'
    BY <1>0, TypedNext, CustodyNext, LifecycleStep, StoppableNext
  <1>3. Init => Lifecycle!Init
    BY DEF Init, Lifecycle!Init, NoRun
  <1>4. Inv /\ [Next]_vars => [Lifecycle!Next]_<<[r \in Runs |-> run[r].status], [r \in Runs |-> run[r].cancel]>>
    <2> SUFFICES ASSUME Inv, [Next]_vars PROVE Lifecycle!Next
      OBVIOUS
    <2>1. Refines
      BY LifecycleStep
    <2>2. SUFFICES ASSUME NEW r \in Runs PROVE Moves(r) => Lifecycle!Step(r)
      BY <2>1 DEF Lifecycle!Next, Refines, Stays
    <2> QED
      BY <1>2 DEF Moves, Lifecycle!Step, Lifecycle!Submitted, Lifecycle!Claimed, Lifecycle!CheckedIn,
         Lifecycle!Answered, Lifecycle!GivenUp, Lifecycle!Stopped, Lifecycle!TERMINAL, Lifecycle!WAITING,
         TERMINAL, WAITING, CheckIns, Stoppable, Typed, RunTyped, Rows
  <1> QED
    BY <1>1, <1>2, <1>3, <1>4, PTL DEF Spec, ImplementsLifecycle, Lifecycle!Spec
=============================================================================
