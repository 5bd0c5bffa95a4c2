------------------------------ MODULE AgentRuns ------------------------------
(***************************************************************************)
(* The durable agent run: the tables agent_runs, agent_run_steps and       *)
(* agent_run_approvals (storage/agent_runs.py), the worker threads that    *)
(* claim a run, advance it by ONE step and check it in again               *)
(* (services/agent_runs.py), and the step itself (services/react.py).      *)
(*                                                                         *)
(* Every store method is one SQLite BEGIN IMMEDIATE transaction, hence one *)
(* action.  A worker is a thread: what it does between two transactions is *)
(* a step of its own, so cancellation, approvals, administrators, lapsing  *)
(* leases and crashes interleave with it.  Time is abstracted to what the  *)
(* code tests: a lease is live or lapsed, an approval is due or not.       *)
(* Runs are the root runs; AgentCoordination models parents and children.  *)
(***************************************************************************)
EXTENDS Naturals, Sequences, FiniteSets, SequencesExt

CONSTANTS
  Runs,             \* run ids
  Workers,          \* worker threads, each with an owner uuid of its own
  Admins,           \* administrators' requests that may be under way together
  Calls,            \* the tool calls (name and arguments) a model may ask for
  Approvals,        \* approval ids (secrets.token_hex), a bound on how many are issued
  Conversation,     \* [Runs -> conversation ids]
  Kind,             \* [Calls -> {"plain", "gated", "ask"}]: gated needs an approval
  Resource,         \* [Calls -> resource_key of the call]
  MaxRounds,        \* bound: model replies that ask for tools, per run
  MaxQueue,         \* bound: tool calls in one reply
  MaxCrashes,       \* bound: process crashes
  StallingWorkers   \* workers whose heartbeat may come late although they live

None == "none"

ASSUME ConstantsAssumption ==
  /\ Conversation \in [Runs -> {Conversation[r] : r \in Runs}]
  /\ Kind \in [Calls -> {"plain", "gated", "ask"}]
  /\ Resource \in [Calls -> {Resource[c] : c \in Calls}]
  /\ MaxRounds \in Nat /\ MaxQueue \in Nat /\ MaxCrashes \in Nat
  /\ StallingWorkers \subseteq Workers
  /\ \A x \in Workers \cup Approvals : x \notin {"none", "dead"}
  /\ \A c \in Calls : Resource[c] # "none"

VARIABLES
  run,        \* the row of agent_runs: status, state_json, cancel_requested, lease
  steps,      \* the journal: agent_run_steps by run and step key
  approvals,  \* agent_run_approvals by id
  pc,         \* where each worker thread stands in advance()
  cur,        \* the run it claimed
  loc,        \* its private copy of the run's state_json
  out,        \* the status it will check in, or the result it will record
  rec,        \* what a reconcile request read before its transaction
  effects,    \* how often each step really acted on the outside world
  crashes

vars == <<run, steps, approvals, pc, cur, loc, out, rec, effects, crashes>>
worker == <<pc, cur, loc, out>>

TERMINAL == {"succeeded", "failed", "cancelled"}
WAITING == {"waiting_approval", "waiting_input", "paused"}
Statuses == TERMINAL \cup WAITING \cup {"absent", "queued", "running"}
Reasons == {"none", "execution_unknown", "approval_expired", "script_input",
            "script_input_unavailable", "blocked"}

\* A step key is "<rounds>:<queue_index>".
Keys == (1 .. MaxRounds) \X (0 .. MaxQueue - 1)
Batches == SeqOf(Calls, MaxQueue)
Decisions == [key : Keys, call : Calls, ok : BOOLEAN]
States == [phase : {"model", "tools", "verify", "finalize"}, round : 0 .. MaxRounds + 1,
           queue : Batches, idx : 0 .. MaxQueue, failures : SUBSET Calls,
           decisions : SUBSET Decisions, approval : Approvals \cup {None},
           reason : Reasons]

\* new_state: what submit() stores with a new run.
NewState == [phase |-> "model", round |-> 0, queue |-> <<>>, idx |-> 0,
             failures |-> {}, decisions |-> {}, approval |-> None, reason |-> "none"]
NoRun == [status |-> "absent", st |-> NewState, cancel |-> FALSE, owner |-> None, lease |-> "none"]
NoStep == [st |-> "none", call |-> None, ok |-> FALSE]
NoRequest == [run |-> None, st |-> NewState]
NoApproval == [run |-> None, status |-> "unused", due |-> FALSE, calls |-> {}]

Key(s) == <<s.round, s.idx>>
InBatch(s) == s.phase = "tools" /\ s.idx < Len(s.queue)
Call(s) == s.queue[s.idx + 1]

\* checkpoint() derives resource_key from the next call; agent__ calls have none.
ResourceKey(s) == IF InBatch(s) /\ Kind[Call(s)] # "ask" THEN Resource[Call(s)] ELSE None

Exists(r) == run[r].status # "absent"
Active(r) == Exists(r) /\ run[r].status \notin TERMINAL
Live(r) == run[r].status = "running" /\ run[r].lease = "live"

Init ==
  /\ run = [r \in Runs |-> NoRun]
  /\ steps = [r \in Runs |-> [k \in Keys |-> NoStep]]
  /\ approvals = [a \in Approvals |-> NoApproval]
  /\ pc = [w \in Workers |-> "idle"]
  /\ cur = [w \in Workers |-> None]
  /\ loc = [w \in Workers |-> NewState]
  /\ out = [w \in Workers |-> None]
  /\ rec = [a \in Admins |-> NoRequest]
  /\ effects = [r \in Runs |-> [k \in Keys |-> 0]]
  /\ crashes = 0

-----------------------------------------------------------------------------
(* Requests of users and administrators, and what becomes of scripts. *)

\* submit() and create(): one unfinished root run per conversation.
Create(r) ==
  /\ run[r].status = "absent"
  /\ \A x \in Runs : Conversation[x] = Conversation[r] => ~Active(x)
  /\ run' = [run EXCEPT ![r].status = "queued"]
  /\ UNCHANGED <<steps, approvals, worker, rec, effects, crashes>>

\* cancel(): a leased run is only asked to stop; its worker will check it in.
StoppedAtOnce(r) == "cancelled"                                            \* mutant
StoppedStatus(r) == IF run[r].owner = None THEN "cancelled" ELSE run[r].status
Cancel(r) ==
  /\ Exists(r)
  /\ run' = IF ~Active(r) THEN run
            ELSE [run EXCEPT ![r].cancel = TRUE,
                             ![r].status = StoppedStatus(r)]
  /\ approvals' = [a \in Approvals |->
       IF approvals[a].run = r /\ approvals[a].status = "pending"
       THEN [approvals[a] EXCEPT !.status = "cancelled"] ELSE approvals[a]]
  /\ UNCHANGED <<steps, worker, rec, effects, crashes>>

Resume(r) ==
  /\ run[r].status \in {"paused", "waiting_input"}
  /\ run[r].st.reason \notin {"execution_unknown", "script_input_unavailable"}
  /\ run' = [run EXCEPT ![r].status = "queued", ![r].st.reason = "none"]
  /\ UNCHANGED <<steps, approvals, worker, rec, effects, crashes>>

\* pause_script_input(): the input a script asked for can no longer be given.
ScriptInputLost(r) ==
  /\ run[r].status = "waiting_input" /\ run[r].st.reason = "script_input"
  /\ run' = [run EXCEPT ![r].status = "paused", ![r].st.reason = "script_input_unavailable"]
  /\ UNCHANGED <<steps, approvals, worker, rec, effects, crashes>>

\* resolve(): the decision replaces every earlier one.
Resolve(a, ok) ==
  LET r == approvals[a].run IN
  /\ approvals[a].status = "pending" /\ ~approvals[a].due
  /\ run[r].status = "waiting_approval"
  /\ run' = [run EXCEPT ![r].status = "queued", ![r].st.approval = None,
       ![r].st.decisions = {[key |-> c.key, call |-> c.call, ok |-> ok] : c \in approvals[a].calls}]
  /\ approvals' = [approvals EXCEPT ![a].status = IF ok THEN "approved" ELSE "denied"]
  /\ UNCHANGED <<steps, worker, rec, effects, crashes>>

\* reconcile() reads the run in a transaction of its own ...
ReconcileRead(a, r) ==
  /\ rec[a] = NoRequest
  /\ run[r].status = "paused" /\ run[r].st.reason = "execution_unknown"
  /\ rec' = [rec EXCEPT ![a] = [run |-> r, st |-> run[r].st]]
  /\ UNCHANGED <<run, steps, approvals, worker, effects, crashes>>

\* A result that is already there stays.
SettledAnew(row, ok) == ok                                                 \* mutant
Settled(row, ok) == IF row.st = "done" THEN row.ok ELSE ok

\* ... and writes back what it read, whatever became of the run since.
ReconcileWrite(a, k, ok) ==
  /\ rec[a] # NoRequest
  /\ rec' = [rec EXCEPT ![a] = NoRequest]
  /\ LET r == rec[a].run IN
     IF steps[r][k].st = "none" THEN UNCHANGED <<run, steps>>     \* "待核对步骤不存在"
     ELSE /\ steps' = [steps EXCEPT ![r][k].st = "done",
                                    ![r][k].ok = Settled(steps[r][k], ok)]
          /\ run' = [run EXCEPT ![r].status = "queued",
                                ![r].st = [rec[a].st EXCEPT !.reason = "none"]]
  /\ UNCHANGED <<approvals, worker, effects, crashes>>

-----------------------------------------------------------------------------
(* The background loop of every worker. *)

Due == {a \in Approvals : approvals[a].status = "pending" /\ approvals[a].due}
Expired(r) == [run[r] EXCEPT !.status = "paused", !.st.reason = "approval_expired",
                             !.st.approval = None]

\* expire_approvals(): all that are due, in one transaction.
ExpireApprovals ==
  /\ Due # {}
  /\ run' = [r \in Runs |->
       IF run[r].status = "waiting_approval" /\ \E a \in Due : approvals[a].run = r
       THEN Expired(r) ELSE run[r]]
  /\ approvals' = [a \in Approvals |->
       IF a \in Due THEN [approvals[a] EXCEPT !.status = "expired"] ELSE approvals[a]]
  /\ UNCHANGED <<steps, worker, rec, effects, crashes>>

\* expire_one(): the same for one approval, and only while its run waits.
ExpireOne(a) ==
  /\ a \in Due /\ run[approvals[a].run].status = "waiting_approval"
  /\ run' = [run EXCEPT ![approvals[a].run] = Expired(approvals[a].run)]
  /\ approvals' = [approvals EXCEPT ![a].status = "expired"]
  /\ UNCHANGED <<steps, worker, rec, effects, crashes>>

\* Exclusive ownership, and one live run per resource.
RecoverableAtOnce(r) == run[r].status = "running"                          \* mutant
RecoverableNever(r) == FALSE                                               \* mutant
Recoverable(r) == run[r].status = "running" /\ run[r].lease = "lapsed"

ResourceBusy(r) ==
  \E x \in Runs : Live(x) /\ ResourceKey(run[x].st) = ResourceKey(run[r].st)
ResourceFreeForNew(r) == run[r].status = "queued" => ~ResourceBusy(r)      \* mutant
ResourceFree(r) == ResourceKey(run[r].st) # None => ~ResourceBusy(r)

Claimable(r) == (run[r].status = "queued" \/ Recoverable(r)) /\ ResourceFree(r)

Claim(w, r) ==
  /\ pc[w] = "idle" /\ Claimable(r)
  /\ run' = [run EXCEPT ![r].status = "running", ![r].owner = w, ![r].lease = "live"]
  /\ pc' = [pc EXCEPT ![w] = "begin"]
  /\ cur' = [cur EXCEPT ![w] = r]
  /\ loc' = [loc EXCEPT ![w] = run[r].st]
  /\ UNCHANGED <<out, steps, approvals, rec, effects, crashes>>

\* The renewing thread runs until the step is over; it does not look at the
\* lease's age, only at the owner.
Heartbeat(w) ==
  /\ pc[w] \notin {"idle", "commit"}
  /\ run[cur[w]].owner = w /\ run[cur[w]].lease = "lapsed"
  /\ run' = [run EXCEPT ![cur[w]].lease = "live"]
  /\ UNCHANGED <<steps, approvals, worker, rec, effects, crashes>>

-----------------------------------------------------------------------------
(* advance(): one step of the claimed run. *)

\* The worker is done with its step: s is to be checked in with a status.
Finish(w, s, status) ==
  /\ loc' = [loc EXCEPT ![w] = s]
  /\ out' = [out EXCEPT ![w] = status]
  /\ pc' = [pc EXCEPT ![w] = "commit"]
  /\ UNCHANGED cur
GoTo(w, place) ==
  /\ pc' = [pc EXCEPT ![w] = place]
  /\ UNCHANGED <<cur, loc, out>>

Stopped(w) == run[cur[w]].cancel

Begin(w) ==
  /\ pc[w] = "begin"
  /\ LET s == loc[w] IN
     \/ Stopped(w) /\ Finish(w, s, "cancelled")
     \/ ~Stopped(w) /\ s.phase \in {"model", "verify"} /\ GoTo(w, "model")
     \/ ~Stopped(w) /\ s.phase = "tools" /\ GoTo(w, "tools")
     \/ /\ ~Stopped(w) /\ s.phase = "finalize"
        /\ Finish(w, s, IF s.failures = {} THEN "succeeded" ELSE "failed")
  /\ UNCHANGED <<run, steps, approvals, rec, effects, crashes>>

\* The organization, the member, the preset or the model is not available.
BlockedUnknown(w) ==                                                       \* mutant
  /\ pc[w] \in {"begin", "model"}
  /\ Finish(w, [loc[w] EXCEPT !.reason = "execution_unknown"], "paused")
  /\ UNCHANGED <<run, steps, approvals, rec, effects, crashes>>
Blocked(w) ==
  /\ pc[w] \in {"begin", "model"}
  /\ Finish(w, [loc[w] EXCEPT !.reason = "blocked"], "paused")
  /\ UNCHANGED <<run, steps, approvals, rec, effects, crashes>>

\* rounds += 1; beyond MaxRounds the model asks for no more tools and the
\* count, which then names no step key, saturates.
NextRound(n) == IF n > MaxRounds THEN n ELSE n + 1

\* The reply of the model in phase "model", after the second look at stopped().
Reply(w) ==
  /\ pc[w] = "model" /\ loc[w].phase = "model"
  /\ LET s == [loc[w] EXCEPT !.round = NextRound(@)] IN
     \/ Stopped(w) /\ Finish(w, loc[w], "cancelled")
     \/ /\ ~Stopped(w) /\ loc[w].round < MaxRounds
        /\ \E q \in Batches \ {<<>>} :
             Finish(w, [s EXCEPT !.phase = "tools", !.queue = q, !.idx = 0], "queued")
     \/ ~Stopped(w) /\ loc[w].round < MaxRounds /\ Finish(w, s, "queued")     \* truncated output
     \/ ~Stopped(w) /\ Finish(w, [s EXCEPT !.reason = "blocked"], "paused")   \* nothing usable
     \/ /\ ~Stopped(w) /\ s.failures # {} /\ Finish(w, s, "failed")
     \/ /\ ~Stopped(w) /\ s.failures = {}
        /\ \E p \in {"verify", "finalize"} : Finish(w, [s EXCEPT !.phase = p], "queued")
  /\ UNCHANGED <<run, steps, approvals, rec, effects, crashes>>

\* The completion check: another attempt only while there is progress.
Verify(w) ==
  /\ pc[w] = "model" /\ loc[w].phase = "verify"
  /\ LET s == loc[w] IN
     \/ Stopped(w) /\ Finish(w, s, "cancelled")
     \/ ~Stopped(w) /\ s.failures = {} /\ Finish(w, [s EXCEPT !.phase = "finalize"], "queued")
     \/ /\ ~Stopped(w) /\ s.round < MaxRounds
        /\ Finish(w, [s EXCEPT !.phase = "model"], "queued")
     \/ ~Stopped(w) /\ Finish(w, [s EXCEPT !.reason = "blocked"], "paused")
  /\ UNCHANGED <<run, steps, approvals, rec, effects, crashes>>

\* The payload of the current call is appended and the queue moves on.
Counted(s, ok, n) ==
  [s EXCEPT !.idx = @ + n,
            !.failures = IF ok THEN @ \ {Call(s)} ELSE @ \cup {Call(s)}]
ConsumedWithBatch(s, ok) == Counted(s, ok, 1 + Len(s.queue))                        \* mutant
Consumed(s, ok) == Counted(s, ok, 1)
\* After a payload: the next call, a pause for want of progress, or a wait for
\* the input a script asks for.
WhyStopped(s, status) ==
  CASE status = "paused" -> "blocked" [] status = "waiting_input" -> "script_input" [] OTHER -> s.reason
Consume(w, ok) ==
  \E status \in {"queued", "paused"} \cup (IF ok THEN {"waiting_input"} ELSE {}) :
    Finish(w, [Consumed(loc[w], ok) EXCEPT !.reason = WhyStopped(loc[w], status)], status)

DecisionsOn(s) == {d \in s.decisions : d.key = Key(s)}
GrantsAnyAnswer(d, s) == d.call = Call(s)                                  \* mutant
GrantsOtherCall(d, s) == d.ok                                              \* mutant
Grants(d, s) == d.call = Call(s) /\ d.ok

EndBatch(w) ==
  /\ pc[w] = "tools" /\ ~InBatch(loc[w])
  /\ \E p \in {"model", "verify"} : Finish(w, [loc[w] EXCEPT !.phase = p], "queued")
  /\ UNCHANGED <<run, steps, approvals, rec, effects, crashes>>

\* agent__request_input, or agent__update_plan and unusable arguments, which
\* only move on.
AskInput(w) ==
  /\ pc[w] = "tools" /\ InBatch(loc[w]) /\ Kind[Call(loc[w])] = "ask"
  /\ \/ Finish(w, [loc[w] EXCEPT !.idx = @ + 1], "waiting_input")
     \/ Finish(w, [loc[w] EXCEPT !.idx = @ + 1], "queued")
     \/ Finish(w, [loc[w] EXCEPT !.idx = @ + 1, !.reason = "blocked"], "paused")
  /\ UNCHANGED <<run, steps, approvals, rec, effects, crashes>>

\* The grant was withdrawn, or the arguments are unusable; or a human refused.
Refuse(w) ==
  /\ pc[w] = "tools" /\ InBatch(loc[w]) /\ Kind[Call(loc[w])] # "ask"
  /\ Consume(w, FALSE)
  /\ UNCHANGED <<run, steps, approvals, rec, effects, crashes>>

\* The decision was made on another call than the one now under this key.
DecisionMismatch(w) ==
  /\ pc[w] = "tools" /\ InBatch(loc[w]) /\ Kind[Call(loc[w])] # "ask"
  /\ \E d \in DecisionsOn(loc[w]) : d.call # Call(loc[w])
  /\ Finish(w, [loc[w] EXCEPT !.reason = "blocked"], "paused")
  /\ UNCHANGED <<run, steps, approvals, rec, effects, crashes>>

\* approval(): one request for every gated call left in the batch.
Pending(s, first) ==
  {c \in {[key |-> <<s.round, i>>, call |-> s.queue[i + 1]] : i \in first .. Len(s.queue) - 1} :
     Kind[c.call] = "gated"}
AskedLate(s) == Pending(s, s.idx + 1)                                      \* mutant
Asked(s) == Pending(s, s.idx)

RequestApproval(w, a) ==
  LET s == loc[w] IN
  /\ pc[w] = "tools" /\ InBatch(s) /\ Kind[Call(s)] = "gated" /\ DecisionsOn(s) = {}
  /\ approvals[a] = NoApproval
  /\ approvals' = [approvals EXCEPT ![a] =
       [run |-> cur[w], status |-> "pending", due |-> FALSE, calls |-> Asked(s)]]
  /\ Finish(w, [s EXCEPT !.approval = a], "waiting_approval")
  /\ UNCHANGED <<run, steps, rec, effects, crashes>>

\* Allowed to run it: look at stopped() once more, then journal.
Permit(w) ==
  /\ pc[w] = "tools" /\ InBatch(loc[w]) /\ Kind[Call(loc[w])] # "ask"
  /\ \A d \in DecisionsOn(loc[w]) : Grants(d, loc[w])
  /\ Kind[Call(loc[w])] = "gated" => DecisionsOn(loc[w]) # {}
  /\ IF Stopped(w) THEN Finish(w, loc[w], "cancelled") ELSE GoTo(w, "journal")
  /\ UNCHANGED <<run, steps, approvals, rec, effects, crashes>>

\* A step may be entered in the journal once.
MayStartAgain(row) == row.st # "done"                                      \* mutant
MayStart(row) == row.st = "none"

\* journal(): the primary key (run_id, step_key) admits one execution; a
\* recorded result is replayed, an unfinished one stops the run.
Journal(w) ==
  LET r == cur[w]  s == loc[w]  k == Key(s) IN
  /\ pc[w] = "journal"
  /\ \/ /\ MayStart(steps[r][k])
        /\ steps' = [steps EXCEPT ![r][k] = [st |-> "started", call |-> Call(s), ok |-> FALSE]]
        /\ GoTo(w, "started")
     \/ /\ steps[r][k].st = "done"
        /\ Consume(w, steps[r][k].ok)
        /\ UNCHANGED steps
     \/ /\ steps[r][k].st = "started" /\ ~MayStart(steps[r][k])
        /\ Finish(w, [s EXCEPT !.reason = "execution_unknown"], "paused")
        /\ UNCHANGED steps
  /\ UNCHANGED <<run, approvals, rec, effects, crashes>>

\* The last look at stopped(); the entry stays "started" if the run stops here.
BeforeExecute(w) ==
  /\ pc[w] = "started"
  /\ IF Stopped(w) THEN Finish(w, loc[w], "cancelled") ELSE GoTo(w, "execute")
  /\ UNCHANGED <<run, steps, approvals, rec, effects, crashes>>

\* runtime.execute(): the tool acts on the world and answers ok or not.
Execute(w) ==
  /\ pc[w] = "execute"
  /\ effects' = [effects EXCEPT ![cur[w]][Key(loc[w])] = @ + 1]
  /\ \E ok \in {"ok", "bad"} : out' = [out EXCEPT ![w] = ok]
  /\ pc' = [pc EXCEPT ![w] = "executed"]
  /\ UNCHANGED <<cur, loc, run, steps, approvals, rec, crashes>>

\* An exception out of the tool or of journal_result(): nobody records what it did.
ExecuteRaises(w) ==
  /\ pc[w] = "executed"
  /\ Finish(w, [loc[w] EXCEPT !.reason = "blocked"], "paused")
  /\ UNCHANGED <<run, steps, approvals, rec, effects, crashes>>

\* journal_result(): by run and key alone.
Record(w) ==
  LET ok == out[w] = "ok" IN
  /\ pc[w] = "executed"
  /\ steps' = [steps EXCEPT ![cur[w]][Key(loc[w])].st = "done",
                            ![cur[w]][Key(loc[w])].ok = ok]
  /\ Consume(w, ok)
  /\ UNCHANGED <<run, approvals, rec, effects, crashes>>

\* checkpoint(): rejected unless the worker still owns the run.
OwnsRunning(w, r) == run[r].status = "running"                             \* mutant
Owns(w, r) == run[r].owner = w
CheckedInAsIs(w, r) == out[w]                                              \* mutant
CheckedInStatus(w, r) == IF run[r].cancel THEN "cancelled" ELSE out[w]

Checkpoint(w) ==
  LET r == cur[w] IN
  /\ pc[w] = "commit"
  /\ run' = IF ~Owns(w, r) THEN run
            ELSE [run EXCEPT ![r] =
              [@ EXCEPT !.st = loc[w], !.owner = None, !.lease = "none",
                        !.status = CheckedInStatus(w, r)]]
  /\ pc' = [pc EXCEPT ![w] = "idle"]
  /\ cur' = [cur EXCEPT ![w] = None]
  /\ loc' = [loc EXCEPT ![w] = NewState]
  /\ out' = [out EXCEPT ![w] = None]
  /\ UNCHANGED <<steps, approvals, rec, effects, crashes>>

-----------------------------------------------------------------------------
(* The environment. *)

LeaseLapses(r) ==
  /\ Live(r) /\ run[r].owner \in StallingWorkers \cup {"dead"}
  /\ run' = [run EXCEPT ![r].lease = "lapsed"]
  /\ UNCHANGED <<steps, approvals, worker, rec, effects, crashes>>

\* The time to live runs out before the run is checked in only under a worker
\* that stalls between the two transactions.
ApprovalFallsDue(a) ==
  /\ approvals[a].status = "pending" /\ ~approvals[a].due
  /\ \A w \in Workers : pc[w] = "commit" /\ loc[w].approval = a => w \in StallingWorkers
  /\ approvals' = [approvals EXCEPT ![a].due = TRUE]
  /\ UNCHANGED <<run, steps, worker, rec, effects, crashes>>

\* The process dies and restarts: new threads with new owner uuids, so the
\* owners in the table are nobody's.
Crash ==
  /\ crashes < MaxCrashes
  /\ crashes' = crashes + 1
  /\ run' = [r \in Runs |-> IF run[r].owner = None THEN run[r] ELSE [run[r] EXCEPT !.owner = "dead"]]
  /\ pc' = [w \in Workers |-> "idle"]
  /\ cur' = [w \in Workers |-> None]
  /\ loc' = [w \in Workers |-> NewState]
  /\ out' = [w \in Workers |-> None]
  /\ rec' = [a \in Admins |-> NoRequest]
  /\ UNCHANGED <<steps, approvals, effects>>

WorkerStep(w) ==
  \/ Begin(w) \/ Blocked(w) \/ Reply(w) \/ Verify(w) \/ EndBatch(w) \/ AskInput(w)
  \/ Refuse(w) \/ DecisionMismatch(w) \/ (\E a \in Approvals : RequestApproval(w, a))
  \/ Permit(w) \/ Journal(w) \/ BeforeExecute(w) \/ Execute(w) \/ ExecuteRaises(w)
  \/ Record(w) \/ Checkpoint(w)

UserStep ==
  \/ \E r \in Runs : Create(r) \/ Cancel(r) \/ Resume(r) \/ ScriptInputLost(r)
  \/ \E a \in Approvals, ok \in BOOLEAN : Resolve(a, ok)
  \/ \E a \in Admins, r \in Runs : ReconcileRead(a, r)
  \/ \E a \in Admins, k \in Keys, ok \in BOOLEAN : ReconcileWrite(a, k, ok)

Next ==
  \/ UserStep
  \/ ExpireApprovals \/ (\E a \in Approvals : ExpireOne(a) \/ ApprovalFallsDue(a))
  \/ \E w \in Workers : WorkerStep(w) \/ Heartbeat(w) \/ (\E r \in Runs : Claim(w, r))
  \/ (\E r \in Runs : LeaseLapses(r)) \/ Crash

\* Threads are scheduled; claim() takes the least recently updated run, so a
\* run that can be claimed again and again is claimed; a dead owner's lease
\* runs out.  Nobody owes the system a request.
Fairness ==
  /\ \A w \in Workers : WF_vars(WorkerStep(w))
  /\ \A r \in Runs : SF_vars(\E w \in Workers : Claim(w, r))
  /\ \A r \in Runs : WF_vars(run[r].owner = "dead" /\ LeaseLapses(r))

Spec == Init /\ [][Next]_vars
FairSpec == Spec /\ Fairness

-----------------------------------------------------------------------------
(* What the component promises. *)

\* The rows and the workers' local variables have their types.
TypeOK ==
  /\ run \in [Runs -> [status : Statuses, st : States, cancel : BOOLEAN,
                       owner : Workers \cup {None, "dead"}, lease : {"none", "live", "lapsed"}]]
  /\ steps \in [Runs -> [Keys -> [st : {"none", "started", "done"}, call : Calls \cup {None},
                                  ok : BOOLEAN]]]
  /\ approvals \in [Approvals -> [run : Runs \cup {None}, due : BOOLEAN,
                      status : {"unused", "pending", "approved", "denied", "expired", "cancelled"},
                      calls : SUBSET [key : Keys, call : Calls]]]
  /\ pc \in [Workers -> {"idle", "begin", "model", "tools", "journal", "started", "execute",
                         "executed", "commit"}]
  /\ cur \in [Workers -> Runs \cup {None}]
  /\ \A w \in Workers : pc[w] # "idle" => cur[w] \in Runs
  /\ loc \in [Workers -> States]
  /\ out \in [Workers -> Statuses \cup {None, "ok", "bad"}]
  /\ rec \in [Admins -> [run : Runs \cup {None}, st : States]]
  /\ effects \in [Runs -> [Keys -> Nat]]
  /\ crashes \in 0 .. MaxCrashes

\* A journaled step acts on the world at most once, whatever crashes, lapsing
\* leases, resumptions and reconciliations come between (journal()).
AtMostOnce == \A r \in Runs, k \in Keys : effects[r][k] <= 1

\* A call that needs an approval acts only after a human approved that very
\* call under that very step key (resolve(), _tool_step()).
GatedOnlyIfApproved ==
  \A r \in Runs, k \in Keys :
    effects[r][k] > 0 /\ Kind[steps[r][k].call] = "gated" =>
      \E a \in Approvals : /\ approvals[a].run = r /\ approvals[a].status = "approved"
                           /\ [key |-> k, call |-> steps[r][k].call] \in approvals[a].calls

\* A run paused for an unknown outcome has, at the key it stands at, a journal
\* entry for the administrator to settle: reconcile() never answers that the
\* step does not exist.
UnknownIsReconcilable ==
  \A r \in Runs : run[r].status = "paused" /\ run[r].st.reason = "execution_unknown" =>
    InBatch(run[r].st) /\ steps[r][Key(run[r].st)].st # "none"

\* A run that waits for an approval can get it: the approval its state shows is
\* pending and covers the call it stands at (approval(), checkpoint(), cancel()).
WaitingIsAnswerable ==
  \A r \in Runs : run[r].status = "waiting_approval" =>
    LET s == run[r].st IN
    /\ s.approval # None /\ approvals[s.approval].run = r
    /\ approvals[s.approval].status = "pending"
    /\ [key |-> Key(s), call |-> Call(s)] \in approvals[s.approval].calls

\* Where no heartbeat comes late, a worker inside a step owns its run: nothing a
\* user does to a run takes it from a worker or hands it to a second one.
WorkerOwnsItsRun ==
  \A w \in Workers : pc[w] # "idle" => run[cur[w]].owner = w /\ run[cur[w]].status = "running"

\* claim(): no two live runs work on one workspace, data source or MCP server.
ResourceExclusive ==
  \A r, x \in Runs : Live(r) /\ Live(x) /\ ResourceKey(run[r].st) # None
                     /\ ResourceKey(run[r].st) = ResourceKey(run[x].st) => r = x

\* claim(): a run with a live lease is not taken over, only given back (or its
\* process dies).
ExclusiveOwnership ==
  [][\A r \in Runs : run[r].lease = "live" /\ run'[r].owner # run[r].owner =>
       run'[r].owner \in {None, "dead"}]_vars

\* A run's position never moves back: no late check-in and no request restores
\* an older state over a newer one, which would decide and act again under
\* step keys already used.
ProgressNeverRollsBack ==
  [][\A r \in Runs : LET old == run[r].st  new == run'[r].st IN
       \/ old.round < new.round
       \/ old.round = new.round /\ old.queue = new.queue /\ old.idx <= new.idx]_vars

\* A result an administrator recorded for a step gives way to nothing but the
\* result of that very act, told late by the worker that was inside the tool
\* (reconcile(), journal_result()).
RecordedResultIsFinal ==
  [][\A r \in Runs, k \in Keys : steps[r][k].st = "done" =>
       \/ steps'[r][k] = steps[r][k]
       \/ \E w \in StallingWorkers : pc[w] = "executed" /\ cur[w] = r /\ Key(loc[w]) = k
                                     /\ pc'[w] # "executed"]_vars

\* No run succeeds over a step of its own whose outcome nobody knows: it stops
\* for an administrator first (journal(), reconcile()).
NoStepLeftOpen ==
  \A r \in Runs, k \in Keys :
    run[r].status = "succeeded" => steps[r][k].st # "started"

\* Seen by status and cancel_requested alone, a run does what RunLifecycle says:
\* this is what parents, waiting requests and notifications rely on.
Lifecycle == INSTANCE RunLifecycle WITH status <- [r \in Runs |-> run[r].status],
                                        cancel <- [r \in Runs |-> run[r].cancel]
ImplementsLifecycle == Lifecycle!Spec

\* A run that is due for work is not starved by other runs or by crashes: it
\* finishes or stops to wait for somebody (claim(), checkpoint()).  A stopped run
\* ends: at once, or when its worker next looks (cancel()).
EveryRunSettles ==
  \A r \in Runs :
    run[r].status \in {"queued", "running"} \/ run[r].cancel
      ~> run[r].status \in (IF run[r].cancel THEN TERMINAL ELSE TERMINAL \cup WAITING)
=============================================================================
