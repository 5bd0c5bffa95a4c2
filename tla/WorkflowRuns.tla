---------------------------- MODULE WorkflowRuns ----------------------------
(***************************************************************************)
(* A durable workflow run: the tables workflow_runs, workflow_node_runs    *)
(* and workflow_waits (workflows/store.py), and the worker threads that    *)
(* claim a run and carry it from node to node until it ends, waits or is   *)
(* put back (workflows/runtime.py).                                        *)
(*                                                                         *)
(* Every store method is one transaction and one action; between two of    *)
(* them a worker is a thread like any other, so that cancellation, answers,*)
(* expiry, administrators and crashes come in between.  A node is what its *)
(* type does to the run: it reads, branches, writes outside, asks, waits or*)
(* ends.  Agent and subworkflow nodes, for_each and test runs are left out.*)
(* The lease is renewed every 30 s of its 600 s by a thread of its own:    *)
(* only a dead process loses it here.                                      *)
(***************************************************************************)
EXTENDS Naturals, Sequences, FiniteSets, SequencesExt

CONSTANTS
  Runs,         \* run ids, numbered in the order of created_at; one organization
  Nodes,        \* node ids of all definitions
  Start,        \* [Runs -> Nodes]: the first node of the run's definition
  Kind,         \* [Nodes -> Kinds]
  OnError,      \* [Nodes -> {"stop", "retry", "continue", "error_branch"}]
  Targets,      \* [Nodes -> [Ports -> Seq(Nodes)]]: the edges, without cycles
  MaxRetries,   \* max_retries of the nodes whose OnError is "retry"
  MaxActive,    \* live runs of an organization: 2 in claim_run()
  Workers,      \* worker threads, each an owner
  Admins,       \* administrators' requests that may be under way together
  MaxCrashes    \* bound: process crashes

None == "none"
NoRun == 0
Kinds == {"step", "choice", "write", "gated", "approval", "input", "delay", "end"}
Ports == {"default", "true", "false", "approved", "rejected", "error"}

ASSUME ConstantsAssumption ==
  /\ Runs \subseteq Nat \ {NoRun}
  /\ Start \in [Runs -> Nodes] /\ Kind \in [Nodes -> Kinds]
  /\ OnError \in [Nodes -> {"stop", "retry", "continue", "error_branch"}]
  /\ \A n \in Nodes, p \in Ports : Targets[n][p] \in Seq(Nodes)
  /\ MaxRetries \in Nat /\ MaxActive \in Nat /\ MaxCrashes \in Nat
  /\ \A x \in Workers : x \notin {"none", "dead"}

VARIABLES
  run,      \* workflow_runs: status, state_json, wake_at ahead of now, lease
  rows,     \* workflow_node_runs, oldest first, without those that finished
  waits,    \* workflow_waits by run and node
  pc, cur, node, loc, out,   \* each worker: place, run, node, copy of the state, outcome
  req,      \* what a resolve_attention() read before its transaction
  acted,    \* the writes of each run that reached the outside world
  crashes

vars == <<run, rows, waits, pc, cur, node, loc, out, req, acted, crashes>>
worker == <<pc, cur, node, loc, out>>

FINISHED == {"succeeded", "failed", "timed_out", "canceled"}
Statuses == FINISHED \cup {"absent", "queued", "running", "waiting", "needs_attention"}
WriteKinds == {"write", "gated"}          \* tool, script, http, notification

NewState(r) == [queue |-> <<Start[r]>>, completed |-> {}, attempts |-> [n \in Nodes |-> 0]]
NoState == [queue |-> <<>>, completed |-> {}, attempts |-> [n \in Nodes |-> 0]]
\* Of the rows of one key only the latest is read again; the older ones still
\* matter while they are pending.  att: a pending row of type attention.
NoWait == [last |-> None, older |-> 0, att |-> FALSE]
NoRequest == [run |-> NoRun, st |-> NoState, row |-> 0]

Exists(r) == run[r].status # "absent"
Live(r) == run[r].status = "running" /\ run[r].lease = "live"

Init ==
  /\ run = [r \in Runs |-> [status |-> "absent", st |-> NewState(r), asleep |-> FALSE,
                            owner |-> None, lease |-> "none"]]
  /\ rows = [r \in Runs |-> <<>>]
  /\ waits = [r \in Runs |-> [n \in Nodes |-> NoWait]]
  /\ pc = [w \in Workers |-> "idle"]
  /\ cur = [w \in Workers |-> NoRun]
  /\ node = [w \in Workers |-> None]
  /\ loc = [w \in Workers |-> NoState]
  /\ out = [w \in Workers |-> None]
  /\ req = [a \in Admins |-> NoRequest]
  /\ acted = [r \in Runs |-> {}]
  /\ crashes = 0

-----------------------------------------------------------------------------
(* Requests. *)

\* enqueue_run()
Enqueue(r) ==
  /\ ~Exists(r) /\ \A x \in Runs : x < r => Exists(x)
  /\ run' = [run EXCEPT ![r].status = "queued"]
  /\ UNCHANGED <<rows, waits, worker, req, acted, crashes>>

\* cancel_run(): the row and its waits; the worker is not told.
Cancel(r) ==
  /\ run[r].status \in {"queued", "running", "waiting", "needs_attention"}
  /\ run' = [run EXCEPT ![r].status = "canceled", ![r].owner = None, ![r].lease = "none"]
  /\ waits' = [waits EXCEPT ![r] = [n \in Nodes |->
       [last |-> IF @[n].last = "pending" THEN "canceled" ELSE @[n].last,
        older |-> 0, att |-> FALSE]]]
  /\ UNCHANGED <<rows, worker, req, acted, crashes>>

\* Whoever settles a wait sets its run going again, if it is waiting.
RequeuedAnyway(r) == [run[r] EXCEPT !.status = "queued", !.asleep = FALSE]  \* mutant
Requeued(r) ==
  IF run[r].status = "waiting" THEN [run[r] EXCEPT !.status = "queued", !.asleep = FALSE] ELSE run[r]

\* What resolve_workflow_wait() lets people answer: delays and attention it refuses,
\* they are left to expire_waits() and resolve_attention().
Answers(n) ==
  CASE Kind[n] \in {"approval", "gated"} -> {"approved", "rejected"}
    [] Kind[n] = "input" -> {"resolved"}
    [] OTHER -> {}

\* resolve_wait() of the latest wait of a node, or of one before it.
ResolveWait(r, n) ==
  /\ \/ /\ waits[r][n].last = "pending"
        /\ \E answer \in Answers(n) : waits' = [waits EXCEPT ![r][n].last = answer]
     \/ /\ waits[r][n].older > 0 /\ Answers(n) # {}
        /\ waits' = [waits EXCEPT ![r][n].older = @ - 1]
  /\ run' = [run EXCEPT ![r] = Requeued(r)]
  /\ UNCHANGED <<rows, worker, req, acted, crashes>>

\* expire_waits(): older waits fall due first.
ExpireWaits(r, n) ==
  /\ \/ /\ waits[r][n].last = "pending"
        /\ waits' = [waits EXCEPT ![r][n].last = "expired", ![r][n].older = 0]
     \/ /\ waits[r][n].older > 0
        /\ \E left \in 0 .. waits[r][n].older - 1 : waits' = [waits EXCEPT ![r][n].older = left]
  /\ run' = [run EXCEPT ![r] = Requeued(r)]
  /\ UNCHANGED <<rows, worker, req, acted, crashes>>

\* resolve_attention() reads the run, its state and the latest row to see to ...
ToSeeTo(r) == {i \in DOMAIN rows[r] : rows[r][i].st = "needs_attention"}
AttentionRead(a, r) ==
  /\ req[a] = NoRequest
  /\ run[r].status = "needs_attention" /\ ToSeeTo(r) # {}
  /\ req' = [req EXCEPT ![a] = [run |-> r, st |-> run[r].st,
                                row |-> CHOOSE i \in ToSeeTo(r) : \A j \in ToSeeTo(r) : j <= i]]
  /\ UNCHANGED <<run, rows, waits, worker, acted, crashes>>

\* ... works the action into what it read ...
Retried(s, n) == [s EXCEPT !.queue = IF Contains(@, n) THEN @ ELSE <<n>> \o @]
Without(q, n) ==
  LET left[i \in 0 .. Len(q)] ==
        IF i = 0 THEN <<>> ELSE IF q[i] = n THEN left[i - 1] ELSE Append(left[i - 1], q[i])
  IN left[Len(q)]
Joined(q, targets) ==
  LET grown[i \in 0 .. Len(targets)] ==
        IF i = 0 THEN q
        ELSE IF Contains(grown[i - 1], targets[i]) THEN grown[i - 1] ELSE Append(grown[i - 1], targets[i])
  IN grown[Len(targets)]
Skipped(s, n) == [s EXCEPT !.completed = @ \cup {n},
                           !.queue = Joined(Without(@, n), Targets[n]["default"])]

\* ... and writes it in a transaction, where the status is looked at again.
AttentionWrite(a, action) ==
  /\ req[a] # NoRequest
  /\ req' = [req EXCEPT ![a] = NoRequest]
  /\ LET r == req[a].run  s == req[a].st  n == rows[r][req[a].row].node IN
     /\ waits' = [waits EXCEPT ![r][n].att = FALSE]
     /\ run' = IF run[r].status # "needs_attention" THEN run
               ELSE IF action = "terminate" THEN [run EXCEPT ![r].status = "failed"]
               ELSE [run EXCEPT ![r].status = "queued", ![r].asleep = FALSE,
                       ![r].st = IF action = "retry" THEN Retried(s, n) ELSE Skipped(s, n)]
     /\ rows' = IF action = "skip" THEN [rows EXCEPT ![r][req[a].row].st = "skipped"] ELSE rows
  /\ UNCHANGED <<worker, acted, crashes>>

-----------------------------------------------------------------------------
(* Claiming. *)

RecoverableNever(r) == FALSE                                               \* mutant
Recoverable(r) == run[r].status = "running" /\ run[r].lease = "lapsed"

AtLimit == Cardinality({r \in Runs : Live(r)}) >= MaxActive

Eligible(r) == (run[r].status = "queued" \/ Recoverable(r)) /\ ~run[r].asleep /\ ~AtLimit

\* The row that was being worked on when the process died: the latest unfinished
\* one, as a node that was repeated leaves an older one behind.
Unfinished(r) == {i \in DOMAIN rows[r] : rows[r][i].st = "running"}
InDoubtOldest(r) ==                                                        \* mutant
  IF run[r].status # "running" THEN {}
  ELSE {i \in Unfinished(r) : Kind[rows[r][i].node] \in WriteKinds /\ \A j \in Unfinished(r) : i <= j}
InDoubt(r) ==
  IF run[r].status # "running" THEN {}
  ELSE {i \in Unfinished(r) : Kind[rows[r][i].node] \in WriteKinds /\ \A j \in Unfinished(r) : j <= i}

\* _mark_uncertain_write(): the outcome of a write is unknown, an administrator
\* has to look.
MarkedNowhere(r, i) == rows[r]                                             \* mutant
Marked(r, i) == [rows[r] EXCEPT ![i].st = "needs_attention"]
MarkUncertain(r, i) ==
  /\ rows' = [rows EXCEPT ![r] = Marked(r, i)]
  /\ run' = [run EXCEPT ![r].status = "needs_attention", ![r].owner = None, ![r].lease = "none"]
  /\ waits' = [waits EXCEPT ![r][rows[r][i].node].att = TRUE]
  /\ UNCHANGED worker

\* claim_run(): the oldest run that may go on.
Claim(w, r) ==
  /\ pc[w] = "idle" /\ Eligible(r) /\ \A x \in Runs : x < r => ~Eligible(x)
  /\ \/ \E i \in InDoubt(r) : MarkUncertain(r, i)
     \/ /\ InDoubt(r) = {}
        /\ run' = [run EXCEPT ![r].status = "running", ![r].owner = w, ![r].lease = "live"]
        /\ pc' = [pc EXCEPT ![w] = "loop"]
        /\ cur' = [cur EXCEPT ![w] = r]
        /\ loc' = [loc EXCEPT ![w] = run[r].st]
        /\ UNCHANGED <<rows, waits, node, out>>
  /\ UNCHANGED <<req, acted, crashes>>

-----------------------------------------------------------------------------
(* _execute_run(): the loop over the nodes. *)

GoTo(w, place, s) ==
  /\ pc' = [pc EXCEPT ![w] = place]
  /\ loc' = [loc EXCEPT ![w] = s]
  /\ UNCHANGED <<cur, node, out>>
ToFinish(w, status) ==
  /\ pc' = [pc EXCEPT ![w] = "finish"]
  /\ out' = [out EXCEPT ![w] = status]
  /\ UNCHANGED <<cur, node, loc>>
Leave(w) ==
  /\ pc' = [pc EXCEPT ![w] = "idle"]
  /\ cur' = [cur EXCEPT ![w] = NoRun]
  /\ node' = [node EXCEPT ![w] = None]
  /\ loc' = [loc EXCEPT ![w] = NoState]
  /\ out' = [out EXCEPT ![w] = None]

\* Attempts are told apart up to the last one a policy may ask for.
Attempted(k) == IF k > MaxRetries THEN k ELSE k + 1

\* The top of the loop: out of time, cancelled, unusable (the step limit, a value
\* that cannot be rendered), completed before, or next.
Look(w) ==
  LET s == loc[w]  n == Head(s.queue)  rest == [s EXCEPT !.queue = Tail(@)] IN
  /\ pc[w] = "loop"
  /\ \/ s.queue = <<>> /\ ToFinish(w, "succeeded")
     \/ s.queue # <<>> /\ ToFinish(w, "timed_out")
     \/ s.queue # <<>> /\ run[cur[w]].status = "canceled" /\ Leave(w)
     \/ s.queue # <<>> /\ run[cur[w]].status # "canceled" /\ ToFinish(w, "failed")
     \/ /\ s.queue # <<>> /\ run[cur[w]].status # "canceled" /\ n \in s.completed
        /\ GoTo(w, "loop", rest)
     \/ /\ s.queue # <<>> /\ run[cur[w]].status # "canceled" /\ n \notin s.completed
        /\ pc' = [pc EXCEPT ![w] = "begin"]
        /\ node' = [node EXCEPT ![w] = n]
        /\ loc' = [loc EXCEPT ![w] = [rest EXCEPT !.attempts[n] = Attempted(@)]]
        /\ UNCHANGED <<cur, out>>
  /\ UNCHANGED <<run, rows, waits, req, acted, crashes>>

BeginNode(w) ==
  /\ pc[w] = "begin"
  /\ rows' = [rows EXCEPT ![cur[w]] = Append(@, [node |-> node[w], st |-> "running"])]
  /\ GoTo(w, "execute", loc[w])
  /\ UNCHANGED <<run, waits, req, acted, crashes>>

\* The outcome of a node: done through a port, or failed.
Done(w, port) ==
  /\ pc' = [pc EXCEPT ![w] = "done"]
  /\ out' = [out EXCEPT ![w] = port]
  /\ UNCHANGED <<cur, node, loc>>
Failed(w) == GoTo(w, "failed", loc[w])

Here(w, kinds) == pc[w] = "execute" /\ Kind[node[w]] \in kinds
Wait(w) == waits[cur[w]][node[w]].last

Execute(w) ==
  /\ \/ Here(w, {"step", "end"}) /\ Done(w, "default")
     \/ Here(w, {"choice"}) /\ \E p \in {"true", "false"} : Done(w, p)
     \/ Here(w, {"step", "choice"}) /\ Failed(w)
  /\ UNCHANGED <<run, rows, waits, req, acted, crashes>>

\* A write acts, and answers well or not; what needs consent acts with it only.
ConsentGivenOnce(w) == Wait(w) \notin {None, "pending"}                    \* mutant
Consent(w) == Wait(w) = "approved"
Act(w) ==
  /\ Here(w, {"write"}) \/ (Here(w, {"gated"}) /\ Consent(w))
  /\ acted' = [acted EXCEPT ![cur[w]] = @ \cup {node[w]}]
  /\ Done(w, "default") \/ Failed(w)
  /\ UNCHANGED <<run, rows, waits, req, crashes>>

\* The latest wait of the node decides how it goes on ...
ReadWait(w) ==
  /\ \/ Here(w, {"gated"}) /\ Wait(w) = None /\ GoTo(w, "ask", loc[w])
     \/ Here(w, {"gated"}) /\ Wait(w) = "pending" /\ GoTo(w, "park", loc[w])
     \/ Here(w, {"gated"}) /\ Wait(w) \notin {None, "pending"} /\ ~Consent(w) /\ Failed(w)
     \/ Here(w, {"approval", "input"}) /\ Wait(w) \in {None, "pending"} /\ GoTo(w, "ask", loc[w])
     \/ Here(w, {"approval"}) /\ Wait(w) = "approved" /\ Done(w, "approved")
     \/ Here(w, {"approval"}) /\ Wait(w) \notin {None, "pending", "approved"} /\ Done(w, "rejected")
     \/ Here(w, {"input"}) /\ Wait(w) \in {"resolved", "canceled"} /\ Done(w, "default")
     \/ Here(w, {"input"}) /\ Wait(w) = "expired" /\ Failed(w)
     \/ Here(w, {"delay"}) /\ Wait(w) \in {None, "pending", "canceled"} /\ GoTo(w, "ask", loc[w])
     \/ Here(w, {"delay"}) /\ Wait(w) = "expired" /\ Done(w, "default")
  /\ UNCHANGED <<run, rows, waits, req, acted, crashes>>

\* ... and create_wait() adds another one.
CreateWait(w) ==
  /\ pc[w] = "ask"
  /\ waits' = [waits EXCEPT ![cur[w]][node[w]].last = "pending",
                 ![cur[w]][node[w]].older = IF Wait(w) = "pending" THEN @ + 1 ELSE @]
  /\ GoTo(w, "park", loc[w])
  /\ UNCHANGED <<run, rows, req, acted, crashes>>

\* finish_node(): the worker's row is the last one.
ClosedNever(r) == rows[r]                                                  \* mutant
Closed(r) == Front(rows[r])

Completed(w) == [loc[w] EXCEPT !.completed = @ \cup {node[w]}]
Followed(w, port) == [Completed(w) EXCEPT !.queue = @ \o Targets[node[w]][port]]

FinishNode(w) ==
  /\ pc[w] = "done"
  /\ rows' = [rows EXCEPT ![cur[w]] = Closed(cur[w])]
  /\ \/ Kind[node[w]] = "end" /\ \E status \in {"succeeded", "failed"} : ToFinish(w, status)
     \/ /\ Kind[node[w]] # "end" /\ out[w] # "default" /\ Targets[node[w]][out[w]] = <<>>
        /\ ToFinish(w, "failed")
     \/ /\ Kind[node[w]] # "end" /\ (out[w] = "default" \/ Targets[node[w]][out[w]] # <<>>)
        /\ GoTo(w, "checkpoint", Followed(w, out[w]))
  /\ UNCHANGED <<run, waits, req, acted, crashes>>

MayRetry(w) == OnError[node[w]] = "retry" /\ loc[w].attempts[node[w]] <= MaxRetries
FailNode(w) ==
  /\ pc[w] = "failed"
  /\ rows' = [rows EXCEPT ![cur[w]] = Closed(cur[w])]
  /\ \/ MayRetry(w) /\ GoTo(w, "requeue", [loc[w] EXCEPT !.queue = <<node[w]>> \o @])
     \/ OnError[node[w]] = "continue" /\ GoTo(w, "checkpoint", Followed(w, "default"))
     \/ OnError[node[w]] = "error_branch" /\ GoTo(w, "checkpoint", Followed(w, "error"))
     \/ OnError[node[w]] \in {"stop", "retry"} /\ ~MayRetry(w) /\ ToFinish(w, "failed")
  /\ UNCHANGED <<run, waits, req, acted, crashes>>

\* checkpoint_run(): refused unless the worker still has the run; that fails it.
Holds(w) == run[cur[w]].status = "running" /\ run[cur[w]].owner = w
SaveAnd(w, place, s) ==
  IF Holds(w) THEN run' = [run EXCEPT ![cur[w]].st = s] /\ GoTo(w, place, s)
  ELSE UNCHANGED run /\ ToFinish(w, "failed")

Checkpoint(w) ==
  /\ pc[w] = "checkpoint" /\ SaveAnd(w, "loop", loc[w])
  /\ UNCHANGED <<rows, waits, req, acted, crashes>>
Park(w) ==
  /\ pc[w] = "park" /\ SaveAnd(w, "parked", [loc[w] EXCEPT !.queue = <<node[w]>> \o @])
  /\ UNCHANGED <<rows, waits, req, acted, crashes>>
FinishWaiting(w) ==
  /\ pc[w] = "parked"
  /\ rows' = [rows EXCEPT ![cur[w]] = Closed(cur[w])]
  /\ GoTo(w, "suspend", loc[w])
  /\ UNCHANGED <<run, waits, req, acted, crashes>>

\* update_run_state(), finish_run(): whatever the row says by then.
GiveBack(w) ==
  /\ pc[w] \in {"suspend", "requeue"}
  /\ run' = [run EXCEPT ![cur[w]] =
       [status |-> IF pc[w] = "suspend" THEN "waiting" ELSE "queued", st |-> loc[w],
        asleep |-> pc[w] = "requeue", owner |-> None, lease |-> "none"]]
  /\ Leave(w)
  /\ UNCHANGED <<rows, waits, req, acted, crashes>>
FinishRun(w) ==
  /\ pc[w] = "finish"
  /\ run' = [run EXCEPT ![cur[w]].status = out[w], ![cur[w]].owner = None, ![cur[w]].lease = "none"]
  /\ Leave(w)
  /\ UNCHANGED <<rows, waits, req, acted, crashes>>

-----------------------------------------------------------------------------
(* The environment. *)

\* wake_at has come.
Wake(r) ==
  /\ run[r].asleep
  /\ run' = [run EXCEPT ![r].asleep = FALSE]
  /\ UNCHANGED <<rows, waits, worker, req, acted, crashes>>

LeaseLapses(r) ==
  /\ Live(r) /\ run[r].owner = "dead"
  /\ run' = [run EXCEPT ![r].lease = "lapsed"]
  /\ UNCHANGED <<rows, waits, worker, req, acted, crashes>>

\* The process dies and restarts with new owners.
Crash ==
  /\ crashes < MaxCrashes /\ crashes' = crashes + 1
  /\ run' = [r \in Runs |-> IF run[r].owner = None THEN run[r] ELSE [run[r] EXCEPT !.owner = "dead"]]
  /\ pc' = [w \in Workers |-> "idle"]
  /\ cur' = [w \in Workers |-> NoRun]
  /\ node' = [w \in Workers |-> None]
  /\ loc' = [w \in Workers |-> NoState]
  /\ out' = [w \in Workers |-> None]
  /\ req' = [a \in Admins |-> NoRequest]
  /\ UNCHANGED <<rows, waits, acted>>

WorkerStep(w) ==
  \/ Look(w) \/ BeginNode(w) \/ Execute(w) \/ Act(w) \/ ReadWait(w) \/ CreateWait(w)
  \/ FinishNode(w) \/ FailNode(w) \/ Checkpoint(w) \/ Park(w) \/ FinishWaiting(w)
  \/ GiveBack(w) \/ FinishRun(w)

Next ==
  \/ (\E r \in Runs : Enqueue(r) \/ Cancel(r) \/ Wake(r) \/ LeaseLapses(r))
  \/ (\E r \in Runs, n \in Nodes : ResolveWait(r, n) \/ ExpireWaits(r, n))
  \/ (\E a \in Admins : (\E r \in Runs : AttentionRead(a, r))
        \/ (\E action \in {"retry", "skip", "terminate"} : AttentionWrite(a, action)))
  \/ (\E w \in Workers : WorkerStep(w) \/ (\E r \in Runs : Claim(w, r)))
  \/ Crash

\* Threads run, time passes, and a run that is eligible again and again is
\* claimed: waits last seconds at least, idle workers look twice a second.
Fairness ==
  /\ \A w \in Workers : WF_vars(WorkerStep(w))
  /\ \A r \in Runs : /\ WF_vars(Wake(r)) /\ WF_vars(LeaseLapses(r))
                     /\ SF_vars(\E w \in Workers : Claim(w, r))

Spec == Init /\ [][Next]_vars
FairSpec == Spec /\ Fairness

-----------------------------------------------------------------------------
(* What the component promises. *)

\* The rows and the workers' variables have their types.  A crash or a lost
\* check-in leaves one unfinished row behind, nothing else does.
TypeOK ==
  LET States == [queue : Seq(Nodes), completed : SUBSET Nodes, attempts : [Nodes -> 0 .. MaxRetries + 1]] IN
  /\ run \in [Runs -> [status : Statuses, st : States, asleep : BOOLEAN,
                       owner : Workers \cup {None, "dead"}, lease : {"none", "live", "lapsed"}]]
  /\ \A r \in Runs :
       /\ rows[r] \in Seq([node : Nodes, st : {"running", "needs_attention", "skipped"}])
       /\ Len(rows[r]) <= MaxCrashes + 1
  /\ waits \in [Runs -> [Nodes ->
       [last : {None, "pending", "approved", "rejected", "resolved", "expired", "canceled"},
        older : Nat, att : BOOLEAN]]]
  /\ pc \in [Workers -> {"idle", "loop", "begin", "execute", "ask", "done", "failed", "checkpoint",
                         "park", "parked", "suspend", "requeue", "finish"}]
  /\ cur \in [Workers -> Runs \cup {NoRun}] /\ node \in [Workers -> Nodes \cup {None}]
  /\ loc \in [Workers -> States] /\ out \in [Workers -> Ports \cup FINISHED \cup {None}]
  /\ \A a \in Admins : req[a].run \in Runs \cup {NoRun}
  /\ acted \in [Runs -> SUBSET Nodes] /\ crashes \in 0 .. MaxCrashes

\* No run is in the hands of two workers, whoever answers, expires, cancels or
\* recovers it while one of them is at a node (claim_run(), resolve_wait()).
OneExecutor ==
  \A w, x \in Workers : pc[w] # "idle" /\ pc[x] # "idle" /\ cur[w] = cur[x] => w = x

\* A write whose outcome a crash left unknown is not begun again before an
\* administrator has seen it (claim_run(), _mark_uncertain_write()).
NoBlindRepeat ==
  \A r \in Runs : \A i, j \in Unfinished(r) :
    rows[r][i].node = rows[r][j].node /\ Kind[rows[r][i].node] \in WriteKinds => i = j

\* A run that needs attention can get it: there is a row for resolve_attention()
\* to find, of a write that still is in the run's queue, and a wait that shows it.
AttentionIsAnswerable ==
  \A r \in Runs : run[r].status = "needs_attention" =>
    /\ ToSeeTo(r) # {}
    /\ LET n == rows[r][CHOOSE i \in ToSeeTo(r) : \A j \in ToSeeTo(r) : j <= i].node IN
       Kind[n] \in WriteKinds /\ Contains(run[r].st.queue, n) /\ waits[r][n].att

\* A write that needs consent acts only when an administrator gave it.
GatedOnlyIfApproved ==
  \A r \in Runs, n \in Nodes :
    n \in acted[r] /\ Kind[n] = "gated" => waits[r][n].last = "approved"

\* A run that is due for work finishes, or stops to wait for somebody or for a
\* time, through crashes and retries (claim_run(), _execute_run()).
RunSettles ==
  \A r \in Runs : run[r].status \in {"queued", "running"} ~>
                    run[r].status \in FINISHED \cup {"waiting", "needs_attention"}

\* "queued -> running -> succeeded | failed | timed_out | canceled": from a
\* cancelled run nothing leads back to work.
CanceledRunStaysStopped ==
  [][\A r \in Runs : run[r].status = "canceled" =>
       run'[r].status \notin {"queued", "running", "waiting"}]_vars
=============================================================================
