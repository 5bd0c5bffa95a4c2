---------------------------- MODULE RunLifecycle ----------------------------
(***************************************************************************)
(* What a run promises to whoever watches its row: how status and          *)
(* cancel_requested may change, whatever workers, users and crashes do.    *)
(* AgentRuns implements it; AgentCoordination relies on it for the         *)
(* children of a multi-agent run.                                          *)
(***************************************************************************)
CONSTANT Runs
VARIABLES status, cancel

TERMINAL == {"succeeded", "failed", "cancelled"}
WAITING == {"waiting_approval", "waiting_input", "paused"}

Init == status = [r \in Runs |-> "absent"] /\ cancel = [r \in Runs |-> FALSE]

\* submit()
Submitted(r) == status[r] = "absent" /\ status'[r] = "queued" /\ cancel'[r] = FALSE

\* claim()
Claimed(r) == status[r] = "queued" /\ status'[r] = "running" /\ cancel'[r] = cancel[r]

\* checkpoint(): a run asked to stop is checked in as nothing but cancelled.
CheckedIn(r) ==
  /\ status[r] = "running" /\ cancel'[r] = cancel[r]
  /\ status'[r] \in IF cancel[r] THEN {"cancelled"} ELSE {"queued"} \cup WAITING \cup TERMINAL

\* resolve(), resume(), reconcile()
Answered(r) == status[r] \in WAITING /\ ~cancel[r] /\ status'[r] = "queued" /\ cancel'[r] = cancel[r]

\* expire_approvals(), expire_one(), pause_script_input()
GivenUp(r) ==
  /\ status[r] \in {"waiting_approval", "waiting_input"}
  /\ status'[r] = "paused" /\ cancel'[r] = cancel[r]

\* cancel(): at once, unless a worker holds the run.
Stopped(r) ==
  /\ status[r] \notin TERMINAL \cup {"absent"} /\ cancel'[r] = TRUE
  /\ status'[r] = IF status[r] = "running" THEN "running" ELSE "cancelled"

Step(r) == Submitted(r) \/ Claimed(r) \/ CheckedIn(r) \/ Answered(r) \/ GivenUp(r) \/ Stopped(r)

Next ==
  /\ DOMAIN status' = Runs /\ DOMAIN cancel' = Runs
  /\ \A r \in Runs : Step(r) \/ (status'[r] = status[r] /\ cancel'[r] = cancel[r])

Spec == Init /\ [][Next]_<<status, cancel>>
=============================================================================
