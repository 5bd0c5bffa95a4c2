------------------------------ MODULE Scripts ------------------------------
(***************************************************************************)
(* Fixed scripts of one concurrency key: submission, the worker thread and *)
(* the child process of a run, cancellation, and the runs that stop for an *)
(* input and are continued by a successor (ScriptService in                *)
(* services/script.py, the registry in services/script_input.py).          *)
(***************************************************************************)
EXTENDS Naturals, FiniteSets

CONSTANTS
  Runs,        \* bound: run ids, taken in their order
  Replies,     \* bound: replies to challenges handled at the same time
  External,    \* the script is a registered external one, trusted by its hash
  MaxEdits,    \* bound: changes of the script's file
  MaxFailures    \* bound: crashes, shutdowns, and writes the database refuses

ASSUME ScriptAssumption == Runs \subseteq Nat \ {0} /\ MaxEdits \in Nat /\ MaxFailures \in Nat

VARIABLES
  status,      \* script_runs: the status on record
  at,          \* what the thread of a run does
  outcome,     \* the status the thread is about to record, and one that it left at "running"
  holder,      \* _active: the run that holds the key, or 0
  cancelled,   \* _cancelled
  link,        \* script_input_links: of each run, the state of its challenge
  heirs,       \* of each run, the runs started with an answer to its challenge, but for
               \* those the reply itself found to be over
  reply,       \* each reply: its place, the challenge and the successor
  file,        \* version of the script's file
  seen, ran,   \* of each living run: the version at submission, and the one that ran
  shutting,    \* _shutting_down
  failures

scriptVars == <<status, at, outcome, holder, cancelled, link, heirs, reply, file, seen, ran, shutting, failures>>
challenge == <<link, heirs, reply>>
version == <<file, seen, ran>>

\* "finished" stands for success, failed and timed_out, and for a child that says
\* that it skipped its work.
Final == {"finished", "skipped", "cancelled"}
Living == {"queued", "verified", "process", "ended", "released"}
NoReply == [at |-> "idle", to |-> 0, heir |-> 0]

ScriptInit ==
  /\ status = [r \in Runs |-> "none"] /\ at = [r \in Runs |-> "none"]
  /\ outcome = [r \in Runs |-> "none"]
  /\ holder = 0 /\ cancelled = {}
  /\ link = [r \in Runs |-> "none"] /\ heirs = [r \in Runs |-> {}]
  /\ reply = [p \in Replies |-> NoReply]
  /\ file = 1 /\ seen = [r \in Runs |-> 0] /\ ran = [r \in Runs |-> 0]
  /\ shutting = FALSE /\ failures = 0

-----------------------------------------------------------------------------
(* Submission.                                                               *)

NextRun(r) == status[r] = "none" /\ at[r] = "none" /\ \A q \in Runs : q < r => at[q] # "none"

\* submit(): under the lock the key is looked up; a run that holds it makes this
\* one "skipped".  The key is taken before the row is written: if the write
\* fails, the error is raised and the key stays taken.
Submitted(r) ==
  /\ ~shutting /\ NextRun(r)
  /\ seen' = [seen EXCEPT ![r] = IF holder = 0 THEN file ELSE 0]
  /\ \/ holder # 0 /\ status' = [status EXCEPT ![r] = "skipped"] /\ at' = [at EXCEPT ![r] = "over"]
        /\ UNCHANGED <<holder, failures>>
     \/ holder = 0 /\ holder' = r
        /\ \/ status' = [status EXCEPT ![r] = "running"] /\ at' = [at EXCEPT ![r] = "queued"] /\ UNCHANGED failures
           \/ failures < MaxFailures /\ failures' = failures + 1
              /\ UNCHANGED status /\ at' = [at EXCEPT ![r] = "lost"]

Submit(r) ==
  /\ Submitted(r)
  /\ UNCHANGED <<outcome, cancelled, challenge, file, ran, shutting>>

-----------------------------------------------------------------------------
(* The worker: _execute().                                                   *)

\* Cancelled before the start, or the file is looked at again: for an external
\* script another hash than the trusted one ends the run.
Forgotten == "over"                                                         \* mutant
Ended == "ended"

Verify(r) ==
  /\ at[r] = "queued"
  /\ LET stop == r \in cancelled \/ shutting IN
     /\ cancelled' = IF shutting THEN cancelled \cup {r} ELSE cancelled
     /\ \/ stop /\ outcome' = [outcome EXCEPT ![r] = "cancelled"] /\ at' = [at EXCEPT ![r] = Ended]
        \/ ~stop /\ External /\ file # seen[r]
           /\ outcome' = [outcome EXCEPT ![r] = "finished"] /\ at' = [at EXCEPT ![r] = "ended"]
        \/ ~stop /\ ~(External /\ file # seen[r])
           /\ at' = [at EXCEPT ![r] = "verified"] /\ UNCHANGED outcome
  /\ UNCHANGED <<status, holder, challenge, version, shutting, failures>>

\* The note of the start is refused by the database: nothing catches that error,
\* and the run is recorded as what it was.
StartRefused(r) ==
  /\ at[r] = "verified" /\ failures < MaxFailures /\ failures' = failures + 1
  /\ outcome' = [outcome EXCEPT ![r] = "running"] /\ at' = [at EXCEPT ![r] = "ended"]
  /\ UNCHANGED <<status, holder, cancelled, challenge, version, shutting>>

\* Popen(), unless it fails; a cancellation that came meanwhile stops the child.
Spawn(r) ==
  /\ at[r] = "verified"
  /\ \/ ran' = [ran EXCEPT ![r] = file] /\ at' = [at EXCEPT ![r] = "process"] /\ UNCHANGED outcome
     \/ outcome' = [outcome EXCEPT ![r] = "finished"] /\ at' = [at EXCEPT ![r] = "ended"] /\ UNCHANGED ran
  /\ UNCHANGED <<status, holder, cancelled, challenge, file, seen, shutting, failures>>

\* The child is over, or out of time.  What it says counts unless the run was
\* cancelled: a status, and a challenge or none, whatever the status; a challenge is
\* on record before the run's status is.
ChildEnds(r) ==
  /\ at[r] = "process" /\ at' = [at EXCEPT ![r] = "ended"]
  /\ \E o \in {"finished", "cancelled", "awaiting_input"} :
       /\ o = "cancelled" => r \in cancelled
       /\ o = "awaiting_input" => r \notin cancelled
       /\ outcome' = [outcome EXCEPT ![r] = o]
       /\ UNCHANGED link \/ (r \notin cancelled /\ link' = [link EXCEPT ![r] = "pending"])
  /\ UNCHANGED <<status, holder, cancelled, heirs, reply, version, shutting, failures>>

\* finally: the key is released first ...
Release(r) ==
  /\ at[r] = "ended" /\ at' = [at EXCEPT ![r] = "released"]
  /\ holder' = IF holder = r THEN 0 ELSE holder
  /\ UNCHANGED <<status, outcome, cancelled, challenge, version, shutting, failures>>

\* ... then the row is written, listeners are told and the user is notified.
Record(r) ==
  /\ at[r] = "released" /\ at' = [at EXCEPT ![r] = "over"]
  /\ \/ status' = [status EXCEPT ![r] = outcome[r]] /\ UNCHANGED failures
     \/ failures < MaxFailures /\ failures' = failures + 1 /\ UNCHANGED status
  /\ outcome' = [outcome EXCEPT ![r] = IF @ = "running" THEN @ ELSE "none"]
  /\ cancelled' = cancelled \ {r}
  /\ seen' = [seen EXCEPT ![r] = 0] /\ ran' = [ran EXCEPT ![r] = 0]
  /\ UNCHANGED <<holder, challenge, file, shutting>>

-----------------------------------------------------------------------------
(* Cancellation and the end of the service.                                  *)

\* cancel_run(): for a run that is not final on record; a child is stopped.  What
\* it leaves in _cancelled for a run that is over is read by nobody.
FreedAtOnce == 0                                                            \* mutant
Kept == holder

CancelRun(r) ==
  /\ status[r] = "running" /\ at[r] \in Living /\ r \notin cancelled
  /\ cancelled' = cancelled \cup {r} /\ holder' = Kept
  /\ UNCHANGED <<status, at, outcome, challenge, version, shutting, failures>>

Shutdown ==
  /\ ~shutting /\ failures < MaxFailures /\ shutting' = TRUE /\ failures' = failures + 1
  /\ cancelled' = IF holder = 0 THEN cancelled ELSE cancelled \cup {holder}
  /\ UNCHANGED <<status, at, outcome, holder, challenge, version>>

\* The process dies, or is started anew after a shutdown: rows and links stay.
Restart ==
  /\ \/ shutting /\ (\A r \in Runs : at[r] \notin Living) /\ UNCHANGED failures
     \/ failures < MaxFailures /\ failures' = failures + 1
  /\ at' = [r \in Runs |-> IF at[r] = "none" THEN "none" ELSE "over"]
  /\ outcome' = [r \in Runs |-> "none"]
  /\ holder' = 0 /\ cancelled' = {} /\ shutting' = FALSE
  /\ reply' = [p \in Replies |-> NoReply]
  /\ seen' = [r \in Runs |-> 0] /\ ran' = [r \in Runs |-> 0]
  /\ UNCHANGED <<status, link, heirs, file>>

EditFile ==
  /\ file <= MaxEdits /\ file' = file + 1
  /\ UNCHANGED <<status, at, outcome, holder, cancelled, challenge, seen, ran, shutting, failures>>

-----------------------------------------------------------------------------
(* Replies to a challenge: resume_pending_input().                           *)

SetReply(p, x) == reply' = [reply EXCEPT ![p] = x]

\* One transaction marks the challenge "started"; a second reply is refused.
AnswerableTwice(r) == link[r] \in {"pending", "started"}                    \* mutant
Answerable(r) == link[r] = "pending"

Begin(p, r) ==
  /\ reply[p].at = "idle" /\ Answerable(r)
  /\ link' = [link EXCEPT ![r] = "started"] /\ SetReply(p, [NoReply EXCEPT !.at = "submit", !.to = r])
  /\ UNCHANGED <<status, at, outcome, holder, cancelled, heirs, version, shutting, failures>>

\* submit_for_tenant(): the worker has the run before the call is back.  A refusal and
\* a skipped run give the challenge back; an error of the database does not.
Continue(p) ==
  /\ reply[p].at = "submit"
  /\ \/ /\ \E r \in Runs :
             /\ Submitted(r)
             /\ IF status'[r] = "running"
                THEN SetReply(p, [reply[p] EXCEPT !.at = "look", !.heir = r])
                     /\ heirs' = [heirs EXCEPT ![reply[p].to] = @ \cup {r}]
                ELSE SetReply(p, IF status'[r] = "skipped" THEN [reply[p] EXCEPT !.at = "giveback"] ELSE NoReply)
                     /\ UNCHANGED heirs
     \/ /\ SetReply(p, [reply[p] EXCEPT !.at = "giveback"])
        /\ UNCHANGED <<status, at, holder, seen, heirs, failures>>
  /\ UNCHANGED <<outcome, cancelled, link, file, ran, shutting>>

\* What comes back is the status the run's object has by then: a run that is over
\* already passes for one that was not submitted.
RunningStill(r) == at[r] \in {"queued", "verified", "process"} \/ outcome[r] = "running"

ReadStatus(p) ==
  LET h == reply[p].heir IN
  /\ reply[p].at = "look"
  /\ IF RunningStill(h)
     THEN SetReply(p, [reply[p] EXCEPT !.at = "settle"]) /\ UNCHANGED heirs
     ELSE /\ SetReply(p, [reply[p] EXCEPT !.at = "giveback"])
          /\ heirs' = [heirs EXCEPT ![reply[p].to] = @ \ {h}]
  /\ UNCHANGED <<status, at, outcome, holder, cancelled, link, version, shutting, failures>>

\* The last transaction of a reply is refused: the challenge stays started.
ReplyRaises(p) ==
  /\ reply[p].at \in {"giveback", "settle"} /\ SetReply(p, NoReply)
  /\ failures < MaxFailures /\ failures' = failures + 1
  /\ UNCHANGED <<status, at, outcome, holder, cancelled, link, heirs, version, shutting>>

GiveBack(p) ==
  /\ reply[p].at = "giveback" /\ SetReply(p, NoReply)
  /\ link' = [link EXCEPT ![reply[p].to] = "pending"]
  /\ UNCHANGED <<status, at, outcome, holder, cancelled, heirs, version, shutting, failures>>

\* The link is resumed, and the row of the run that waited is closed.
ClosedAsResumed == "resumed"                                                \* mutant
ClosedAs == "finished"

Settle(p) ==
  /\ reply[p].at = "settle" /\ SetReply(p, NoReply)
  /\ link' = [link EXCEPT ![reply[p].to] = "resumed"]
  /\ status' = [status EXCEPT ![reply[p].to] = IF @ = "awaiting_input" THEN ClosedAs ELSE @]
  /\ UNCHANGED <<at, outcome, holder, cancelled, heirs, version, shutting, failures>>

\* cancel_pending_input() and clear_pending_input()
CancelInput(r) ==
  /\ link[r] = "pending" /\ link' = [link EXCEPT ![r] = "cancelled"]
  /\ UNCHANGED <<status, at, outcome, holder, cancelled, heirs, reply, version, shutting, failures>>

-----------------------------------------------------------------------------
RunStep(r) == Verify(r) \/ Spawn(r) \/ ChildEnds(r) \/ Release(r) \/ Record(r)

ScriptNext ==
  \/ \E r \in Runs : Submit(r) \/ RunStep(r) \/ StartRefused(r) \/ CancelRun(r) \/ CancelInput(r)
  \/ \E p \in Replies : (\E r \in Runs : Begin(p, r)) \/ Continue(p)
                       \/ ReadStatus(p) \/ ReplyRaises(p) \/ GiveBack(p) \/ Settle(p)
  \/ Shutdown \/ Restart \/ EditFile

\* Threads run, and every child ends or is ended by its time limit.
ScriptFairness == \A r \in Runs : WF_scriptVars(RunStep(r))

ScriptSpec == ScriptInit /\ [][ScriptNext]_scriptVars
ScriptFairSpec == ScriptSpec /\ ScriptFairness

-----------------------------------------------------------------------------
(* What the component promises.                                              *)

ScriptTypeOK ==
  /\ status \in [Runs -> Final \cup {"none", "running", "awaiting_input"}]
  /\ at \in [Runs -> Living \cup {"none", "over", "lost"}]
  /\ outcome \in [Runs -> Final \cup {"none", "running", "awaiting_input"}]
  /\ holder \in Runs \cup {0} /\ cancelled \subseteq Runs
  /\ link \in [Runs -> {"none", "pending", "started", "resumed", "cancelled"}]
  /\ heirs \in [Runs -> SUBSET Runs]
  /\ reply \in [Replies -> [at : {"idle", "submit", "look", "settle", "giveback"}, to : Runs \cup {0}, heir : Runs \cup {0}]]
  /\ file \in 1 .. MaxEdits + 1 /\ seen \in [Runs -> 0 .. MaxEdits + 1] /\ ran \in [Runs -> 0 .. MaxEdits + 1]
  /\ shutting \in BOOLEAN /\ failures \in 0 .. MaxFailures

\* The runs of one key do not overlap while the service lives.
KeyIsExclusive ==
  \A r, q \in Runs : at[r] \in {"queued", "verified", "process"} /\ at[q] \in {"queued", "verified", "process"} => r = q

\* A challenge is answered again only after the reply saw the run it had started end:
\* never beside a run that works, nor after one whose end nobody saw, whatever is
\* refused, given back or lost in a crash (submit(), resume_pending_input()).
AnsweredInTurn ==
  \A r \in Runs : Cardinality(heirs[r]) <= 1 /\ (link[r] = "pending" => heirs[r] = {})

RunsAreExclusive == KeyIsExclusive /\ AnsweredInTurn

\* Every run that is submitted comes to an end on record, unless the process or
\* the database fails it.
RunIsRecorded == \A r \in Runs : at[r] \in Living ~> (status[r] \in Final \cup {"awaiting_input"} \/ failures > 0)

\* "Revalidate immediately before spawning so queued runs cannot use a file that
\* changed after approval/submission."
RunsWhatWasSubmitted == \A r \in Runs : ran[r] \in {0, seen[r]}

\* A run whose challenge was answered does not go on waiting for an answer.
AnsweredIsClosed == \A r \in Runs : link[r] = "resumed" /\ at[r] = "over" => status[r] # "awaiting_input"

\* An input is used once: what gives a challenge back has started nothing (it has, if
\* the run is over before resume_pending_input() reads its status).
InputIsUsedOnce == \A p \in Replies : reply[p].at = "giveback" => reply[p].heir = 0

\* The key of a script is held by a run that will release it.
KeyIsReleased == holder # 0 => at[holder] \in Living
=============================================================================
