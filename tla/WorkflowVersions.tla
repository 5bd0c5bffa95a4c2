--------------------------- MODULE WorkflowVersions ---------------------------
(***************************************************************************)
(* One workflow of an organization (workflows/store.py): its draft, its    *)
(* published versions, its triggers, and the runs they queue.  Publishing, *)
(* rolling back and queueing read the workflow before the transaction that *)
(* writes; every worker of the pool looks for due schedules by itself      *)
(* (workflows/runtime.py).  What becomes of a run is WorkflowRuns.         *)
(***************************************************************************)
EXTENDS Naturals, Sequences, SequencesExt

CONSTANTS
  Members,      \* who edits, publishes and runs the workflow
  Timers,       \* workers that look for due schedules
  Definitions,  \* what a draft can say: the set of its triggers
  FirstDraft,
  MaxRevision,  \* bound: saved drafts
  MaxPublished,  \* bound: published versions
  MaxManual,    \* bound: runs queued by hand or through the interface
  Latest,       \* bound: the clock stops here
  MaxRefusals   \* bound: writes the database refuses

VARIABLES
  flow,         \* organization_workflows
  versions,     \* organization_workflow_versions: the definitions, in order
  trigger,      \* workflow_trigger_bindings
  next,         \* next_fire_at of the schedule; 0 is NULL
  runs,         \* workflow_runs, as far as queueing is concerned
  clock,
  timer,        \* each worker inside _enqueue_due_schedules()
  member,       \* each member's call
  refusals

versionVars == <<flow, versions, trigger, next, runs, clock, timer, member, refusals>>
stored == <<flow, versions, trigger, next, runs>>

Triggers == {"schedule", "api"}
Unbound == [enabled |-> FALSE, version |-> 0]
IdleTimer == [at |-> "idle", due |-> 0, version |-> 0, after |-> 0]
IdleMember == [at |-> "idle", text |-> {}, rev |-> 0]

Init ==
  /\ flow = [status |-> "draft", draft |-> FirstDraft, rev |-> 1, published |-> 0]
  /\ versions = <<>> /\ trigger = [k \in Triggers |-> Unbound] /\ next = 0
  /\ runs = <<>> /\ clock = 1
  /\ timer = [w \in Timers |-> IdleTimer] /\ member = [a \in Members |-> IdleMember]
  /\ refusals = 0

-----------------------------------------------------------------------------
(* Members.                                                                  *)

Idle(a) == member' = [member EXCEPT ![a] = IdleMember]
Reads(a, at, text) == member' = [member EXCEPT ![a] = [at |-> at, text |-> text, rev |-> flow.rev]]

\* The editor opens with the draft and its revision.
OpenDraft(a) ==
  /\ member[a].at = "idle" /\ flow.rev < MaxRevision
  /\ Reads(a, "editing", flow.draft) /\ UNCHANGED <<stored, clock, timer, refusals>>

CurrentAnyway(a) == flow.status # "archived"                                 \* mutant
Current(a) == flow.rev = member[a].rev /\ flow.status # "archived"

\* save_draft(): only over the revision that was read.
Save(a, text, then) ==
  /\ IF Current(a)
     THEN /\ flow' = [flow EXCEPT !.draft = text, !.rev = @ + 1]
          /\ member' = [member EXCEPT ![a] = [IdleMember EXCEPT !.at = then]]
     ELSE Idle(a) /\ UNCHANGED flow
  /\ UNCHANGED <<versions, trigger, next, runs, clock, timer, refusals>>

SaveDraft(a) == member[a].at = "editing" /\ \E text \in Definitions : Save(a, text, "idle")

\* rollback() reads the version and the draft's revision, saves the version as the draft ...
ReadVersion(a) ==
  /\ member[a].at = "idle" /\ flow.rev < MaxRevision /\ Len(versions) < MaxPublished
  /\ \E v \in 1 .. Len(versions) : Reads(a, "rollback", versions[v])
  /\ UNCHANGED <<stored, clock, timer, refusals>>

SaveVersion(a) == member[a].at = "rollback" /\ Save(a, member[a].text, "saved")

\* ... and publishes what then is the draft.
ReadForPublish(a) ==
  /\ member[a].at \in {"idle", "saved"} /\ Len(versions) < MaxPublished
  /\ Reads(a, "publish", flow.draft)
  /\ UNCHANGED <<stored, clock, timer, refusals>>

PublishedOnly(text, version) ==                                             \* mutant
  [k \in Triggers |->
     IF k \in text
     THEN [enabled |-> IF trigger[k].version = 0 THEN k = "schedule" ELSE trigger[k].enabled, version |-> version]
     ELSE trigger[k]]

Published(text, version) ==
  [k \in Triggers |->
     IF k \in text
     THEN [enabled |-> IF trigger[k].version = 0 THEN k = "schedule" ELSE trigger[k].enabled, version |-> version]
     ELSE [trigger[k] EXCEPT !.enabled = FALSE]]

\* The transaction of publish(); the status is not looked at.
Publish(a) ==
  /\ member[a].at = "publish" /\ Idle(a) /\ Len(versions) < MaxPublished
  /\ LET version == Len(versions) + 1 IN
     /\ versions' = Append(versions, member[a].text)
     /\ flow' = [flow EXCEPT !.status = "published", !.published = version]
     /\ trigger' = Published(member[a].text, version)
  /\ UNCHANGED <<next, runs, clock, timer, refusals>>

Disabled == [k \in Triggers |-> [trigger[k] EXCEPT !.enabled = FALSE]]

Unpublish ==
  /\ flow.published # 0 /\ flow' = [flow EXCEPT !.status = "disabled"] /\ trigger' = Disabled
  /\ UNCHANGED <<versions, next, runs, clock, timer, member, refusals>>

Archive ==
  /\ \A i \in DOMAIN runs : ~runs[i].open
  /\ flow' = [flow EXCEPT !.status = "archived"] /\ trigger' = Disabled
  /\ UNCHANGED <<versions, next, runs, clock, timer, member, refusals>>

\* issue_access_token() enables the trigger again, one a later version left out too.
IssueToken ==
  /\ flow.status = "published" /\ trigger["api"].version # 0
  /\ trigger' = [trigger EXCEPT !["api"].enabled = TRUE]
  /\ UNCHANGED <<flow, versions, next, runs, clock, timer, member, refusals>>

-----------------------------------------------------------------------------
(* Runs.                                                                     *)

Manual == SelectSeq(runs, LAMBDA r : r.due = 0)
Queued(version, due) == Append(runs, [version |-> version, due |-> due, open |-> TRUE])

\* A run by hand: enqueue_run() reads the published version before its transaction.
ReadForRun(a) ==
  /\ member[a].at = "idle" /\ flow.status = "published" /\ Len(Manual) < MaxManual
  /\ member' = [member EXCEPT ![a] = [at |-> "run", text |-> {}, rev |-> flow.published]]
  /\ UNCHANGED <<stored, clock, timer, refusals>>

QueueRun(a) ==
  /\ member[a].at = "run" /\ Idle(a) /\ Len(Manual) < MaxManual
  /\ runs' = Queued(member[a].rev, 0)
  /\ UNCHANGED <<flow, versions, trigger, next, clock, timer, refusals>>

\* The run ends.
RunEnds(i) ==
  /\ i \in DOMAIN runs /\ runs[i].open /\ runs' = [runs EXCEPT ![i].open = FALSE]
  /\ UNCHANGED <<flow, versions, trigger, next, clock, timer, member, refusals>>

Tick ==
  /\ clock < Latest /\ clock' = clock + 1
  /\ UNCHANGED <<stored, timer, member, refusals>>

-----------------------------------------------------------------------------
(* _enqueue_due_schedules(), by every worker.                                *)

Goes(w, at) == timer' = [timer EXCEPT ![w].at = at]

\* due_schedules(); a schedule without a time is only given one.
LookForDue(w) ==
  /\ timer[w].at = "idle" /\ trigger["schedule"].enabled /\ next <= clock
  /\ timer' = [timer EXCEPT ![w] = [at |-> IF next = 0 THEN "move" ELSE "read", due |-> next,
                                    version |-> trigger["schedule"].version, after |-> clock + 1]]
  /\ UNCHANGED <<stored, clock, member, refusals>>

\* enqueue_run() refuses a workflow that is not published.
ReadFlow(w) ==
  /\ timer[w].at = "read" /\ Goes(w, IF flow.status = "published" THEN "queue" ELSE "delay")
  /\ UNCHANGED <<stored, clock, member, refusals>>

Unkeyed(w) == FALSE                                                         \* mutant
QueuedBefore(w) == \E i \in DOMAIN runs : runs[i].due = timer[w].due

\* The key of the run is the trigger and its due time.
QueueDue(w) ==
  /\ timer[w].at = "queue" /\ Goes(w, "move")
  /\ runs' = IF QueuedBefore(w) THEN runs ELSE Queued(timer[w].version, timer[w].due)
  /\ UNCHANGED <<flow, versions, trigger, next, clock, member, refusals>>

Refused(w) ==
  /\ timer[w].at \in {"read", "queue", "move"} /\ refusals < MaxRefusals
  /\ refusals' = refusals + 1 /\ Goes(w, "delay")
  /\ UNCHANGED <<stored, clock, member>>

DueAgain(w) == timer[w].due                                                 \* mutant
MovedTo(w) == timer[w].after

\* set_schedule_next_fire(), whatever the row says by now.
MoveOn(w) ==
  /\ timer[w].at = "move" /\ timer' = [timer EXCEPT ![w] = IdleTimer] /\ next' = MovedTo(w)
  /\ UNCHANGED <<flow, versions, trigger, runs, clock, member, refusals>>

\* Any error puts the schedule off by a day, which is later than the clock goes.
PutOff(w) ==
  /\ timer[w].at = "delay" /\ timer' = [timer EXCEPT ![w] = IdleTimer] /\ next' = Latest + 1
  /\ UNCHANGED <<flow, versions, trigger, runs, clock, member, refusals>>

\* The process dies: its workers and the calls it served are gone.
Crash ==
  /\ refusals < MaxRefusals /\ refusals' = refusals + 1
  /\ timer' = [w \in Timers |-> IdleTimer]
  /\ member' = [a \in Members |-> IF member[a].at = "editing" THEN member[a] ELSE IdleMember]
  /\ UNCHANGED <<stored, clock>>

TimerStep(w) == LookForDue(w) \/ ReadFlow(w) \/ QueueDue(w) \/ MoveOn(w) \/ PutOff(w)

Next ==
  \/ \E a \in Members : \/ OpenDraft(a) \/ SaveDraft(a) \/ ReadVersion(a) \/ SaveVersion(a)
                        \/ ReadForPublish(a) \/ Publish(a) \/ ReadForRun(a) \/ QueueRun(a)
  \/ Unpublish \/ Archive \/ IssueToken \/ Tick \/ Crash
  \/ \E i \in 1 .. Latest + MaxManual : RunEnds(i)
  \/ \E w \in Timers : TimerStep(w) \/ Refused(w)

Spec == Init /\ [][Next]_versionVars

\* A worker's loop comes round (_worker_loop()).
Fairness == \A w \in Timers : WF_versionVars(TimerStep(w))

FairSpec == Spec /\ Fairness

-----------------------------------------------------------------------------
(* Properties.                                                               *)

VersionsTypeOK ==
  /\ flow \in [status : {"draft", "published", "disabled", "archived"}, draft : Definitions,
               rev : 1 .. MaxRevision, published : 0 .. Len(versions)]
  /\ versions \in BoundedSeq(Definitions, MaxPublished)
  /\ trigger \in [Triggers -> [enabled : BOOLEAN, version : 0 .. Len(versions)]]
  /\ next \in 0 .. Latest + 1 /\ clock \in 1 .. Latest
  /\ \A i \in DOMAIN runs : runs[i] \in [version : 1 .. Len(versions), due : 0 .. Latest, open : BOOLEAN]

\* A due time starts one run, whichever workers saw it, however late they act,
\* however often the process dies (the key of enqueue_run()).
FiresOnce == \A i, j \in DOMAIN runs : runs[i].due = runs[j].due => i = j \/ runs[i].due = 0

\* A schedule that fires is one of the published definition, in its newest
\* version, of a workflow that is published (publish(), unpublish(), archive()).
EnabledIsPublished ==
  trigger["schedule"].enabled =>
    /\ flow.status = "published" /\ trigger["schedule"].version = flow.published
    /\ "schedule" \in versions[flow.published]

\* A saved draft replaces the draft its author had read, and no other (save_draft(), rollback()).
SavesWhatWasSeen ==
  [][flow'.rev # flow.rev =>
       \E a \in Members : member[a].at \in {"editing", "rollback"} /\ member[a].rev = flow.rev
                           /\ member'[a] # member[a]]_versionVars

\* A due schedule is moved on, or is disabled (_enqueue_due_schedules()).
DueMovesOn == (trigger["schedule"].enabled /\ next <= clock) ~> (next > clock \/ ~trigger["schedule"].enabled)
=============================================================================
