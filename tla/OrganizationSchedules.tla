----------------------- MODULE OrganizationSchedules -----------------------
(***************************************************************************)
(* Timed tasks of organizations: the rows that administrators save         *)
(* (services/organization_controls.py), the jobs the scheduler keeps for   *)
(* them and rebuilds when a revision changes, and a run of a task          *)
(* (services/scheduler.py).  The rebuilding is not locked: the five-second *)
(* timer, a run that found a changed dependency and the panel may do it at *)
(* the same time.                                                          *)
(*                                                                         *)
(* Revisions only grow, so that the comparison of two snapshots is kept as *)
(* the bit "noted": has anything been saved since the last snapshot?       *)
(***************************************************************************)
EXTENDS Naturals

CONSTANTS
  Schedules,
  Registrars,   \* "timer", "panel", and each schedule for its own run
  MaxSaves,     \* bound: what administrators save, and changes of a dependency
  MaxCrashes    \* bound: restarts

VARIABLES
  sched,        \* organization_schedules: its state, the version of the script or
                \* plugin that was confirmed, and its cron expression
  current,      \* the version that is installed; 0 when it is gone
  noted,        \* no revision has changed since the last snapshot
  jobs,         \* the scheduler's jobs: the cron expression they were added with
  ids,          \* _organization_schedule_job_ids
  reg,          \* each registration: its place, the rows it read, those left to do
  run,          \* each schedule's run: its place and the version it found confirmed
  open,         \* rows of organization_schedule_runs that say "running"
  overlooked,   \* schedules saved while a registration was under way
  saves, restarts

schedVars == <<sched, current, noted, jobs, ids, reg, run, open, overlooked, saves, restarts>>
rows == <<sched, current, noted, overlooked, saves>>

None == 0
Absent == [at |-> "absent", pinned |-> 0, cron |-> 0]
Resting == [at |-> "idle", read |-> [s \in Schedules |-> Absent], left |-> {}]

Init ==
  /\ sched = [s \in Schedules |-> Absent] /\ current = [s \in Schedules |-> 1]
  /\ noted = TRUE /\ jobs = [s \in Schedules |-> None] /\ ids = {}
  /\ reg = [r \in Registrars |-> Resting]
  /\ run = [s \in Schedules |-> [at |-> "idle", pinned |-> 0]]
  /\ open = [s \in Schedules |-> 0] /\ overlooked = {} /\ saves = 0 /\ restarts = 0

Quiet == \A r \in Registrars : reg[r].at = "idle"

\* _bump(): every change of a row moves the revision.
Unbumped == noted                                                           \* mutant
Bumped == FALSE

Write(s, row) ==
  /\ sched' = [sched EXCEPT ![s] = row] /\ noted' = Bumped
  /\ overlooked' = IF Quiet THEN overlooked \ {s} ELSE overlooked \cup {s}

-----------------------------------------------------------------------------
(* Administrators.                                                           *)

\* upsert_schedule(), and set_schedule_enabled() for an existing row, confirm the
\* version that is installed; one that is gone cannot be confirmed.
Save(s) ==
  /\ saves < MaxSaves /\ saves' = saves + 1
  /\ \/ \E at \in {"on", "off"}, cron \in {1, 2} :
          current[s] # 0 /\ Write(s, [at |-> at, pinned |-> current[s], cron |-> cron])
     \/ sched[s].at # "absent" /\ current[s] # 0
        /\ Write(s, [sched[s] EXCEPT !.at = "on", !.pinned = current[s]])
     \/ sched[s].at # "absent" /\ Write(s, [sched[s] EXCEPT !.at = "off"])
     \/ sched[s].at # "absent" /\ Write(s, Absent)
  /\ UNCHANGED <<current, jobs, ids, reg, run, open, restarts>>

\* The script's file or the plugin's settings change, or it is withdrawn.
ChangeDependency(s) ==
  /\ saves < MaxSaves /\ saves' = saves + 1
  /\ \E v \in 0 .. 2 : v # current[s] /\ current' = [current EXCEPT ![s] = v]
  /\ UNCHANGED <<sched, noted, jobs, ids, reg, run, open, overlooked, restarts>>

\* pause_schedule() looks at nothing but whether the row is there.
PauseSchedule(s) ==
  IF sched[s].at = "absent" THEN UNCHANGED <<sched, noted, overlooked>>
  ELSE Write(s, [sched[s] EXCEPT !.at = "off"])

-----------------------------------------------------------------------------
(* Registration.                                                             *)

Goes(r, at) == reg' = [reg EXCEPT ![r].at = at]

\* _refresh_organization_schedules(), by the timer; by the panel the snapshot is
\* forgotten first, so that the comparison always fails.
Refresh(r) ==
  /\ r \notin Schedules \cup {"main"} /\ reg[r].at = "idle" /\ (r = "panel" \/ ~noted)
  /\ r = "panel" => saves < MaxSaves
  /\ saves' = IF r = "panel" THEN saves + 1 ELSE saves
  /\ noted' = (noted /\ r # "panel") /\ Goes(r, "remove")
  /\ UNCHANGED <<sched, current, jobs, ids, run, open, overlooked, restarts>>

RemoveJobs(r) ==
  /\ reg[r].at = "remove" /\ Goes(r, "clear")
  /\ jobs' = [s \in Schedules |-> IF s \in ids THEN None ELSE jobs[s]]
  /\ UNCHANGED <<rows, ids, run, open, restarts>>

ClearIds(r) ==
  /\ reg[r].at = "clear" /\ Goes(r, "list") /\ ids' = {}
  /\ UNCHANGED <<rows, jobs, run, open, restarts>>

\* enabled_schedules()
ListEnabled(r) ==
  /\ reg[r].at = "list"
  /\ reg' = [reg EXCEPT ![r] = [at |-> "add", read |-> sched, left |-> {s \in Schedules : sched[s].at = "on"}]]
  /\ UNCHANGED <<rows, jobs, ids, run, open, restarts>>

\* A row whose dependency is not the confirmed one is paused, with a failed run
\* on record; the others get a job, in place of one with the same id.
AddJob(r, s) ==
  /\ reg[r].at = "add" /\ s \in reg[r].left
  /\ reg' = [reg EXCEPT ![r].left = @ \ {s}]
  /\ IF current[s] # reg[r].read[s].pinned
     THEN PauseSchedule(s) /\ UNCHANGED <<jobs, ids>>
     ELSE /\ jobs' = [jobs EXCEPT ![s] = reg[r].read[s].cron] /\ ids' = ids \cup {s}
          /\ UNCHANGED <<sched, noted, overlooked>>
  /\ UNCHANGED <<current, run, open, saves, restarts>>

\* The snapshot of the revisions, taken last.
NoteRevisions(r) ==
  /\ reg[r].at = "add" /\ reg[r].left = {}
  /\ reg' = [reg EXCEPT ![r] = Resting] /\ noted' = TRUE
  /\ UNCHANGED <<sched, current, jobs, ids, run, open, overlooked, saves, restarts>>

-----------------------------------------------------------------------------
(* A run of a schedule: run_organization_schedule().                         *)

RunGoes(s, at) == run' = [run EXCEPT ![s].at = at]
ClosedTwice(s) == open' = [open EXCEPT ![s] = @ - 2]                        \* mutant
Closed(s) == open' = [open EXCEPT ![s] = @ - 1]

\* The cron fires while the scheduler runs; the row is read anew.
Trigger(s) ==
  /\ jobs[s] # None /\ run[s].at = "idle" /\ reg["main"].at = "idle"
  /\ sched[s].at = "on"
  /\ run' = [run EXCEPT ![s] = [at |-> "check", pinned |-> sched[s].pinned]]
  /\ open' = [open EXCEPT ![s] = @ + 1]
  /\ UNCHANGED <<rows, jobs, ids, reg, restarts>>

\* The dependency is compared; a change is put on record.  A dependency that is
\* gone raises: the run fails and the schedule stays as it is.
FailedUnrecorded(s) == RunGoes(s, "idle") /\ UNCHANGED open                 \* mutant
Failed(s) == RunGoes(s, "idle") /\ Closed(s)

CheckDependency(s) ==
  /\ run[s].at = "check"
  /\ \/ current[s] = run[s].pinned /\ RunGoes(s, "act") /\ UNCHANGED open
     \/ current[s] = 0 /\ Failed(s)
     \/ current[s] \notin {0, run[s].pinned} /\ RunGoes(s, "pause") /\ Closed(s)
  /\ UNCHANGED <<rows, jobs, ids, reg, restarts>>

\* The action, or nothing for want of a recipient; the row is finished, or left to
\* the agent run that will finish it.
Act(s) ==
  /\ run[s].at = "act" /\ RunGoes(s, "idle") /\ Closed(s)
  /\ UNCHANGED <<rows, jobs, ids, reg, restarts>>

\* The pause, and a refresh on the run's own thread.
PauseAfterRun(s) ==
  /\ run[s].at = "pause" /\ RunGoes(s, "idle") /\ reg[s].at = "idle"
  /\ PauseSchedule(s)
  /\ reg' = IF sched[s].at # "absent" \/ ~noted THEN [reg EXCEPT ![s].at = "remove"] ELSE reg
  /\ UNCHANGED <<current, jobs, ids, open, saves, restarts>>

\* The process ends and starts again: start() registers before the jobs run.
Restart ==
  /\ restarts < MaxCrashes /\ restarts' = restarts + 1
  /\ jobs' = [s \in Schedules |-> None] /\ ids' = {} /\ noted' = FALSE
  /\ run' = [s \in Schedules |-> [at |-> "idle", pinned |-> 0]]
  /\ reg' = [r \in Registrars |-> IF r = "main" THEN [Resting EXCEPT !.at = "list"] ELSE Resting]
  /\ UNCHANGED <<sched, current, open, overlooked, saves>>

-----------------------------------------------------------------------------
Register(r) == Refresh(r) \/ RemoveJobs(r) \/ ClearIds(r) \/ ListEnabled(r)
               \/ (\E s \in Schedules : AddJob(r, s)) \/ NoteRevisions(r)

Next ==
  \/ \E r \in Registrars : Register(r)
  \/ \E s \in Schedules : \/ Save(s) \/ ChangeDependency(s) \/ Trigger(s)
                          \/ CheckDependency(s) \/ Act(s) \/ PauseAfterRun(s)
  \/ Restart

Proceed(r) == (r = "panel" => reg[r].at # "idle") /\ Register(r)

\* Threads run; neither administrators nor the clock have to do anything.
Fairness == \A r \in Registrars : WF_schedVars(Proceed(r))

Spec == Init /\ [][Next]_schedVars
FairSpec == Spec /\ Fairness

-----------------------------------------------------------------------------
(* What the component promises.                                              *)

ScheduleRows == [at : {"absent", "on", "off"}, pinned : 0 .. 2, cron : 0 .. 2]

ScheduleTypeOK ==
  /\ sched \in [Schedules -> ScheduleRows] /\ current \in [Schedules -> 0 .. 2] /\ noted \in BOOLEAN
  /\ jobs \in [Schedules -> 0 .. 2] /\ ids \subseteq Schedules /\ overlooked \subseteq Schedules
  /\ reg \in [Registrars -> [at : {"idle", "remove", "clear", "list", "add"},
                             read : [Schedules -> ScheduleRows], left : SUBSET Schedules]]
  /\ run \in [Schedules -> [at : {"idle", "check", "act", "pause"}, pinned : 0 .. 2]]
  /\ open \in [Schedules -> Nat] /\ saves \in 0 .. MaxSaves /\ restarts \in 0 .. MaxCrashes

Wanted(s) == IF sched[s].at = "on" THEN sched[s].cron ELSE None

\* What an administrator saves while no registration is under way becomes what
\* the scheduler does, unless the row is changed once more.
SavedTakesEffect ==
  \A s \in Schedules : \A cron \in 0 .. 2 :
    (Wanted(s) = cron /\ s \notin overlooked /\ (jobs[s] # None => s \in ids))
      ~> (jobs[s] = cron \/ Wanted(s) # cron)

\* The rows that say "running" are the current run's and at most one for each
\* restart that cut a run short.
OpenRowsAreAccountedFor ==
  \A s \in Schedules : open[s] <= restarts + (IF run[s].at \in {"check", "act"} THEN 1 ELSE 0)

\* When no registration is under way the scheduler knows all its jobs.
JobsAreKnown == Quiet => \A s \in Schedules : jobs[s] # None => s \in ids

\* A schedule is paused only while its dependency is not the one confirmed.
PausedForCause ==
  [][\A s \in Schedules : sched[s].at = "on" /\ sched'[s] = [sched[s] EXCEPT !.at = "off"] /\ saves' = saves
       => current[s] # sched[s].pinned]_schedVars

\* The jobs come to fit the rows that are saved last.
JobsFollowRows ==
  \A s \in Schedules : <>[][FALSE]_sched => <>[](Quiet => jobs[s] = Wanted(s))
=============================================================================
