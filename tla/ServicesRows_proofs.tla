--------------------------- MODULE ServicesRows_proofs ---------------------------
(***************************************************************************)
(* Theorems about what the services' rows say, each for all values of the  *)
(* constants: that what is listed as under way is worked on, that what is  *)
(* made of other rows says what they say, and that every part's variables  *)
(* keep to their types.  The parts are those of MCServices, and so is the  *)
(* way from an invariant of one part to an invariant of the whole.         *)
(***************************************************************************)
EXTENDS MCServices_proofs, Services_proofs

-----------------------------------------------------------------------------
(* OrganizationSchedules: the rows of runs that say "running".               *)

LEMMA ScheduleSteps ==
  ASSUME [ServicesNext]_parts
  PROVE  [Schedule!Next]_schedVars
  BY DEF ServicesNext, Rest, parts, schedVars

RunPlaces == [at : {"idle", "check", "act", "pause"}, pinned : 0 .. 2]

\* A run that is under way has its row, and it is the row of no other.
RowsOpen ==
  /\ Schedule!ScheduleTypeOK
  /\ \A s \in Schedules : run[s].at \in {"check", "act"} => open[s] > 0
  /\ Schedule!OpenRowsAreAccountedFor

LEMMA RowsOpenInit == ServicesInit => RowsOpen
  BY ScheduleAssumption DEF ServicesInit, Schedule!Init, RowsOpen, Schedule!OpenRowsAreAccountedFor, Schedule!ScheduleTypeOK,
     Schedule!ScheduleRows, Schedule!Absent, Schedule!Resting, Schedule!None

\* A step that leaves the runs and their rows where they are.
LEMMA RowsStay ==
  ASSUME RowsOpen, UNCHANGED <<run, open, restarts>>, Schedule!ScheduleTypeOK'
  PROVE  RowsOpen'
  BY DEF RowsOpen, Schedule!OpenRowsAreAccountedFor

\* A step of one run, which opens a row, closes one or leaves the rows as they are.
LEMMA RunMoves ==
  ASSUME RowsOpen, NEW s \in Schedules, NEW r \in RunPlaces, NEW n \in Nat,
         run' = [run EXCEPT ![s] = r], open' = [open EXCEPT ![s] = n],
         UNCHANGED <<current, jobs, ids, saves, restarts>>,
         sched' \in [Schedules -> Schedule!ScheduleRows], noted' \in BOOLEAN, overlooked' \subseteq Schedules,
         reg' \in [Registrars -> [at : {"idle", "remove", "clear", "list", "add"},
                                  read : [Schedules -> Schedule!ScheduleRows], left : SUBSET Schedules]],
         r.at \in {"check", "act"} => n > 0,
         n <= restarts + (IF r.at \in {"check", "act"} THEN 1 ELSE 0)
  PROVE  RowsOpen'
  <1>1. \A q \in Schedules : run'[q] = (IF q = s THEN r ELSE run[q]) /\ open'[q] = IF q = s THEN n ELSE open[q]
    BY DEF RowsOpen, Schedule!ScheduleTypeOK
  <1>2. Schedule!ScheduleTypeOK'
    BY DEF RowsOpen, Schedule!ScheduleTypeOK, RunPlaces
  <1> QED
    BY <1>1, <1>2 DEF RowsOpen, Schedule!OpenRowsAreAccountedFor

\* What a write of a row leaves behind.
LEMMA Written ==
  ASSUME RowsOpen, NEW s \in Schedules, NEW row0 \in Schedule!ScheduleRows, Schedule!Write(s, row0)
  PROVE  sched' \in [Schedules -> Schedule!ScheduleRows] /\ noted' \in BOOLEAN /\ overlooked' \subseteq Schedules
  BY DEF Schedule!Write, Schedule!Bumped, RowsOpen, Schedule!ScheduleTypeOK

LEMMA Paused ==
  ASSUME RowsOpen, NEW s \in Schedules, Schedule!PauseSchedule(s)
  PROVE  sched' \in [Schedules -> Schedule!ScheduleRows] /\ noted' \in BOOLEAN /\ overlooked' \subseteq Schedules
  <1>0. sched[s] \in Schedule!ScheduleRows
    BY DEF RowsOpen, Schedule!ScheduleTypeOK
  <1>1. [sched[s] EXCEPT !.at = "off"] \in Schedule!ScheduleRows
    BY <1>0 DEF Schedule!ScheduleRows
  <1>2. CASE sched[s].at = "absent"
    BY <1>2 DEF Schedule!PauseSchedule, RowsOpen, Schedule!ScheduleTypeOK
  <1> QED
    BY <1>1, <1>2, Written DEF Schedule!PauseSchedule

LEMMA RowsOpenNext ==
  ASSUME RowsOpen, [Schedule!Next]_schedVars
  PROVE  RowsOpen'
  <1> DEFINE Registering == [at : {"idle", "remove", "clear", "list", "add"},
                             read : [Schedules -> Schedule!ScheduleRows], left : SUBSET Schedules]
  <1>1. ASSUME UNCHANGED <<run, open, restarts, current>>, saves' \in 0 .. MaxSaves,
               sched' \in [Schedules -> Schedule!ScheduleRows], noted' \in BOOLEAN, overlooked' \subseteq Schedules,
               jobs' \in [Schedules -> 0 .. 2], ids' \subseteq Schedules, reg' \in [Registrars -> Registering]
        PROVE  RowsOpen'
    BY <1>1, RowsStay DEF RowsOpen, Schedule!ScheduleTypeOK
  <1>2. ASSUME NEW r \in Registrars, Schedule!Register(r) PROVE RowsOpen'
    <2>1. reg[r] \in Registering /\ reg \in [Registrars -> Registering]
      BY DEF RowsOpen, Schedule!ScheduleTypeOK
    <2>2. CASE Schedule!Refresh(r)
      BY <1>1, <2>1, <2>2, ScheduleAssumption DEF Schedule!Refresh, Schedule!Goes, RowsOpen, Schedule!ScheduleTypeOK
    <2>3. CASE Schedule!RemoveJobs(r)
      <3>1. jobs' \in [Schedules -> 0 .. 2]
        BY <2>3 DEF Schedule!RemoveJobs, RowsOpen, Schedule!ScheduleTypeOK, Schedule!None
      <3>2. reg' \in [Registrars -> Registering]
        BY <2>1, <2>3 DEF Schedule!RemoveJobs, Schedule!Goes
      <3>3. UNCHANGED <<sched, current, noted, overlooked, saves, ids, run, open, restarts>>
        BY <2>3 DEF Schedule!RemoveJobs, Schedule!rows
      <3> QED
        BY <1>1, <3>1, <3>2, <3>3 DEF RowsOpen, Schedule!ScheduleTypeOK
    <2>4. CASE Schedule!ClearIds(r)
      BY <1>1, <2>1, <2>4 DEF Schedule!ClearIds, Schedule!Goes, RowsOpen, Schedule!ScheduleTypeOK, Schedule!rows
    <2>5. CASE Schedule!ListEnabled(r)
      BY <1>1, <2>1, <2>5 DEF Schedule!ListEnabled, RowsOpen, Schedule!ScheduleTypeOK, Schedule!rows
    <2>6. ASSUME NEW s \in Schedules, Schedule!AddJob(r, s) PROVE RowsOpen'
      <3>1. [reg[r] EXCEPT !.left = @ \ {s}] \in Registering
        BY <2>1
      <3>2. reg' \in [Registrars -> Registering]
        BY <2>1, <2>6, <3>1 DEF Schedule!AddJob
      <3>3. reg[r].read[s].cron \in 0 .. 2
        BY <2>1 DEF Schedule!ScheduleRows
      <3>4. sched' \in [Schedules -> Schedule!ScheduleRows] /\ noted' \in BOOLEAN /\ overlooked' \subseteq Schedules
        BY <2>6, Paused DEF Schedule!AddJob, RowsOpen, Schedule!ScheduleTypeOK
      <3>5. jobs' \in [Schedules -> 0 .. 2] /\ ids' \subseteq Schedules
        BY <2>6, <3>3 DEF Schedule!AddJob, RowsOpen, Schedule!ScheduleTypeOK
      <3> QED
        BY <1>1, <2>6, <3>2, <3>4, <3>5 DEF Schedule!AddJob, RowsOpen, Schedule!ScheduleTypeOK
    <2>7. CASE Schedule!NoteRevisions(r)
      BY <1>1, <2>1, <2>7 DEF Schedule!NoteRevisions, RowsOpen, Schedule!ScheduleTypeOK, Schedule!Resting, Schedule!Absent, Schedule!ScheduleRows
    <2> QED
      BY <1>2, <2>2, <2>3, <2>4, <2>5, <2>6, <2>7 DEF Schedule!Register
  <1>3. ASSUME NEW s \in Schedules, NEW to \in {"idle", "check", "act", "pause"}, Schedule!RunGoes(s, to)
        PROVE  \E r \in RunPlaces : r.at = to /\ run' = [run EXCEPT ![s] = r]
    <2>1. [run[s] EXCEPT !.at = to] \in RunPlaces /\ [run[s] EXCEPT !.at = to].at = to
      BY DEF RowsOpen, Schedule!ScheduleTypeOK, RunPlaces
    <2>2. run' = [run EXCEPT ![s] = [run[s] EXCEPT !.at = to]]
      BY <1>3 DEF Schedule!RunGoes, RowsOpen, Schedule!ScheduleTypeOK
    <2> QED
      BY <2>1, <2>2
  <1>4. ASSUME NEW s \in Schedules
        PROVE  /\ run[s] \in RunPlaces /\ open[s] \in Nat /\ restarts \in Nat
               /\ open = [open EXCEPT ![s] = open[s]]
               /\ open[s] <= restarts + (IF run[s].at \in {"check", "act"} THEN 1 ELSE 0)
               /\ run[s].at \in {"check", "act"} => open[s] > 0 /\ open[s] - 1 \in Nat /\ open[s] - 1 <= restarts
               /\ sched \in [Schedules -> Schedule!ScheduleRows] /\ noted \in BOOLEAN /\ overlooked \subseteq Schedules
               /\ reg \in [Registrars -> Registering] /\ sched[s] \in Schedule!ScheduleRows
    BY DEF RowsOpen, Schedule!OpenRowsAreAccountedFor, Schedule!ScheduleTypeOK, RunPlaces
  <1>5. ASSUME NEW s \in Schedules, Schedule!Save(s) PROVE RowsOpen'
    <2>1. PICK r \in Schedule!ScheduleRows : Schedule!Write(s, r)
      <3>1. /\ current[s] \in 0 .. 2
            /\ Schedule!Absent \in Schedule!ScheduleRows
            /\ [sched[s] EXCEPT !.at = "off"] \in Schedule!ScheduleRows
            /\ [sched[s] EXCEPT !.at = "on", !.pinned = current[s]] \in Schedule!ScheduleRows
            /\ \A on \in {"on", "off"}, cron \in {1, 2} :
                 [at |-> on, pinned |-> current[s], cron |-> cron] \in Schedule!ScheduleRows
        <4>1. current[s] \in 0 .. 2 /\ sched[s] \in Schedule!ScheduleRows
          BY DEF RowsOpen, Schedule!ScheduleTypeOK
        <4> DEFINE b == [sched[s] EXCEPT !.at = "on"]
                   c == [b EXCEPT !.pinned = current[s]]
        <4>2. b \in Schedule!ScheduleRows
          BY <4>1 DEF Schedule!ScheduleRows
        <4>3. c \in Schedule!ScheduleRows
          <5> HIDE DEF b
          <5> QED
            BY <4>1, <4>2 DEF Schedule!ScheduleRows
        <4>4. c = [sched[s] EXCEPT !.at = "on", !.pinned = current[s]]
          OBVIOUS
        <4>5. Schedule!Absent \in Schedule!ScheduleRows /\ [sched[s] EXCEPT !.at = "off"] \in Schedule!ScheduleRows
          BY <4>1 DEF Schedule!ScheduleRows, Schedule!Absent
        <4>6. \A on \in {"on", "off"}, cron \in {1, 2} :
                 [at |-> on, pinned |-> current[s], cron |-> cron] \in Schedule!ScheduleRows
          BY <4>1 DEF Schedule!ScheduleRows
        <4> HIDE DEF c
        <4> QED
          BY <4>1, <4>3, <4>4, <4>5, <4>6
      <3> QED
        BY <1>5, <3>1 DEF Schedule!Save
    <2>2. UNCHANGED <<current, jobs, ids, reg, run, open, restarts>> /\ saves' \in 0 .. MaxSaves
      BY <1>5, ScheduleAssumption DEF Schedule!Save, RowsOpen, Schedule!ScheduleTypeOK
    <2> QED
      BY <1>1, <2>1, <2>2, Written DEF RowsOpen, Schedule!ScheduleTypeOK
  <1>6. ASSUME NEW s \in Schedules, Schedule!ChangeDependency(s) PROVE RowsOpen'
    BY <1>6, RowsStay, ScheduleAssumption DEF Schedule!ChangeDependency, RowsOpen, Schedule!ScheduleTypeOK
  <1>7. ASSUME NEW s \in Schedules, Schedule!Trigger(s) PROVE RowsOpen'
    <2> DEFINE r == [at |-> "check", pinned |-> sched[s].pinned]
    <2>1. r \in RunPlaces /\ r.at = "check"
      BY <1>4 DEF RunPlaces, Schedule!ScheduleRows
    <2>2. /\ run' = [run EXCEPT ![s] = r] /\ open' = [open EXCEPT ![s] = open[s] + 1] /\ run[s].at = "idle"
          /\ UNCHANGED <<sched, current, noted, overlooked, saves, jobs, ids, reg, restarts>>
      BY <1>7 DEF Schedule!Trigger, Schedule!rows
    <2>3. open[s] + 1 \in Nat /\ open[s] + 1 > 0 /\ open[s] + 1 <= restarts + 1
      BY <1>4, <2>2
    <2> HIDE DEF r
    <2> QED
      BY <1>4, <2>1, <2>2, <2>3, RunMoves
  <1>8. ASSUME NEW s \in Schedules, NEW to \in {"idle", "pause"}, run[s].at \in {"check", "act"},
               Schedule!RunGoes(s, to), Schedule!Closed(s),
               UNCHANGED <<sched, current, noted, overlooked, saves, jobs, ids, reg, restarts>>
        PROVE  RowsOpen'
    <2>1. PICK r \in RunPlaces : r.at = to /\ run' = [run EXCEPT ![s] = r]
      BY <1>3, <1>8
    <2>2. r.at \notin {"check", "act"} /\ open' = [open EXCEPT ![s] = open[s] - 1]
      BY <1>8, <2>1 DEF Schedule!Closed
    <2>3. open[s] - 1 \in Nat /\ open[s] - 1 <= restarts + (IF r.at \in {"check", "act"} THEN 1 ELSE 0)
      BY <1>4, <1>8, <2>2
    <2> QED
      BY <1>4, <1>8, <2>1, <2>2, <2>3, RunMoves
  <1>9. ASSUME NEW s \in Schedules, Schedule!CheckDependency(s) PROVE RowsOpen'
    <2>1. run[s].at = "check" /\ UNCHANGED <<sched, current, noted, overlooked, saves, jobs, ids, reg, restarts>>
      BY <1>9 DEF Schedule!CheckDependency, Schedule!rows
    <2>2. CASE Schedule!RunGoes(s, "act") /\ UNCHANGED open
      <3>1. PICK r \in RunPlaces : r.at = "act" /\ run' = [run EXCEPT ![s] = r]
        BY <1>3, <2>2
      <3>2. open' = [open EXCEPT ![s] = open[s]] /\ open[s] > 0 /\ open[s] <= restarts + 1
        BY <1>4, <2>1, <2>2
      <3> QED
        BY <1>4, <2>1, <3>1, <3>2, RunMoves
    <2> QED
      BY <1>8, <1>9, <2>1, <2>2 DEF Schedule!CheckDependency, Schedule!Failed
  <1>10. ASSUME NEW s \in Schedules, Schedule!Act(s) PROVE RowsOpen'
    BY <1>8, <1>10 DEF Schedule!Act, Schedule!rows
  <1>11. ASSUME NEW s \in Schedules, Schedule!PauseAfterRun(s) PROVE RowsOpen'
    <2>1. PICK r \in RunPlaces : r.at = "idle" /\ run' = [run EXCEPT ![s] = r]
      BY <1>3, <1>11 DEF Schedule!PauseAfterRun
    <2>2. reg' \in [Registrars -> Registering]
      BY <1>4, <1>11 DEF Schedule!PauseAfterRun
    <2>3. open' = [open EXCEPT ![s] = open[s]] /\ open[s] <= restarts
      BY <1>4, <1>11 DEF Schedule!PauseAfterRun
    <2>4. UNCHANGED <<current, jobs, ids, saves, restarts>> /\ Schedule!PauseSchedule(s)
      BY <1>11 DEF Schedule!PauseAfterRun
    <2>5. open[s] \in Nat /\ open[s] <= restarts + (IF r.at \in {"check", "act"} THEN 1 ELSE 0)
      BY <1>4, <2>1, <2>3
    <2>6. sched' \in [Schedules -> Schedule!ScheduleRows] /\ noted' \in BOOLEAN /\ overlooked' \subseteq Schedules
      BY <2>4, Paused
    <2>7. r.at \notin {"check", "act"}
      BY <2>1
    <2> QED
      BY <2>1, <2>2, <2>3, <2>4, <2>5, <2>6, <2>7, RunMoves
  <1>12. CASE Schedule!Restart
    <2>1. Schedule!Absent \in Schedule!ScheduleRows
      BY DEF Schedule!Absent, Schedule!ScheduleRows
    <2>2. Schedule!Resting \in Registering /\ [Schedule!Resting EXCEPT !.at = "list"] \in Registering
      BY <2>1 DEF Schedule!Resting
    <2>3. reg' \in [Registrars -> Registering]
      BY <1>12, <2>2 DEF Schedule!Restart
    <2>4. restarts \in Nat /\ restarts' = restarts + 1 /\ restarts' \in 0 .. MaxCrashes /\ UNCHANGED <<sched, current, open, overlooked, saves>>
      BY <1>12, ScheduleAssumption DEF Schedule!Restart, RowsOpen, Schedule!ScheduleTypeOK
    <2>5. /\ jobs' \in [Schedules -> 0 .. 2] /\ ids' = {} /\ noted' = FALSE
          /\ run' = [s \in Schedules |-> [at |-> "idle", pinned |-> 0]]
      BY <1>12 DEF Schedule!Restart, Schedule!None
    <2> DEFINE Idle0 == [at |-> "idle", pinned |-> 0]
    <2>6. Idle0 \in [at : {"idle", "check", "act", "pause"}, pinned : 0 .. 2]
      OBVIOUS
    <2>7. run' = [s \in Schedules |-> Idle0]
      BY <2>5
    <2>8. run' \in [Schedules -> [at : {"idle", "check", "act", "pause"}, pinned : 0 .. 2]]
      <3> HIDE DEF Idle0
      <3> QED
        BY <2>6, <2>7
    <2>9. Schedule!ScheduleTypeOK'
      BY <2>3, <2>4, <2>5, <2>8 DEF RowsOpen, Schedule!ScheduleTypeOK
    <2>10. \A s \in Schedules : open[s] \in Nat /\ open[s] <= restarts + 1
      BY <1>4
    <2> QED
      BY <2>4, <2>5, <2>9, <2>10 DEF RowsOpen, Schedule!OpenRowsAreAccountedFor
  <1>13. CASE UNCHANGED schedVars
    BY <1>13, RowsStay DEF schedVars, RowsOpen, Schedule!ScheduleTypeOK
  <1> QED
    BY <1>2, <1>5, <1>6, <1>7, <1>9, <1>10, <1>11, <1>12, <1>13 DEF Schedule!Next


LEMMA CodexCardinality == \A S : Codex!Cardinality(S) = Cardinality(S)
  BY Zenon DEF Codex!Cardinality, Cardinality

-----------------------------------------------------------------------------
(* CodexTasks: slots, rows and handles.                                      *)

LEMMA CodexSteps ==
  ASSUME [ServicesNext]_parts
  PROVE  [Codex!Next]_codexVars
  BY DEF ServicesNext, Rest, parts, codexVars

Calling == [at : Codex!Holding \cup {"idle", "read", "lost"}, task : Tasks \cup {0}, end : Codex!Terminal]
\* The places at which a caller has a slot, has a row of its own under way, and has a task.
WithSlot == Codex!Holding \cup {"lost"}
WithRow == Codex!Holding \ {"start", "row"}
WithTask == WithRow \cup {"read", "lost"}
Holders == {c \in Callers : caller[c].at \in WithSlot}

\* Every slot is free or with one caller; a task that is handleOf is some caller's.
CodexSound ==
  /\ Codex!CodexTypeOK
  /\ \A c \in Callers : caller[c].at \in WithTask => caller[c].task \in Tasks
  /\ IsFiniteSet(Holders) /\ free + Cardinality(Holders) = MaxSlots
  /\ Codex!ActiveIsWorkedOn

LEMMA CodexSoundInit == ServicesInit => CodexSound
  <1> SUFFICES ASSUME Codex!Init PROVE CodexSound
    BY DEF ServicesInit
  <1>1. \A c \in Callers : caller[c] = Codex!Waiting
    BY DEF Codex!Init
  <1>2. Holders = {}
    BY <1>1 DEF Holders, WithSlot, Codex!Holding, Codex!Waiting
  <1>3. Codex!CodexTypeOK
    <2>1. Codex!Waiting \in Calling
      BY DEF Calling, Codex!Waiting, Codex!New, Codex!Terminal
    <2>2. caller \in [Callers -> Calling]
      BY <2>1 DEF Codex!Init
    <2>3. /\ free \in 0 .. MaxSlots /\ errors \in 0 .. MaxErrors /\ stopped \in 0 .. MaxStops /\ closed = FALSE
          /\ asked = {} /\ marked = {} /\ blocked = {} /\ interrupted = {}
      BY CodexAssumption DEF Codex!Init
    <2>4. task \in [Tasks -> Codex!Active \cup Codex!Terminal \cup {"none"}]
      BY DEF Codex!Init
    <2>5. handleOf \in [Tasks -> Callers \cup {Codex!Nobody}]
      BY DEF Codex!Init
    <2> QED
      BY <2>2, <2>3, <2>4, <2>5 DEF Codex!CodexTypeOK, Calling, Codex!New
  <1>4. Codex!ActiveIsWorkedOn
    BY DEF Codex!Init, Codex!ActiveIsWorkedOn, Codex!Active
  <1> QED
    BY <1>1, <1>2, <1>3, <1>4, FS_EmptySet, CodexAssumption
       DEF CodexSound, Codex!Init, WithTask, WithRow, Codex!Holding, Codex!Waiting

\* How a step of one caller changes what the slots add up to.
LEMMA SlotMoves ==
  ASSUME CodexSound, NEW c \in Callers, NEW k \in Calling, caller' = [caller EXCEPT ![c] = k],
         \/ (k.at \in WithSlot <=> caller[c].at \in WithSlot) /\ free' = free
         \/ k.at \in WithSlot /\ caller[c].at \notin WithSlot /\ free > 0 /\ free' = free - 1
         \/ k.at \notin WithSlot /\ caller[c].at \in WithSlot /\ free' = free + 1
  PROVE  /\ free' \in 0 .. MaxSlots
         /\ IsFiniteSet(Holders') /\ free' + Cardinality(Holders') = MaxSlots
  <1>1. free \in 0 .. MaxSlots /\ IsFiniteSet(Holders) /\ Cardinality(Holders) \in Nat /\ MaxSlots \in Nat
    BY FS_CardinalityType, CodexAssumption DEF CodexSound, Codex!CodexTypeOK
  <1>2. \A d \in Callers : caller'[d] = IF d = c THEN k ELSE caller[d]
    BY DEF CodexSound, Codex!CodexTypeOK
  <1>3. CASE (k.at \in WithSlot <=> caller[c].at \in WithSlot) /\ free' = free
    <2>1. Holders' = Holders
      BY <1>2, <1>3 DEF Holders
    <2> QED
      BY <1>1, <1>3, <2>1 DEF CodexSound
  <1>4. CASE k.at \in WithSlot /\ caller[c].at \notin WithSlot /\ free > 0 /\ free' = free - 1
    <2>1. Holders' = Holders \cup {c} /\ c \notin Holders
      BY <1>2, <1>4 DEF Holders
    <2>2. IsFiniteSet(Holders') /\ Cardinality(Holders') = Cardinality(Holders) + 1
      BY <1>1, <2>1, FS_AddElement
    <2> QED
      BY <1>1, <1>4, <2>2 DEF CodexSound
  <1>5. CASE k.at \notin WithSlot /\ caller[c].at \in WithSlot /\ free' = free + 1
    <2>1. Holders' = Holders \ {c} /\ c \in Holders
      BY <1>2, <1>5 DEF Holders
    <2>2. IsFiniteSet(Holders') /\ Cardinality(Holders') = Cardinality(Holders) - 1
      BY <1>1, <2>1, FS_RemoveElement
    <2>3. Cardinality(Holders') \in Nat
      BY <2>2, FS_CardinalityType
    <2> QED
      BY <1>1, <1>5, <2>2, <2>3 DEF CodexSound
  <1> QED
    BY <1>3, <1>4, <1>5

\* The rest of the plugin's state.
FlagsTyped ==
  /\ task \in [Tasks -> Codex!Active \cup Codex!Terminal \cup {"none"}]
  /\ handleOf \in [Tasks -> Callers \cup {Codex!Nobody}]
  /\ asked \subseteq Tasks /\ marked \subseteq Tasks /\ blocked \subseteq Tasks /\ interrupted \subseteq Callers
  /\ closed \in BOOLEAN /\ errors \in 0 .. MaxErrors /\ stopped \in 0 .. MaxStops

\* A step of one caller, which keeps its task going, or ends it on record.
LEMMA CallerMoves ==
  ASSUME CodexSound, NEW c \in Callers, NEW k \in Calling, caller' = [caller EXCEPT ![c] = k],
         \/ (k.at \in WithSlot <=> caller[c].at \in WithSlot) /\ free' = free
         \/ k.at \in WithSlot /\ caller[c].at \notin WithSlot /\ free > 0 /\ free' = free - 1
         \/ k.at \notin WithSlot /\ caller[c].at \in WithSlot /\ free' = free + 1,
         FlagsTyped', k.at \in WithTask => k.task \in Tasks,
         closed => closed', errors <= errors',
         \A t \in Tasks : task'[t] \in Codex!Active =>
           \/ closed' \/ errors' > 0
           \/ k.task = t /\ k.at \in WithRow
           \/ task[t] \in Codex!Active /\ ~(caller[c].task = t /\ caller[c].at \in WithRow)
  PROVE  CodexSound'
  <1>1. caller' \in [Callers -> Calling] /\ \A d \in Callers : caller'[d] = IF d = c THEN k ELSE caller[d]
    BY DEF CodexSound, Codex!CodexTypeOK, Calling, Codex!New
  <1>2. /\ free' \in 0 .. MaxSlots
        /\ IsFiniteSet(Holders') /\ free' + Cardinality(Holders') = MaxSlots
    BY SlotMoves
  <1>3. Codex!CodexTypeOK'
    BY <1>1, <1>2 DEF Codex!CodexTypeOK, FlagsTyped, Calling, Codex!New
  <1>4. \A d \in Callers : caller'[d].at \in WithTask => caller'[d].task \in Tasks
    BY <1>1 DEF CodexSound
  <1>5. Codex!ActiveIsWorkedOn'
    <2> SUFFICES ASSUME NEW t \in Tasks, task'[t] \in Codex!Active, ~closed', ~(errors' > 0)
                 PROVE  \E d \in Callers : caller'[d].task = t /\ caller'[d].at \in WithRow
      BY DEF Codex!ActiveIsWorkedOn, WithRow
    <2>1. CASE k.task = t /\ k.at \in WithRow
      BY <1>1, <2>1
    <2>2. CASE task[t] \in Codex!Active /\ ~(caller[c].task = t /\ caller[c].at \in WithRow)
      <3>1. ~closed /\ ~(errors > 0)
        BY DEF CodexSound, Codex!CodexTypeOK, FlagsTyped
      <3>2. PICK d \in Callers : caller[d].task = t /\ caller[d].at \in WithRow
        BY <2>2, <3>1 DEF CodexSound, Codex!ActiveIsWorkedOn, WithRow
      <3> QED
        BY <1>1, <2>2, <3>2
    <2> QED
      BY <2>1, <2>2
  <1> QED
    BY <1>2, <1>3, <1>4, <1>5 DEF CodexSound

\* A step beside the callers.
LEMMA BesideCallers ==
  ASSUME CodexSound, UNCHANGED <<task, free, caller, errors>>, FlagsTyped', closed => closed'
  PROVE  CodexSound'
  <1>1. Holders' = Holders
    BY DEF Holders
  <1>2. Codex!CodexTypeOK'
    BY DEF CodexSound, Codex!CodexTypeOK, FlagsTyped
  <1>3. Codex!ActiveIsWorkedOn'
    BY DEF CodexSound, Codex!ActiveIsWorkedOn
  <1> QED
    BY <1>1, <1>2, <1>3 DEF CodexSound

LEMMA CodexSoundNext ==
  ASSUME CodexSound, [Codex!Next]_codexVars
  PROVE  CodexSound'
  <1> DEFINE Same == UNCHANGED <<handleOf, asked, marked, blocked, interrupted, closed, errors, stopped>>
  <1>0. FlagsTyped /\ errors \in Nat /\ errors <= errors
    BY DEF CodexSound, Codex!CodexTypeOK, FlagsTyped
  <1>1. ASSUME NEW c \in Callers
        PROVE  /\ caller[c] \in Calling /\ caller[c].at \in WithTask => caller[c].task \in Tasks
               /\ free \in 0 .. MaxSlots /\ caller \in [Callers -> Calling]
    BY DEF CodexSound, Codex!CodexTypeOK, Calling, Codex!New
  <1>2. ASSUME NEW c \in Callers, NEW to \in Codex!Holding \cup {"idle", "read", "lost"}, Codex!Go(c, to)
        PROVE  \E k \in Calling : k.at = to /\ k.task = caller[c].task /\ k.end = caller[c].end /\ caller' = [caller EXCEPT ![c] = k]
    <2> DEFINE k == [caller[c] EXCEPT !.at = to]
    <2>1. k \in Calling /\ k.at = to /\ k.task = caller[c].task /\ k.end = caller[c].end
      BY <1>1 DEF Calling
    <2>2. caller' = [caller EXCEPT ![c] = k]
      BY <1>1, <1>2 DEF Codex!Go
    <2> HIDE DEF k
    <2> QED
      BY <2>1, <2>2
  <1>3. Codex!Waiting \in Calling /\ Codex!Waiting.at = "idle"
    BY DEF Calling, Codex!Waiting, Codex!New, Codex!Terminal
  <1>4. ASSUME NEW c \in Callers, NEW to \in Codex!Holding \cup {"lost"}, Codex!Go(c, to),
               caller[c].at \in WithSlot, caller[c].at \in WithRow <=> to \in WithRow,
               to \in WithTask => caller[c].at \in WithTask,
               UNCHANGED <<task, free, closed>>, FlagsTyped', errors <= errors'
        PROVE  CodexSound'
    <2>1. PICK k \in Calling : k.at = to /\ k.task = caller[c].task /\ caller' = [caller EXCEPT ![c] = k]
      BY <1>2, <1>4
    <2>2. k.at \in WithSlot /\ (k.at \in WithTask => k.task \in Tasks)
      BY <1>1, <1>4, <2>1 DEF WithSlot
    <2>3. \A t \in Tasks : task'[t] \in Codex!Active =>
           \/ k.task = t /\ k.at \in WithRow
           \/ task[t] \in Codex!Active /\ ~(caller[c].task = t /\ caller[c].at \in WithRow)
      BY <1>4, <2>1
    <2> QED
      BY <1>4, <2>1, <2>2, <2>3, CallerMoves
  <1>5. ASSUME NEW c \in Callers, NEW t \in Tasks, Codex!ReadForContinue(c, t) PROVE CodexSound'
    <2> DEFINE b == [caller[c] EXCEPT !.at = "read"]
               k == [b EXCEPT !.task = t]
    <2>1. b \in Calling /\ b.at = "read"
      BY <1>1 DEF Calling
    <2>2. k \in Calling /\ k.at = "read" /\ k.task = t
      <3> HIDE DEF b
      <3> QED
        BY <2>1 DEF Calling
    <2>3. caller' = [caller EXCEPT ![c] = k]
      BY <1>1, <1>5 DEF Codex!ReadForContinue
    <2>4. caller[c].at = "idle" /\ UNCHANGED <<task, free>> /\ Same
      BY <1>5 DEF Codex!ReadForContinue, Codex!flags
    <2>5. FlagsTyped'
      BY <1>0, <2>4 DEF FlagsTyped
    <2> HIDE DEF k, b
    <2> QED
      BY <1>0, <2>2, <2>3, <2>4, <2>5, CallerMoves DEF WithTask, WithSlot, WithRow, Codex!Holding
  <1>6. ASSUME NEW c \in Callers, Codex!Acquire(c) PROVE CodexSound'
    <2>1. caller[c].at \in {"idle", "read"} /\ UNCHANGED task /\ Same
      BY <1>6 DEF Codex!Acquire, Codex!flags
    <2>2. FlagsTyped'
      BY <1>0, <2>1 DEF FlagsTyped
    <2>3. CASE free > 0 /\ free' = free - 1 /\ Codex!Go(c, "start")
      <3>1. PICK k \in Calling : k.at = "start" /\ caller' = [caller EXCEPT ![c] = k]
        BY <1>2, <2>3 DEF Codex!Holding
      <3> QED
        BY <1>0, <2>1, <2>2, <2>3, <3>1, CallerMoves DEF WithTask, WithSlot, WithRow, Codex!Holding
    <2>4. CASE Codex!Leave(c) /\ UNCHANGED free
      BY <1>0, <1>3, <2>1, <2>2, <2>4, CallerMoves DEF Codex!Leave, WithTask, WithSlot, WithRow, Codex!Holding
    <2> QED
      BY <1>6, <2>3, <2>4 DEF Codex!Acquire
  <1>7. ASSUME NEW c \in Callers, Codex!StartSession(c) PROVE CodexSound'
    <2>1. FlagsTyped' /\ UNCHANGED <<task, free, closed, errors>>
      BY <1>0, <1>7 DEF Codex!StartSession, FlagsTyped, Codex!flags
    <2> QED
      BY <1>0, <1>4, <1>7, <2>1 DEF Codex!StartSession, WithTask, WithSlot, WithRow, Codex!Holding
  <1>8. ASSUME NEW c \in Callers, Codex!WriteRow(c) PROVE CodexSound'
    <2>1. PICK t \in Tasks :
            /\ task' = [task EXCEPT ![t] = "queued"]
            /\ caller' = [caller EXCEPT ![c].at = IF caller[c].task = Codex!New THEN "register" ELSE "reopen", ![c].task = t]
      BY <1>8 DEF Codex!WriteRow
    <2> DEFINE to == IF caller[c].task = Codex!New THEN "register" ELSE "reopen"
               b == [caller[c] EXCEPT !.at = to]
               k == [b EXCEPT !.task = t]
    <2>2. b \in Calling /\ b.at = to /\ to \in {"register", "reopen"}
      BY <1>1 DEF Calling, Codex!Holding
    <2>3. k \in Calling /\ k.at \in {"register", "reopen"} /\ k.task = t
      <3> HIDE DEF b, to
      <3> QED
        BY <2>2 DEF Calling
    <2>4. caller' = [caller EXCEPT ![c] = k]
      BY <1>1, <2>1
    <2>5. caller[c].at = "row" /\ UNCHANGED free /\ Same
      BY <1>8 DEF Codex!WriteRow, Codex!flags
    <2>6. task' \in [Tasks -> Codex!Active \cup Codex!Terminal \cup {"none"}] /\ \A u \in Tasks : u # t => task'[u] = task[u]
      BY <1>0, <2>1 DEF FlagsTyped, Codex!Active
    <2>7. FlagsTyped'
      BY <1>0, <2>5, <2>6 DEF FlagsTyped
    <2> HIDE DEF k, b, to
    <2> QED
      BY <1>0, <2>3, <2>4, <2>5, <2>6, <2>7, CallerMoves DEF WithTask, WithSlot, WithRow, Codex!Holding
  <1>9. ASSUME NEW c \in Callers, Codex!Raise(c) PROVE CodexSound'
    <2>1. /\ caller[c].at \in {"start", "row"} \/ (closed /\ caller[c].at \in {"register", "reopen", "queued"})
          /\ free' = free + 1 /\ caller' = [caller EXCEPT ![c] = Codex!Waiting] /\ UNCHANGED task /\ Same
      BY <1>9 DEF Codex!Raise, Codex!Leave, Codex!flags
    <2>2. FlagsTyped'
      BY <1>0, <2>1 DEF FlagsTyped
    <2> QED
      BY <1>0, <1>3, <2>1, <2>2, CallerMoves DEF WithTask, WithSlot, WithRow, Codex!Holding
  <1>10. ASSUME NEW c \in Callers, Codex!Register(c) PROVE CodexSound'
    <2>1. FlagsTyped' /\ UNCHANGED <<task, free, closed, errors>>
      BY <1>0, <1>10 DEF Codex!Register, FlagsTyped
    <2> QED
      BY <1>0, <1>4, <1>10, <2>1 DEF Codex!Register, WithTask, WithSlot, WithRow, Codex!Holding
  <1>11. ASSUME NEW c \in Callers, Codex!MarkRunning(c) PROVE CodexSound'
    <2>1. caller[c].at = "queued" /\ task' = [task EXCEPT ![caller[c].task] = "running"] /\ UNCHANGED free /\ Same
      BY <1>11 DEF Codex!MarkRunning, Codex!flags
    <2>2. PICK k \in Calling : k.at = "turn" /\ k.task = caller[c].task /\ caller' = [caller EXCEPT ![c] = k]
      BY <1>2, <1>11 DEF Codex!MarkRunning, Codex!Holding
    <2>3. caller[c].task \in Tasks
      BY <1>1, <2>1 DEF WithTask, WithRow, Codex!Holding
    <2>4. task' \in [Tasks -> Codex!Active \cup Codex!Terminal \cup {"none"}]
          /\ \A u \in Tasks : u # caller[c].task => task'[u] = task[u]
      BY <1>0, <2>1, <2>3 DEF FlagsTyped, Codex!Active
    <2>5. FlagsTyped'
      BY <1>0, <2>1, <2>4 DEF FlagsTyped
    <2> QED
      BY <1>0, <2>1, <2>2, <2>3, <2>4, <2>5, CallerMoves DEF WithTask, WithSlot, WithRow, Codex!Holding
  <1>12. ASSUME NEW c \in Callers, Codex!MarkRunningRaises(c) PROVE CodexSound'
    <2>1. /\ caller[c].at = "queued" /\ errors' = errors + 1 /\ errors < MaxErrors
          /\ UNCHANGED <<task, free, handleOf, asked, marked, blocked, interrupted, closed, stopped>>
      BY <1>12 DEF Codex!MarkRunningRaises
    <2>2. PICK k \in Calling : k.at = "lost" /\ k.task = caller[c].task /\ caller' = [caller EXCEPT ![c] = k]
      BY <1>2, <1>12 DEF Codex!MarkRunningRaises
    <2>3. caller[c].task \in Tasks
      BY <1>1, <2>1 DEF WithTask, WithRow, Codex!Holding
    <2>4. FlagsTyped' /\ errors' > 0 /\ errors <= errors'
      BY <1>0, <2>1, CodexAssumption DEF FlagsTyped
    <2> QED
      BY <1>0, <2>1, <2>2, <2>3, <2>4, CallerMoves DEF WithTask, WithSlot, WithRow, Codex!Holding
  <1>13. ASSUME NEW c \in Callers, Codex!TakeHandle(c) PROVE CodexSound'
    <2>1. FlagsTyped' /\ UNCHANGED <<task, free, closed, errors>>
      BY <1>0, <1>13 DEF Codex!TakeHandle, Codex!ToldAtOnce, FlagsTyped
    <2> QED
      BY <1>0, <1>4, <1>13, <2>1 DEF Codex!TakeHandle, WithTask, WithSlot, WithRow, Codex!Holding
  <1>14. ASSUME NEW c \in Callers, Codex!TurnRaises(c) \/ Codex!TurnEnds(c) PROVE CodexSound'
    <2>1. caller[c].at \in {"turn", "run"} /\ UNCHANGED <<task, free>> /\ Same
      BY <1>14 DEF Codex!TurnRaises, Codex!TurnEnds, Codex!flags
    <2>2. PICK end \in Codex!Terminal : caller' = [caller EXCEPT ![c].at = "cleanup", ![c].end = end]
      BY <1>14 DEF Codex!TurnRaises, Codex!TurnEnds, Codex!Judged, Codex!Terminal
    <2> DEFINE b == [caller[c] EXCEPT !.at = "cleanup"]
               k == [b EXCEPT !.end = end]
    <2>3. b \in Calling /\ b.at = "cleanup" /\ b.task = caller[c].task
      BY <1>1 DEF Calling, Codex!Holding
    <2>4. k \in Calling /\ k.at = "cleanup" /\ k.task = caller[c].task
      <3> HIDE DEF b
      <3> QED
        BY <2>3 DEF Calling
    <2>5. caller' = [caller EXCEPT ![c] = k]
      BY <1>1, <2>2
    <2>6. FlagsTyped' /\ caller[c].task \in Tasks
      BY <1>0, <1>1, <2>1 DEF FlagsTyped, WithTask, WithRow, Codex!Holding
    <2> HIDE DEF k, b
    <2> QED
      BY <1>0, <2>1, <2>4, <2>5, <2>6, CallerMoves DEF WithTask, WithSlot, WithRow, Codex!Holding
  <1>15. ASSUME NEW c \in Callers, Codex!Cleanup(c) PROVE CodexSound'
    <2>1. FlagsTyped' /\ UNCHANGED <<task, free, closed, errors>>
      BY <1>0, <1>15 DEF Codex!Cleanup, FlagsTyped
    <2> QED
      BY <1>0, <1>4, <1>15, <2>1 DEF Codex!Cleanup, WithTask, WithSlot, WithRow, Codex!Holding
  <1>16. ASSUME NEW c \in Callers, Codex!Finish(c) PROVE CodexSound'
    <2>1. /\ caller[c].at = "finish" /\ caller' = [caller EXCEPT ![c] = Codex!Waiting]
          /\ UNCHANGED <<handleOf, asked, marked, blocked, interrupted, closed, stopped>>
          /\ free' = free + 1
          /\ \/ task' = [task EXCEPT ![caller[c].task] = caller[c].end] /\ UNCHANGED errors
             \/ errors < MaxErrors /\ errors' = errors + 1 /\ UNCHANGED task
      BY <1>16 DEF Codex!Finish, Codex!Leave, Codex!FreedBy
    <2>2. caller[c].task \in Tasks /\ caller[c].end \in Codex!Terminal
      BY <1>1, <2>1 DEF WithTask, WithRow, Codex!Holding, Calling
    <2>3. CASE task' = [task EXCEPT ![caller[c].task] = caller[c].end] /\ UNCHANGED errors
      <3>1. /\ task' \in [Tasks -> Codex!Active \cup Codex!Terminal \cup {"none"}]
            /\ task'[caller[c].task] \notin Codex!Active
            /\ \A u \in Tasks : u # caller[c].task => task'[u] = task[u]
        BY <1>0, <2>2, <2>3 DEF FlagsTyped, Codex!Active, Codex!Terminal
      <3>2. FlagsTyped'
        BY <1>0, <2>1, <2>3, <3>1 DEF FlagsTyped
      <3> QED
        BY <1>0, <1>3, <2>1, <2>2, <2>3, <3>1, <3>2, CallerMoves DEF WithTask, WithSlot, WithRow, Codex!Holding
    <2>4. CASE errors < MaxErrors /\ errors' = errors + 1 /\ UNCHANGED task
      <3>1. FlagsTyped' /\ errors' > 0 /\ errors <= errors'
        BY <1>0, <2>1, <2>4, CodexAssumption DEF FlagsTyped
      <3> QED
        BY <1>0, <1>3, <2>1, <2>4, <3>1, CallerMoves DEF WithTask, WithSlot, WithRow, Codex!Holding
    <2> QED
      BY <2>1, <2>3, <2>4
  <1>17. ASSUME NEW c \in Callers, Codex!HandleServerRequest(c) PROVE CodexSound'
    <2>1. caller[c].task \in Tasks
      BY <1>1, <1>17 DEF Codex!HandleServerRequest, WithTask, WithRow, Codex!Holding
    <2>2. handleOf[caller[c].task] \in Callers \cup {Codex!Nobody}
      BY <1>0, <2>1 DEF FlagsTyped
    <2>3. FlagsTyped' /\ UNCHANGED <<task, free, caller, errors, closed>>
      BY <1>0, <1>17, <2>1, <2>2 DEF Codex!HandleServerRequest, FlagsTyped
    <2> QED
      BY <2>3, BesideCallers
  <1>18. ASSUME NEW t \in Tasks, Codex!CancelRead(t) \/ Codex!CancelMark(t) PROVE CodexSound'
    <2>1. handleOf[t] \in Callers \cup {Codex!Nobody}
      BY <1>0 DEF FlagsTyped
    <2>2. FlagsTyped' /\ UNCHANGED <<task, free, caller, errors, closed>>
      BY <1>0, <1>18, <2>1 DEF Codex!CancelRead, Codex!CancelMark, FlagsTyped
    <2> QED
      BY <2>2, BesideCallers
  <1>19. CASE Codex!Close
    <2>1. {handleOf[t] : t \in {u \in Tasks : handleOf[u] # Codex!Nobody}} \subseteq Callers
      BY <1>0 DEF FlagsTyped
    <2>2. closed' = TRUE /\ UNCHANGED <<task, free, caller, errors>>
      BY <1>19 DEF Codex!Close
    <2>3. FlagsTyped'
      BY <1>0, <1>19, <2>1, <2>2 DEF Codex!Close, FlagsTyped
    <2> QED
      BY <2>2, <2>3, BesideCallers
  <1>20. CASE Codex!Restart
    <2>1. \A c \in Callers : caller'[c] = Codex!Waiting
      BY <1>20 DEF Codex!Restart
    <2>2. caller' \in [Callers -> Calling]
      BY <1>3, <1>20 DEF Codex!Restart
    <2>3. Holders' = {}
      BY <1>3, <2>1 DEF Holders, WithSlot, Codex!Holding
    <2>4. task' \in [Tasks -> Codex!Terminal \cup {"none"}]
      BY <1>0, <1>20 DEF Codex!Restart, Codex!InterruptedRows, FlagsTyped, Codex!Terminal
    <2>5. /\ handleOf' \in [Tasks -> Callers \cup {Codex!Nobody}] /\ free' = MaxSlots /\ errors' = 0 /\ closed' = FALSE
          /\ asked' = {} /\ marked' = {} /\ blocked' = {} /\ interrupted' = {}
          /\ stopped < MaxStops /\ stopped' = stopped + 1
      BY <1>20 DEF Codex!Restart
    <2>6. Codex!CodexTypeOK'
      <3>1. free' \in 0 .. MaxSlots /\ errors' \in 0 .. MaxErrors /\ stopped' \in 0 .. MaxStops
        BY <1>0, <2>5, CodexAssumption DEF FlagsTyped
      <3> QED
        BY <2>2, <2>4, <2>5, <3>1 DEF Codex!CodexTypeOK, Calling, Codex!New
    <2>7. Codex!ActiveIsWorkedOn'
      BY <2>4 DEF Codex!ActiveIsWorkedOn, Codex!Active, Codex!Terminal
    <2> QED
      BY <1>3, <2>1, <2>3, <2>5, <2>6, <2>7, FS_EmptySet, CodexAssumption
         DEF CodexSound, WithTask, WithRow, Codex!Holding
  <1>21. CASE UNCHANGED codexVars
    <2>1. UNCHANGED <<task, free, caller, errors, closed>> /\ FlagsTyped'
      BY <1>0, <1>21 DEF codexVars, FlagsTyped
    <2> QED
      BY <2>1, BesideCallers
  <1> QED
    BY <1>5, <1>6, <1>7, <1>8, <1>9, <1>10, <1>11, <1>12, <1>13, <1>14, <1>15, <1>16, <1>17, <1>18, <1>19, <1>20, <1>21
       DEF Codex!Next, Codex!TurnStep

\* The thread whose handle a task has runs a turn of that task, or has just ended one, and
\* is told of the task's mark.
HandlesAreTold ==
  \A t \in Tasks : handleOf[t] # Codex!Nobody =>
    /\ caller[handleOf[t]].task = t /\ caller[handleOf[t]].at \in {"run", "cleanup"}
    /\ t \in marked => handleOf[t] \in interrupted

LEMMA HandlesAreToldInit == ServicesInit => HandlesAreTold
  BY DEF ServicesInit, Codex!Init, HandlesAreTold

\* A step of a caller that has no handle, hands none on and marks no task.
LEMMA NobodyToTell ==
  ASSUME HandlesAreTold, UNCHANGED handleOf, marked' \subseteq marked, interrupted \subseteq interrupted',
         handleOf \in [Tasks -> Callers \cup {Codex!Nobody}],
         \A d \in Callers : caller[d].at \in {"run", "cleanup"} =>
           caller'[d].at \in {"run", "cleanup"} /\ caller'[d].task = caller[d].task
  PROVE  HandlesAreTold'
  BY DEF HandlesAreTold

LEMMA HandlesAreToldNext ==
  ASSUME CodexSound, HandlesAreTold, [Codex!Next]_codexVars
  PROVE  HandlesAreTold'
  <1> DEFINE Others(c) == \A d \in Callers : d # c => caller'[d] = caller[d]
  <1>0. /\ caller \in [Callers -> Calling] /\ handleOf \in [Tasks -> Callers \cup {Codex!Nobody}] /\ Codex!Nobody \notin Callers
        /\ \A c \in Callers : caller[c].at \in WithTask => caller[c].task \in Tasks
    BY CodexAssumption DEF CodexSound, Codex!CodexTypeOK, Calling, Codex!New, Codex!Nobody
  <1>1. ASSUME NEW c \in Callers, NEW to \in Codex!Holding \cup {"lost"}, Codex!Go(c, to)
        PROVE  /\ caller'[c].at = to /\ caller'[c].task = caller[c].task /\ Others(c)
    BY <1>0, <1>1 DEF Codex!Go, Calling
  <1>2. ASSUME NEW c \in Callers,
               \/ \E t \in Tasks : Codex!ReadForContinue(c, t)
               \/ Codex!Acquire(c) \/ Codex!StartSession(c) \/ Codex!WriteRow(c) \/ Codex!Raise(c)
               \/ Codex!MarkRunning(c) \/ Codex!MarkRunningRaises(c) \/ Codex!TurnRaises(c) \/ Codex!TurnEnds(c)
               \/ Codex!Finish(c) \/ Codex!Register(c)
        PROVE  HandlesAreTold'
    <2>1. Others(c) /\ (caller[c].at \in {"run", "cleanup"} => caller'[c].at = "cleanup" /\ caller'[c].task = caller[c].task)
      <3>1. CASE \E t \in Tasks : Codex!ReadForContinue(c, t)
        BY <1>0, <3>1 DEF Codex!ReadForContinue, Calling
      <3>2. CASE Codex!Acquire(c)
        BY <1>0, <3>2 DEF Codex!Acquire, Codex!Go, Codex!Leave, Codex!Waiting, Calling
      <3>3. CASE Codex!StartSession(c) \/ Codex!MarkRunning(c) \/ Codex!MarkRunningRaises(c) \/ Codex!Register(c)
        BY <1>0, <3>3 DEF Codex!StartSession, Codex!MarkRunning, Codex!MarkRunningRaises, Codex!Register, Codex!Go, Calling
      <3>4. CASE Codex!WriteRow(c)
        BY <1>0, <3>4 DEF Codex!WriteRow, Calling
      <3>5. CASE Codex!Raise(c) \/ Codex!Finish(c)
        <4>1. Codex!Leave(c) /\ caller[c].at \notin {"run", "cleanup"}
          BY <3>5 DEF Codex!Raise, Codex!Finish
        <4> QED
          BY <1>0, <4>1 DEF Codex!Leave, Codex!Waiting
      <3>6. CASE Codex!TurnRaises(c) \/ Codex!TurnEnds(c)
        BY <1>0, <3>6 DEF Codex!TurnRaises, Codex!TurnEnds, Calling
      <3> QED
        BY <1>2, <3>1, <3>2, <3>3, <3>4, <3>5, <3>6
    <2>2. UNCHANGED <<handleOf, interrupted>> /\ marked' \subseteq marked
      BY <1>2 DEF Codex!ReadForContinue, Codex!Acquire, Codex!StartSession, Codex!WriteRow, Codex!Raise,
         Codex!MarkRunning, Codex!MarkRunningRaises, Codex!TurnRaises, Codex!TurnEnds, Codex!Finish, Codex!Register, Codex!flags
    <2> QED
      BY <1>0, <2>1, <2>2, NobodyToTell
  <1>3. ASSUME NEW c \in Callers, Codex!TakeHandle(c) PROVE HandlesAreTold'
    <2>1. /\ caller[c].at = "turn" /\ caller'[c].at = "run" /\ caller'[c].task = caller[c].task /\ Others(c)
          /\ handleOf' = [handleOf EXCEPT ![caller[c].task] = c] /\ UNCHANGED marked
          /\ interrupted' = interrupted \cup Codex!ToldAtOnce(c)
      BY <1>1, <1>3 DEF Codex!TakeHandle, Codex!Holding
    <2>2. \A t \in Tasks : handleOf'[t] = IF t = caller[c].task THEN c ELSE handleOf[t]
      BY <1>0, <2>1
    <2>3. caller[c].task \in marked => c \in interrupted'
      BY <2>1 DEF Codex!ToldAtOnce
    <2>4. \A t \in Tasks : t # caller[c].task /\ handleOf[t] # Codex!Nobody => handleOf[t] # c
      BY <2>1 DEF HandlesAreTold
    <2> SUFFICES ASSUME NEW t \in Tasks, handleOf'[t] # Codex!Nobody
                 PROVE  /\ caller'[handleOf'[t]].task = t /\ caller'[handleOf'[t]].at \in {"run", "cleanup"}
                        /\ t \in marked' => handleOf'[t] \in interrupted'
      BY DEF HandlesAreTold
    <2>5. CASE t = caller[c].task
      BY <2>1, <2>2, <2>3, <2>5
    <2>6. CASE t # caller[c].task
      BY <1>0, <2>1, <2>2, <2>4, <2>6 DEF HandlesAreTold
    <2> QED
      BY <2>5, <2>6
  <1>4. ASSUME NEW c \in Callers, Codex!Cleanup(c) PROVE HandlesAreTold'
    <2>1. /\ caller[c].at = "cleanup" /\ Others(c)
          /\ handleOf' = [handleOf EXCEPT ![caller[c].task] = Codex!Nobody]
          /\ marked' \subseteq marked /\ interrupted' = interrupted \ {c}
      BY <1>1, <1>4 DEF Codex!Cleanup, Codex!Holding
    <2>2. \A t \in Tasks : handleOf'[t] = IF t = caller[c].task THEN Codex!Nobody ELSE handleOf[t]
      BY <1>0, <2>1
    <2> SUFFICES ASSUME NEW t \in Tasks, handleOf'[t] # Codex!Nobody
                 PROVE  /\ caller'[handleOf'[t]].task = t /\ caller'[handleOf'[t]].at \in {"run", "cleanup"}
                        /\ t \in marked' => handleOf'[t] \in interrupted'
      BY DEF HandlesAreTold
    <2>3. t # caller[c].task /\ handleOf'[t] = handleOf[t] /\ handleOf[t] \in Callers
      BY <1>0, <2>2
    <2>4. handleOf[t] # c
      BY <2>3 DEF HandlesAreTold
    <2> QED
      BY <2>1, <2>3, <2>4 DEF HandlesAreTold
  <1>5. ASSUME NEW c \in Callers, Codex!HandleServerRequest(c) PROVE HandlesAreTold'
    BY <1>0, <1>5, NobodyToTell DEF Codex!HandleServerRequest
  <1>6. ASSUME NEW t \in Tasks, Codex!CancelRead(t) PROVE HandlesAreTold'
    BY <1>0, <1>6, NobodyToTell DEF Codex!CancelRead
  <1>7. ASSUME NEW t \in Tasks, Codex!CancelMark(t) PROVE HandlesAreTold'
    BY <1>0, <1>7 DEF Codex!CancelMark, HandlesAreTold
  <1>8. CASE Codex!Close
    BY <1>0, <1>8 DEF Codex!Close, HandlesAreTold
  <1>9. CASE Codex!Restart
    BY <1>9 DEF Codex!Restart, HandlesAreTold
  <1>10. CASE UNCHANGED codexVars
    BY <1>0, <1>10, NobodyToTell DEF codexVars
  <1> QED
    BY <1>2, <1>3, <1>4, <1>5, <1>6, <1>7, <1>8, <1>9, <1>10 DEF Codex!Next, Codex!TurnStep

LEMMA SlotsAreCounted == CodexSound => Codex!SlotsAddUp
  <1>1. Holders = {c \in Callers : caller[c].at \in Codex!Holding \cup {"lost"}}
    BY DEF Holders, WithSlot
  <1> QED
    BY <1>1, CodexCardinality DEF CodexSound, Codex!SlotsAddUp

LEMMA TasksAccounted == CodexSound /\ HandlesAreTold => Codex!TasksAreAccountedFor
  <1> SUFFICES ASSUME CodexSound, HandlesAreTold PROVE Codex!TasksAreAccountedFor
    OBVIOUS
  <1>1. Codex!SlotsAddUp
    BY SlotsAreCounted
  <1>2. Codex!ActiveIsWorkedOn /\ Codex!MarkedIsTold
    BY DEF CodexSound, HandlesAreTold, Codex!MarkedIsTold
  <1> QED
    BY <1>1, <1>2 DEF Codex!TasksAreAccountedFor


-----------------------------------------------------------------------------
(* KnowledgeSources: row, chunks and vectors stand for one text.             *)

LEMMA KnowledgeSteps ==
  ASSUME [ServicesNext]_parts
  PROVE  [KnowledgeNext]_knowledgeVars
  BY DEF ServicesNext, Rest, parts

Asking == [op : {"idle", "read", "stat", "embed", "index", "refused", "look", "note", "reindex", "reindexed", "reembed"},
           status : SourceStatuses, category : Categories, text : Texts \cup {NoText},
           stamp : 0 .. MaxWrites, fresh : BOOLEAN, vector : Texts \cup {NoText}]

\* What a request holds of a text it will store: the vectors are those of its own text,
\* and what it read of chunks that are still there is what they say.
HoldsOneText(q) ==
  /\ q.op \in {"stat", "embed", "index", "look", "reindex", "reembed"} => q.text \in Texts
  /\ q.op = "index" => q.vector \in {NoText, q.text}
  /\ q.op \in {"reindex", "reembed"} /\ q.fresh => q.text = chunks.text

KnowledgeSound ==
  /\ KnowledgeTypeOK
  /\ SourceIsWhole
  /\ \A r \in Requests : HoldsOneText(request[r])

LEMMA NoRequestFacts == NoRequest \in Asking /\ NoRequest.op = "idle" /\ NoRequest.fresh = FALSE /\ NoRequest.category \in Categories
  <1>1. (CHOOSE c \in Categories : TRUE) \in Categories
    BY KnowledgeAssumption
  <1> QED
    BY <1>1, KnowledgeAssumption DEF NoRequest, Asking, SourceStatuses, ActiveStatuses

LEMMA KnowledgeSoundInit == ServicesInit => KnowledgeSound
  <1> SUFFICES ASSUME KnowledgeInit PROVE KnowledgeSound
    BY DEF ServicesInit
  <1>1. KnowledgeTypeOK
    BY NoRequestFacts, KnowledgeAssumption DEF KnowledgeInit, KnowledgeTypeOK, Asking, SourceStatuses, ActiveStatuses
  <1> QED
    BY <1>1, NoRequestFacts DEF KnowledgeInit, KnowledgeSound, SourceIsWhole, HoldsOneText

\* A step of the drive, or one that changes nothing but the row's status and stamp.
LEMMA RowNoted ==
  ASSUME KnowledgeSound, UNCHANGED chunks, KnowledgeTypeOK',
         source'.hash = source.hash, source'.category = source.category,
         \A r \in Requests : request'[r] = request[r] \/ HoldsOneText(request'[r])
  PROVE  KnowledgeSound'
  BY DEF KnowledgeSound, SourceIsWhole, HoldsOneText

\* A request goes on.
LEMMA RequestMoves ==
  ASSUME KnowledgeSound, NEW r \in Requests, NEW q \in Asking, HoldsOneText(q),
         request' = [request EXCEPT ![r] = q],
         document' = document, report' = report, chunks' = chunks,
         source' = source \/ \E st \in SourceStatuses, n \in 0 .. MaxWrites :
           source' = [source EXCEPT !.status = st, !.stamp = n]
  PROVE  KnowledgeSound'
  <1>1. request \in [Requests -> Asking] /\ request' \in [Requests -> Asking]
        /\ \A p \in Requests : request'[p] = IF p = r THEN q ELSE request[p]
    BY DEF KnowledgeSound, KnowledgeTypeOK, Asking
  <1>2. /\ source' \in [status : SourceStatuses, category : Categories, hash : Texts, stamp : 0 .. MaxWrites]
        /\ source'.hash = source.hash /\ source'.category = source.category
    <2>1. source \in [status : SourceStatuses, category : Categories, hash : Texts, stamp : 0 .. MaxWrites]
      BY DEF KnowledgeSound, KnowledgeTypeOK
    <2>2. ASSUME NEW st \in SourceStatuses, NEW n \in 0 .. MaxWrites, source' = [source EXCEPT !.status = st, !.stamp = n]
          PROVE  /\ source' \in [status : SourceStatuses, category : Categories, hash : Texts, stamp : 0 .. MaxWrites]
                 /\ source'.hash = source.hash /\ source'.category = source.category
      <3> DEFINE b == [source EXCEPT !.status = st]
      <3>1. /\ b \in [status : SourceStatuses, category : Categories, hash : Texts, stamp : 0 .. MaxWrites]
            /\ b.hash = source.hash /\ b.category = source.category
        BY <2>1
      <3>2. source' = [b EXCEPT !.stamp = n]
        BY <2>2
      <3> HIDE DEF b
      <3> QED
        BY <3>1, <3>2
    <2> QED
      BY <2>1, <2>2
  <1>3. KnowledgeTypeOK'
    BY <1>1, <1>2 DEF KnowledgeSound, KnowledgeTypeOK, Asking
  <1> QED
    BY <1>1, <1>2, <1>3, RowNoted

\* The vectors of the chunks that are there are stored.
LEMMA VectorsStored ==
  ASSUME KnowledgeSound, NEW r \in Requests, NEW q \in Asking, HoldsOneText(q), q.op \notin {"reindex", "reembed"},
         request[r].op \in {"reindex", "reembed"}, HasChunk(r),
         request' = [request EXCEPT ![r] = q],
         document' = document, report' = report, chunks' = [chunks EXCEPT !.vector = request[r].text],
         source' = source \/ source' = [source EXCEPT !.status = "ready"]
  PROVE  KnowledgeSound'
  <1>1. request \in [Requests -> Asking] /\ request' \in [Requests -> Asking]
        /\ \A p \in Requests : request'[p] = IF p = r THEN q ELSE request[p]
    BY DEF KnowledgeSound, KnowledgeTypeOK, Asking
  <1>2. chunks \in [text : Texts, category : Categories, vector : Texts \cup {NoText}] /\ request[r].text = chunks.text
    BY DEF KnowledgeSound, KnowledgeTypeOK, HoldsOneText, HasChunk
  <1>3. /\ chunks' \in [text : Texts, category : Categories, vector : Texts \cup {NoText}]
        /\ chunks'.text = chunks.text /\ chunks'.category = chunks.category /\ chunks'.vector = chunks.text
    BY <1>2
  <1>4. /\ source' \in [status : SourceStatuses, category : Categories, hash : Texts, stamp : 0 .. MaxWrites]
        /\ source'.hash = source.hash /\ source'.category = source.category
    BY DEF KnowledgeSound, KnowledgeTypeOK, SourceStatuses, ActiveStatuses
  <1>5. KnowledgeTypeOK'
    BY <1>1, <1>3, <1>4 DEF KnowledgeSound, KnowledgeTypeOK, Asking
  <1> QED
    BY <1>1, <1>3, <1>4, <1>5 DEF KnowledgeSound, SourceIsWhole, HoldsOneText

LEMMA KnowledgeSoundNext ==
  ASSUME KnowledgeSound, [KnowledgeNext]_knowledgeVars
  PROVE  KnowledgeSound'
  <1>0. /\ source \in [status : SourceStatuses, category : Categories, hash : Texts, stamp : 0 .. MaxWrites]
        /\ chunks \in [text : Texts, category : Categories, vector : Texts \cup {NoText}]
        /\ document \in [there : BOOLEAN, text : Texts, stamp : 0 .. MaxWrites]
        /\ request \in [Requests -> Asking]
    BY DEF KnowledgeSound, KnowledgeTypeOK, Asking
  <1>1. ASSUME NEW t \in Texts, NEW tell \in BOOLEAN, Write(t, tell) PROVE KnowledgeSound'
    <2>1. document' \in [there : BOOLEAN, text : Texts, stamp : 0 .. MaxWrites] /\ UNCHANGED <<source, chunks, request>>
      BY <1>0, <1>1, KnowledgeAssumption DEF Write
    <2>2. report' \in {"nothing", "changed", "deleted"}
      BY <1>1 DEF Write, KnowledgeSound, KnowledgeTypeOK
    <2> QED
      BY <2>1, <2>2, RowNoted DEF KnowledgeSound, KnowledgeTypeOK
  <1>2. CASE Delete
    <2>1. document' \in [there : BOOLEAN, text : Texts, stamp : 0 .. MaxWrites] /\ UNCHANGED <<source, chunks, request>>
      BY <1>0, <1>2 DEF Delete
    <2> QED
      BY <1>2, <2>1, RowNoted DEF Delete, KnowledgeSound, KnowledgeTypeOK
  <1>3. CASE MarkDriveChanged \/ MarkDriveDeleted
    <2>1. PICK st \in SourceStatuses : source' = [source EXCEPT !.status = st]
      BY <1>3 DEF MarkDriveChanged, MarkDriveDeleted, SourceStatuses
    <2>2. /\ source' \in [status : SourceStatuses, category : Categories, hash : Texts, stamp : 0 .. MaxWrites]
          /\ source'.hash = source.hash /\ source'.category = source.category
      BY <1>0, <2>1
    <2>3. report' = "nothing" /\ UNCHANGED <<document, chunks, request>>
      BY <1>3 DEF MarkDriveChanged, MarkDriveDeleted
    <2> QED
      BY <2>2, <2>3, RowNoted DEF KnowledgeSound, KnowledgeTypeOK
  <1>4. ASSUME NEW c \in Categories, MoveSources(c) PROVE KnowledgeSound'
    <2>1. /\ source' \in [status : SourceStatuses, category : Categories, hash : Texts, stamp : 0 .. MaxWrites]
          /\ source'.hash = source.hash /\ source'.category = c
          /\ chunks' \in [text : Texts, category : Categories, vector : Texts \cup {NoText}]
          /\ chunks'.text = chunks.text /\ chunks'.category = c /\ chunks'.vector = chunks.vector
          /\ UNCHANGED <<document, report, request>>
      BY <1>0, <1>4 DEF MoveSources, Moved
    <2> QED
      BY <2>1 DEF KnowledgeSound, KnowledgeTypeOK, SourceIsWhole, HoldsOneText
  <1>5. CASE UNCHANGED knowledgeVars
    BY <1>5 DEF knowledgeVars, KnowledgeSound, KnowledgeTypeOK, SourceIsWhole, HoldsOneText
  <1>6. ASSUME NEW r \in Requests, RequestStep(r) PROVE KnowledgeSound'
    <2> DEFINE q == request[r]
    <2>0. q \in Asking /\ HoldsOneText(q)
      BY <1>0 DEF KnowledgeSound
    <2>1. ASSUME Done(r), UNCHANGED <<document, report, chunks>>,
                 source' = source \/ \E st \in SourceStatuses, n \in 0 .. MaxWrites : source' = [source EXCEPT !.status = st, !.stamp = n]
          PROVE  KnowledgeSound'
      BY <2>1, NoRequestFacts, RequestMoves DEF Done, HoldsOneText
    <2>2. ASSUME NEW st \in SourceStatuses, source' = [source EXCEPT !.status = st]
          PROVE  \E s \in SourceStatuses, n \in 0 .. MaxWrites : source' = [source EXCEPT !.status = s, !.stamp = n]
      <3>1. source.stamp \in 0 .. MaxWrites /\ [source EXCEPT !.status = st, !.stamp = source.stamp] = [source EXCEPT !.status = st]
        BY <1>0
      <3> QED
        BY <2>2, <3>1
    <2>3. CASE RefreshRead(r)
      <3> DEFINE n == [[NoRequest EXCEPT !.op = "read"] EXCEPT !.category = source.category]
      <3>1. n \in Asking /\ n.op = "read"
        BY <1>0, NoRequestFacts DEF Asking
      <3>2. request' = [request EXCEPT ![r] = n] /\ UNCHANGED <<document, report, source, chunks>>
        BY <2>3 DEF RefreshRead
      <3> HIDE DEF n
      <3> QED
        BY <3>1, <3>2, RequestMoves DEF HoldsOneText
    <2>4. CASE ReadDocument(r)
      <3> DEFINE op == IF document.there THEN "stat" ELSE "refused"
                 n == [[q EXCEPT !.op = op] EXCEPT !.text = document.text]
      <3>1. op \in {"stat", "refused"}
        OBVIOUS
      <3>2. n \in Asking /\ n.op \in {"stat", "refused"} /\ n.text \in Texts
        <4> HIDE DEF op
        <4> QED
          BY <1>0, <2>0, <3>1 DEF Asking
      <3>3. request' = [request EXCEPT ![r] = n] /\ UNCHANGED <<document, report, source, chunks>>
        BY <1>0, <2>4 DEF ReadDocument
      <3> HIDE DEF n
      <3> QED
        BY <3>2, <3>3, RequestMoves DEF HoldsOneText
    <2>5. CASE Stat(r)
      <3> DEFINE op == IF document.there THEN "embed" ELSE "refused"
                 n == [[q EXCEPT !.op = op] EXCEPT !.stamp = document.stamp]
      <3>1. op \in {"embed", "refused"} /\ q.op = "stat"
        BY <2>5 DEF Stat
      <3>2. n \in Asking /\ n.op \in {"embed", "refused"} /\ n.text \in Texts
        <4> HIDE DEF op
        <4> QED
          BY <1>0, <2>0, <3>1 DEF Asking, HoldsOneText
      <3>3. request' = [request EXCEPT ![r] = n] /\ UNCHANGED <<document, report, source, chunks>>
        BY <1>0, <2>5 DEF Stat
      <3> HIDE DEF n
      <3> QED
        BY <3>2, <3>3, RequestMoves DEF HoldsOneText
    <2>6. CASE EmbedChunks(r)
      <3>1. PICK v \in {NoText, q.text} : request' = [request EXCEPT ![r].op = "index", ![r].vector = v]
        BY <2>6 DEF EmbedChunks
      <3> DEFINE n == [[q EXCEPT !.op = "index"] EXCEPT !.vector = v]
      <3>2. n \in Asking /\ n.op = "index" /\ n.text \in Texts /\ n.vector \in {NoText, n.text}
        BY <2>0, <2>6 DEF Asking, HoldsOneText, EmbedChunks
      <3>3. request' = [request EXCEPT ![r] = n] /\ UNCHANGED <<document, report, source, chunks>>
        BY <1>0, <2>6, <3>1 DEF EmbedChunks
      <3> HIDE DEF n
      <3> QED
        BY <3>2, <3>3, RequestMoves DEF HoldsOneText
    <2>7. CASE Index(r)
      <3>1. CASE Unchanged(r)
        <4>1. /\ Done(r) /\ UNCHANGED <<document, report, chunks>>
              /\ source' = [source EXCEPT !.stamp = q.stamp]
          BY <2>7, <3>1 DEF Index
        <4>2. /\ source.status \in SourceStatuses /\ q.stamp \in 0 .. MaxWrites
              /\ source' = [source EXCEPT !.status = source.status, !.stamp = q.stamp]
          BY <1>0, <2>0, <4>1 DEF Asking
        <4> QED
          BY <2>1, <4>1, <4>2
      <3>2. CASE ~Unchanged(r)
        <4>1. /\ source' = [status |-> IF q.vector = NoText THEN "pending_embedding" ELSE "ready",
                            category |-> q.category, hash |-> q.text, stamp |-> q.stamp]
              /\ chunks' = [text |-> q.text, category |-> q.category, vector |-> q.vector]
              /\ request' = Replaced(r) /\ UNCHANGED <<document, report>> /\ q.op = "index"
          BY <2>7, <3>2 DEF Index
        <4>2. q.text \in Texts /\ q.vector \in {NoText, q.text} /\ q.category \in Categories /\ q.stamp \in 0 .. MaxWrites
          BY <2>0, <4>1 DEF Asking, HoldsOneText
        <4>3. \A p \in Requests : /\ request'[p] \in Asking
                                  /\ \/ p = r /\ request'[p] = NoRequest
                                     \/ p # r /\ request'[p] = [request[p] EXCEPT !.fresh = FALSE]
          <5>1. ASSUME NEW p \in Requests PROVE [request[p] EXCEPT !.fresh = FALSE] \in Asking
            <6>1. request[p] \in Asking
              BY <1>0
            <6> QED
              BY <6>1 DEF Asking
          <5> QED
            BY <4>1, <5>1, NoRequestFacts DEF Replaced
        <4>4. request' \in [Requests -> Asking]
          BY <4>1, <4>3 DEF Replaced
        <4>5. \A p \in Requests : HoldsOneText(request[p])'
          <5> SUFFICES ASSUME NEW p \in Requests PROVE HoldsOneText(request[p])'
            OBVIOUS
          <5>1. CASE p = r
            BY <4>3, <5>1, NoRequestFacts DEF HoldsOneText
          <5>2. CASE p # r
            <6>1. /\ request'[p].op = request[p].op /\ request'[p].text = request[p].text
                  /\ request'[p].vector = request[p].vector /\ request'[p].fresh = FALSE
              BY <1>0, <4>3, <5>2 DEF Asking
            <6>2. HoldsOneText(request[p])
              BY DEF KnowledgeSound
            <6> QED
              BY <6>1, <6>2 DEF HoldsOneText
          <5> QED
            BY <5>1, <5>2
        <4>6. SourceIsWhole'
          BY <4>1, <4>2 DEF SourceIsWhole
        <4>7. KnowledgeTypeOK'
          <5>1. /\ source' \in [status : SourceStatuses, category : Categories, hash : Texts, stamp : 0 .. MaxWrites]
                /\ chunks' \in [text : Texts, category : Categories, vector : Texts \cup {NoText}]
            BY <4>1, <4>2 DEF SourceStatuses, ActiveStatuses
          <5> QED
            BY <4>1, <4>4, <5>1 DEF KnowledgeSound, KnowledgeTypeOK, Asking
        <4> QED
          BY <4>5, <4>6, <4>7 DEF KnowledgeSound
      <3> QED
        BY <3>1, <3>2
    <2>8. CASE RefreshFails(r)
      BY <2>1, <2>2, <2>8 DEF RefreshFails, SourceStatuses
    <2>9. CASE ReconcileRead(r)
      <3> DEFINE n == [[[[NoRequest EXCEPT !.op = "look"] EXCEPT !.status = source.status] EXCEPT !.text = source.hash]
                        EXCEPT !.stamp = source.stamp]
      <3>1. n \in Asking /\ n.op = "look" /\ n.text \in Texts
        BY <1>0, NoRequestFacts DEF Asking
      <3>2. request' = [request EXCEPT ![r] = n] /\ UNCHANGED <<document, report, source, chunks>>
        BY <2>9 DEF ReconcileRead
      <3> HIDE DEF n
      <3> QED
        BY <3>1, <3>2, RequestMoves DEF HoldsOneText
    <2>10. CASE Look(r)
      <3>1. CASE ~document.there
        <4> DEFINE n == [[q EXCEPT !.op = "note"] EXCEPT !.status = "source_missing"]
        <4>1. n \in Asking /\ n.op = "note"
          BY <2>0 DEF Asking, SourceStatuses
        <4>2. request' = [request EXCEPT ![r] = n] /\ UNCHANGED <<document, report, source, chunks>>
          BY <2>10, <3>1 DEF Look
        <4> HIDE DEF n
        <4> QED
          BY <4>1, <4>2, RequestMoves DEF HoldsOneText
      <3>2. CASE document.there /\ document.stamp = q.stamp
        BY <2>1, <2>10, <3>2 DEF Look, Done
      <3>3. CASE document.there /\ document.stamp # q.stamp
        <4> DEFINE st == IF document.text = q.text THEN q.status ELSE "stale_modified"
                   n == [[[q EXCEPT !.op = "note"] EXCEPT !.stamp = document.stamp] EXCEPT !.status = st]
        <4>1. st \in SourceStatuses
          BY <2>0 DEF Asking, SourceStatuses
        <4>2. n \in Asking /\ n.op = "note"
          <5> HIDE DEF st
          <5> QED
            BY <1>0, <2>0, <4>1 DEF Asking
        <4>3. request' = [request EXCEPT ![r] = n] /\ UNCHANGED <<document, report, source, chunks>>
          BY <2>10, <3>3 DEF Look
        <4> HIDE DEF n
        <4> QED
          BY <4>2, <4>3, RequestMoves DEF HoldsOneText
      <3> QED
        BY <3>1, <3>2, <3>3
    <2>11. CASE LookFails(r)
      <3> DEFINE n == [[q EXCEPT !.op = "note"] EXCEPT !.status = "failed"]
      <3>1. n \in Asking /\ n.op = "note"
        BY <2>0 DEF Asking, SourceStatuses
      <3>2. request' = [request EXCEPT ![r] = n] /\ UNCHANGED <<document, report, source, chunks>>
        BY <1>0, <2>11 DEF LookFails
      <3> HIDE DEF n
      <3> QED
        BY <3>1, <3>2, RequestMoves DEF HoldsOneText
    <2>12. CASE Note(r)
      <3>1. /\ Done(r) /\ UNCHANGED <<document, report, chunks>>
            /\ source' = [source EXCEPT !.status = q.status,
                            !.stamp = IF q.status \in {"source_missing", "failed"} THEN source.stamp ELSE q.stamp]
        BY <2>12 DEF Note
      <3>2. (IF q.status \in {"source_missing", "failed"} THEN source.stamp ELSE q.stamp) \in 0 .. MaxWrites
            /\ q.status \in SourceStatuses
        BY <1>0, <2>0 DEF Asking
      <3> QED
        BY <2>1, <3>1, <3>2
    <2>13. ASSUME NEW op \in {"reindex", "reembed"}, ReadChunks(r, op) PROVE KnowledgeSound'
      <3> DEFINE n == [[[NoRequest EXCEPT !.op = op] EXCEPT !.text = chunks.text] EXCEPT !.fresh = TRUE]
      <3>1. n \in Asking /\ n.op = op /\ n.text = chunks.text
        BY <1>0, NoRequestFacts DEF Asking
      <3>2. request' = [request EXCEPT ![r] = n] /\ UNCHANGED <<document, report, source, chunks>>
        BY <2>13 DEF ReadChunks
      <3> HIDE DEF n
      <3> QED
        BY <1>0, <3>1, <3>2, RequestMoves DEF HoldsOneText
    <2>14. CASE Reembed(r)
      BY <2>14, NoRequestFacts, VectorsStored DEF Reembed, Done, HoldsOneText
    <2>15. CASE ReembedFails(r)
      BY <2>1, <2>2, <2>15 DEF ReembedFails, SourceStatuses, ActiveStatuses
    <2>16. CASE StoreVectors(r)
      <3> DEFINE n == [q EXCEPT !.op = "reindexed"]
      <3>1. n \in Asking /\ n.op = "reindexed"
        BY <2>0 DEF Asking
      <3>2. request' = [request EXCEPT ![r] = n]
        BY <1>0, <2>16 DEF StoreVectors, Go
      <3> HIDE DEF n
      <3> QED
        BY <2>16, <3>1, <3>2, VectorsStored DEF StoreVectors, HoldsOneText
    <2>17. CASE ReindexFails(r)
      <3> DEFINE n == [q EXCEPT !.op = "reindexed"]
      <3>1. n \in Asking /\ n.op = "reindexed"
        BY <2>0 DEF Asking
      <3>2. request' = [request EXCEPT ![r] = n] /\ UNCHANGED <<document, report, source, chunks>>
        BY <1>0, <2>17 DEF ReindexFails, Go
      <3> HIDE DEF n
      <3> QED
        BY <3>1, <3>2, RequestMoves DEF HoldsOneText
    <2>18. CASE IntegrityError(r)
      BY <2>1, <2>18 DEF IntegrityError
    <2>19. CASE MarkReady(r)
      BY <2>1, <2>2, <2>19 DEF MarkReady, SourceStatuses, ActiveStatuses
    <2> QED
      BY <1>6, <2>3, <2>4, <2>5, <2>6, <2>7, <2>8, <2>9, <2>10, <2>11, <2>12, <2>13, <2>14, <2>15, <2>16, <2>17, <2>18, <2>19
         DEF RequestStep
  <1> QED
    BY <1>1, <1>2, <1>3, <1>4, <1>5, <1>6 DEF KnowledgeNext


-----------------------------------------------------------------------------
(* MemoryProfiles: the file that passes for current.                         *)

LEMMA MemorySteps ==
  ASSUME [ServicesNext]_parts
  PROVE  [Memory!Next]_memoryVars
  BY DEF ServicesNext, Rest, parts, memoryVars

AtFile == {"write", "commit"}
Thinking == [at : {"idle", "store", "scan", "rebuild", "error"} \cup AtFile, event : Nat, last : Nat,
             fact : Facts \cup {Memory!Nobody}, as : {"none", "active", "pending"}, changed : BOOLEAN,
             force : BOOLEAN, rows : SUBSET Facts, text : SUBSET Facts]
Profile == [dirty : BOOLEAN, of : SUBSET Facts, rev : Nat, scanned : Nat, whole : BOOLEAN]

\* A thread that is on the way to the file, short of having read the rows.
Waits(k) == k.changed \/ k.at = "rebuild"
\* What a thread has in hand: messages there are; and only a scan remembers a change.
InOrderOf(a, k) ==
  /\ k.event <= said /\ k.last <= said
  /\ a = "daily" /\ k.at \in {"scan", "store"} => k.event <= k.last
  /\ k.changed => a = "daily" /\ k.at \in {"scan", "store"}

MemoryShape ==
  /\ remembered \in [Facts -> {"none", "active", "pending", "superseded", "deleted"}]
  /\ profile \in Profile /\ profile.scanned <= said /\ soul \in [of : SUBSET Facts, rev : Nat]
  /\ said \in Nat /\ taken \in Nat /\ taken <= said
  /\ actor \in [Memory!Threads -> Thinking]
  /\ \A a \in Memory!Threads : InOrderOf(a, actor[a])
  /\ locked = Memory!Nobody \/ (locked \in Memory!Threads /\ actor[locked].at \in AtFile)
  /\ \A a \in Memory!Threads : actor[a].at \in AtFile => locked = a

\* Whoever makes the file read the rows that are active, or somebody who changed them
\* since is on the way to make it anew, or ended without.
Noticed ==
  \A a \in Memory!Threads : actor[a].at \in AtFile =>
    /\ actor[a].text \subseteq actor[a].rows
    /\ \/ actor[a].rows = Memory!Active \/ overtaken = "left"
       \/ \E b \in Memory!Threads \ {a} : Waits(actor[b])

MemorySound == MemoryShape /\ Noticed /\ Memory!MemoryIsTrue

LEMMA RestingFacts ==
  /\ Memory!Resting \in Thinking /\ Memory!Resting.at = "idle" /\ Memory!Resting.changed = FALSE
  /\ Memory!Resting.event = 0 /\ Memory!Resting.last = 0 /\ Memory!Nobody \notin Memory!Threads
  BY MemoryAssumption DEF Memory!Resting, Thinking, AtFile, Memory!Nobody, Memory!Threads

Failing == [Memory!Resting EXCEPT !.at = "error"]

LEMMA FailingFacts ==
  /\ Failing \in Thinking /\ Failing.at = "error" /\ Failing.changed = FALSE /\ Failing.event = 0 /\ Failing.last = 0
  BY RestingFacts DEF Failing, Thinking

LEMMA MemorySoundInit == ServicesInit => MemorySound
  <1> SUFFICES ASSUME Memory!Init PROVE MemorySound
    BY DEF ServicesInit
  <1>1. \A a \in Memory!Threads : actor[a] = Memory!Resting
    BY DEF Memory!Init
  <1>2. actor \in [Memory!Threads -> Thinking]
    BY RestingFacts DEF Memory!Init
  <1>3. MemoryShape
    BY <1>1, <1>2, RestingFacts DEF Memory!Init, MemoryShape, InOrderOf, Profile, Memory!Damaged, AtFile
  <1>4. Noticed
    BY <1>1, RestingFacts DEF Noticed, AtFile
  <1>5. Memory!Active = {} /\ ~Memory!Valid
    BY DEF Memory!Init, Memory!Active, Memory!Valid
  <1>6. Memory!MemoryIsTrue
    BY <1>5 DEF Memory!MemoryIsTrue, Memory!OneActivePerTopic, Memory!SoulIsCurrent
  <1> QED
    BY <1>3, <1>4, <1>6 DEF MemorySound

\* A thread goes on, away from the file; with it rows may change, if the profile is
\* marked and the thread is on the way to make it anew.
LEMMA ThreadMoves ==
  ASSUME MemorySound, NEW a \in Memory!Threads, NEW k \in Thinking, actor' = [actor EXCEPT ![a] = k],
         InOrderOf(a, k), k.at \notin AtFile, actor[a].at \notin AtFile \cup {"error"}, Waits(actor[a]) => Waits(k),
         NEW d \in BOOLEAN, NEW n \in Nat, n <= said, profile.dirty => d,
         profile' = [[profile EXCEPT !.dirty = d] EXCEPT !.scanned = n],
         remembered' \in [Facts -> {"none", "active", "pending", "superseded", "deleted"}],
         Memory!OneActivePerTopic', Memory!Active' # Memory!Active => d /\ Waits(k),
         taken' \in Nat, taken' <= said,
         UNCHANGED <<soul, said, locked, overtaken>>
  PROVE  MemorySound'
  <1>1. actor' \in [Memory!Threads -> Thinking] /\ \A b \in Memory!Threads : actor'[b] = IF b = a THEN k ELSE actor[b]
    BY DEF MemorySound, MemoryShape
  <1>2. /\ profile' \in Profile /\ profile'.scanned = n /\ profile'.dirty = d
        /\ profile'.of = profile.of /\ profile'.rev = profile.rev /\ profile'.whole = profile.whole
    BY DEF MemorySound, MemoryShape, Profile
  <1>3. MemoryShape'
    BY <1>1, <1>2 DEF MemorySound, MemoryShape, InOrderOf
  <1>4. Noticed'
    <2> SUFFICES ASSUME NEW b \in Memory!Threads, actor'[b].at \in AtFile
                 PROVE  /\ actor'[b].text \subseteq actor'[b].rows
                        /\ \/ actor'[b].rows = Memory!Active' \/ overtaken' = "left"
                           \/ \E c \in Memory!Threads \ {b} : Waits(actor'[c])
      BY DEF Noticed, Waits
    <2>1. b # a /\ actor'[b] = actor[b]
      BY <1>1
    <2>2. /\ actor[b].text \subseteq actor[b].rows
          /\ actor[b].rows = Memory!Active \/ overtaken = "left" \/ \E c \in Memory!Threads \ {b} : Waits(actor[c])
      BY <2>1 DEF MemorySound, Noticed
    <2>3. CASE Memory!Active' # Memory!Active
      BY <1>1, <2>1, <2>2, <2>3
    <2>4. CASE Memory!Active' = Memory!Active
      BY <1>1, <2>1, <2>2, <2>4
    <2> QED
      BY <2>3, <2>4
  <1>5. Memory!SoulIsCurrent'
    <2> SUFFICES ASSUME Memory!Valid'
                 PROVE  \/ profile'.of \subseteq Memory!Active' /\ (profile'.whole => profile'.of = Memory!Active')
                        \/ overtaken' = "left" \/ (overtaken' = "yes" /\ Memory!OnTheWay')
      BY DEF Memory!SoulIsCurrent
    <2>1. ~d /\ Memory!Active' = Memory!Active /\ Memory!Valid
      BY <1>2 DEF Memory!Valid, Memory!Damaged
    <2>2. Memory!OnTheWay => Memory!OnTheWay'
      BY <1>1 DEF Memory!OnTheWay, Waits, AtFile
    <2> QED
      BY <1>2, <2>1, <2>2 DEF MemorySound, Memory!MemoryIsTrue, Memory!SoulIsCurrent
  <1> QED
    BY <1>3, <1>4, <1>5 DEF MemorySound, Memory!MemoryIsTrue

\* A thread goes on and nothing else happens.
LEMMA OnlyThreadMoves ==
  ASSUME MemorySound, NEW a \in Memory!Threads, NEW k \in Thinking, actor' = [actor EXCEPT ![a] = k],
         InOrderOf(a, k), k.at \notin AtFile, actor[a].at \notin AtFile \cup {"error"}, Waits(actor[a]) => Waits(k),
         taken' \in Nat, taken' <= said, UNCHANGED <<remembered, profile, soul, said, locked, overtaken>>
  PROVE  MemorySound'
  <1>1. profile \in Profile /\ profile.dirty \in BOOLEAN /\ profile.scanned \in Nat /\ profile.scanned <= said
    BY DEF MemorySound, MemoryShape, Profile
  <1>2. profile' = [[profile EXCEPT !.dirty = profile.dirty] EXCEPT !.scanned = profile.scanned]
    BY <1>1 DEF Profile
  <1>3. remembered' \in [Facts -> {"none", "active", "pending", "superseded", "deleted"}]
        /\ Memory!OneActivePerTopic' /\ Memory!Active' = Memory!Active
    BY DEF MemorySound, MemoryShape, Memory!MemoryIsTrue, Memory!OneActivePerTopic, Memory!Active
  <1> QED
    BY <1>1, <1>2, <1>3, ThreadMoves

\* A thread that makes the file leaves it.
LEMMA LeavesTheFile ==
  ASSUME MemorySound, NEW a \in Memory!Threads, actor[a].at \in AtFile,
         NEW k \in {Memory!Resting, Failing}, locked' = Memory!Nobody, actor' = [actor EXCEPT ![a] = k],
         profile' \in Profile, profile'.scanned = profile.scanned,
         UNCHANGED <<remembered, soul, said, taken>>
  PROVE  /\ MemoryShape' /\ Noticed' /\ Memory!Active' = Memory!Active /\ Memory!OneActivePerTopic'
         /\ \A b \in Memory!Threads : actor'[b] = IF b = a THEN k ELSE actor[b]
  <1>0. k \in Thinking /\ k.at \notin AtFile /\ k.changed = FALSE /\ k.event = 0 /\ k.last = 0
        /\ k.at \notin {"scan", "store"}
    BY RestingFacts, FailingFacts DEF AtFile
  <1>1. actor' \in [Memory!Threads -> Thinking] /\ locked' = Memory!Nobody
        /\ \A b \in Memory!Threads : actor'[b] = IF b = a THEN k ELSE actor[b]
    BY <1>0 DEF MemorySound, MemoryShape
  <1>2. \A b \in Memory!Threads : actor'[b].at \notin AtFile
    BY <1>0, <1>1 DEF MemorySound, MemoryShape, AtFile
  <1>3. Memory!Active' = Memory!Active /\ Memory!OneActivePerTopic'
    BY DEF MemorySound, Memory!MemoryIsTrue, Memory!OneActivePerTopic, Memory!Active
  <1>4. MemoryShape'
    BY <1>0, <1>1, <1>2 DEF MemorySound, MemoryShape, InOrderOf
  <1> QED
    BY <1>1, <1>2, <1>3, <1>4 DEF Noticed

\* The file is made of the rows that were read: it is current, or somebody is on the way.
LEMMA FileMade ==
  ASSUME MemorySound, NEW a \in Memory!Threads, actor[a].at \in AtFile, Memory!Releases(a),
         NEW n \in Nat, profile' = [dirty |-> FALSE, of |-> actor[a].text, rev |-> n, scanned |-> profile.scanned,
                                    whole |-> actor[a].text = actor[a].rows],
         overtaken' = Memory!Overtaken(actor[a].rows),
         UNCHANGED <<remembered, soul, said, taken>>
  PROVE  MemorySound'
  <1>0. actor[a] \in Thinking /\ profile \in Profile
    BY DEF MemorySound, MemoryShape
  <1>1. profile' \in Profile /\ profile'.scanned = profile.scanned /\ profile'.of = actor[a].text
        /\ profile'.whole = (actor[a].text = actor[a].rows)
    BY <1>0 DEF Profile, Thinking
  <1>2. /\ MemoryShape' /\ Noticed' /\ Memory!Active' = Memory!Active /\ Memory!OneActivePerTopic'
        /\ \A b \in Memory!Threads : actor'[b] = IF b = a THEN Memory!Resting ELSE actor[b]
    BY <1>1, LeavesTheFile DEF Memory!Releases, Memory!Sets
  <1>3. /\ actor[a].text \subseteq actor[a].rows
        /\ actor[a].rows = Memory!Active \/ overtaken = "left" \/ \E b \in Memory!Threads \ {a} : Waits(actor[b])
    BY DEF MemorySound, Noticed
  <1>4. CASE actor[a].rows = Memory!Active
    BY <1>1, <1>2, <1>3, <1>4 DEF MemorySound, Memory!MemoryIsTrue, Memory!SoulIsCurrent
  <1>5. CASE actor[a].rows # Memory!Active
    <2>1. overtaken # "left" => Memory!OnTheWay'
      BY <1>2, <1>3, <1>5 DEF Memory!OnTheWay, Waits
    <2> QED
      BY <1>2, <1>5, <2>1 DEF Memory!Overtaken, MemorySound, Memory!MemoryIsTrue, Memory!SoulIsCurrent
  <1> QED
    BY <1>4, <1>5

\* As long as the profile and its file are not valid nothing is promised of them.
LEMMA NotValidThen ==
  ASSUME MemoryShape', Noticed', Memory!OneActivePerTopic', ~Memory!Valid'
  PROVE  MemorySound'
  BY DEF MemorySound, Memory!MemoryIsTrue, Memory!SoulIsCurrent

\* A fact becomes active and its rivals are superseded.
LEMMA ActivatedAlone ==
  ASSUME MemorySound, NEW f \in Facts, remembered' = Memory!Activated(f)
  PROVE  /\ remembered' \in [Facts -> {"none", "active", "pending", "superseded", "deleted"}]
         /\ Memory!OneActivePerTopic'
  <1>1. \A g \in Facts : remembered'[g] = IF g = f THEN "active" ELSE IF g \in Memory!Superseded(f) THEN "superseded" ELSE remembered[g]
    BY DEF Memory!Activated
  <1>2. Memory!OneActivePerTopic'
    BY <1>1 DEF MemorySound, Memory!MemoryIsTrue, Memory!OneActivePerTopic, Memory!Active, Memory!Superseded, Memory!Rivals, Memory!Open
  <1>3. remembered' \in [Facts -> {"none", "active", "pending", "superseded", "deleted"}]
    BY DEF MemorySound, MemoryShape, Memory!Activated
  <1> QED
    BY <1>2, <1>3

\* Rows that are not active leave the others alone.
LEMMA FewerActive ==
  ASSUME MemorySound, Memory!Active' \subseteq Memory!Active
  PROVE  Memory!OneActivePerTopic'
  BY DEF MemorySound, Memory!MemoryIsTrue, Memory!OneActivePerTopic

LEMMA DeletedRows ==
  ASSUME MemorySound, NEW which \in SUBSET Facts,
         remembered' = [f \in Facts |-> IF f \in which THEN "deleted" ELSE remembered[f]]
  PROVE  /\ remembered' \in [Facts -> {"none", "active", "pending", "superseded", "deleted"}]
         /\ Memory!Active' = Memory!Active \ which
  BY DEF MemorySound, MemoryShape, Memory!Active

LEMMA StoreCandidateIsSound ==
  ASSUME MemorySound, NEW a \in {"async", "daily"}, Memory!StoreCandidate(a)
  PROVE  MemorySound'
  <1> DEFINE s == actor[a]
             changed == s.fact # Memory!Nobody /\ Memory!Promoted(s.fact, s.as)
             k == IF a = "daily" THEN [Memory!Resting EXCEPT !.at = "scan", !.event = s.event, !.last = s.last,
                                                           !.changed = s.changed \/ changed]
                  ELSE Memory!Then(a, changed)
             n == IF a = "daily" /\ s.event > profile.scanned THEN s.event ELSE profile.scanned
             d == profile.dirty \/ changed
  <1>1. a \in Memory!Threads /\ s \in Thinking /\ s.at = "store" /\ InOrderOf(a, s) /\ profile \in Profile /\ profile.scanned <= said
    BY DEF Memory!Threads, MemorySound, MemoryShape, Memory!StoreCandidate
  <1>2. k \in Thinking /\ k.at \notin AtFile /\ InOrderOf(a, k) /\ (Waits(s) => Waits(k)) /\ (changed => Waits(k))
    <2>1. s.event \in Nat /\ s.last \in Nat /\ s.event <= said /\ s.last <= said /\ s.changed \in BOOLEAN /\ said \in Nat
          /\ (a = "daily" => s.event <= s.last) /\ (s.changed => a = "daily")
      BY <1>1 DEF Thinking, InOrderOf, MemorySound, MemoryShape
    <2>2. changed \in BOOLEAN
      OBVIOUS
    <2> HIDE DEF changed
    <2>3. CASE a = "daily"
      <3>1. k = [at |-> "scan", event |-> s.event, last |-> s.last, fact |-> Memory!Nobody, as |-> "none",
                 changed |-> s.changed \/ changed, force |-> FALSE, rows |-> {}, text |-> {}]
        BY <2>3 DEF Memory!Resting
      <3>2. s.changed \/ changed \in BOOLEAN
        BY <2>1, <2>2
      <3> HIDE DEF k
      <3> QED
        BY <1>1, <2>1, <2>3, <3>1, <3>2 DEF Thinking, InOrderOf, Waits, AtFile
    <2>4. CASE a # "daily"
      <3>1. k = [at |-> IF changed THEN "rebuild" ELSE "idle", event |-> 0, last |-> 0, fact |-> Memory!Nobody, as |-> "none",
                 changed |-> FALSE, force |-> FALSE, rows |-> {}, text |-> {}]
        BY <2>2, <2>4 DEF Memory!Resting, Memory!Then
      <3> HIDE DEF k
      <3> QED
        BY <1>1, <2>1, <2>4, <3>1 DEF Thinking, InOrderOf, Waits, AtFile
    <2> QED
      BY <2>3, <2>4
  <1>3. n \in Nat /\ n <= said /\ d \in BOOLEAN /\ (profile.dirty => d)
    BY <1>1 DEF Profile, Thinking, InOrderOf
  <1>4. profile' = [[profile EXCEPT !.dirty = d] EXCEPT !.scanned = n]
    BY DEF Memory!StoreCandidate
  <1>5. actor' = [actor EXCEPT ![a] = k]
    BY DEF Memory!StoreCandidate, Memory!Sets
  <1>6. /\ remembered' \in [Facts -> {"none", "active", "pending", "superseded", "deleted"}]
        /\ Memory!OneActivePerTopic' /\ (Memory!Active' # Memory!Active => changed)
    <2>0. remembered \in [Facts -> {"none", "active", "pending", "superseded", "deleted"}]
          /\ Memory!OneActivePerTopic
      BY DEF MemorySound, MemoryShape, Memory!MemoryIsTrue
    <2>1. CASE s.fact = Memory!Nobody \/ (remembered[s.fact] \in Memory!Open /\ ~changed)
      <3>1. remembered' = remembered
        BY <2>1 DEF Memory!StoreCandidate
      <3> QED
        BY <2>0, <3>1 DEF Memory!OneActivePerTopic, Memory!Active
    <2>2. CASE s.fact # Memory!Nobody /\ changed
      <3>1. s.fact \in Facts /\ remembered' = Memory!Activated(s.fact)
        BY <1>1, <2>2 DEF Memory!StoreCandidate, Thinking
      <3> QED
        BY <2>2, <3>1, ActivatedAlone
    <2>3. CASE s.fact # Memory!Nobody /\ ~changed /\ remembered[s.fact] \notin Memory!Open
      <3>1. s.fact \in Facts /\ remembered' = [remembered EXCEPT ![s.fact] = "pending"]
        BY <1>1, <2>3 DEF Memory!StoreCandidate, Thinking
      <3>2. Memory!Active' = Memory!Active
        BY <2>0, <2>3, <3>1 DEF Memory!Active, Memory!Open
      <3> QED
        BY <2>0, <3>1, <3>2, FewerActive
    <2> QED
      BY <2>1, <2>2, <2>3
  <1>7. UNCHANGED <<soul, said, taken, locked, overtaken>> /\ taken' \in Nat /\ taken' <= said
    BY DEF Memory!StoreCandidate, MemorySound, MemoryShape
  <1>8. (Memory!Active' # Memory!Active => d /\ Waits(k)) /\ (Waits(actor[a]) => Waits(k)) /\ actor[a].at \notin AtFile \cup {"error"}
    BY <1>1, <1>2, <1>6 DEF AtFile
  <1> HIDE DEF k, n, d, s, changed
  <1> QED
    BY <1>1, <1>2, <1>3, <1>4, <1>5, <1>6, <1>7, <1>8, ThreadMoves

\* A thread that rests begins what is asked of it.
LEMMA RequestIsSound ==
  ASSUME MemorySound, NEW a \in Memory!Threads, actor[a].at = "idle", NEW changed \in BOOLEAN,
         actor' = [actor EXCEPT ![a] = Memory!Then(a, changed)],
         profile' = [profile EXCEPT !.dirty = @ \/ changed],
         remembered' \in [Facts -> {"none", "active", "pending", "superseded", "deleted"}],
         Memory!OneActivePerTopic', Memory!Active' # Memory!Active => changed,
         UNCHANGED <<soul, said, taken, locked, overtaken>>
  PROVE  MemorySound'
  <1> DEFINE k == Memory!Then(a, changed)  d == profile.dirty \/ changed
  <1>1. k \in Thinking /\ k.at \notin AtFile /\ InOrderOf(a, k) /\ (changed => Waits(k))
    <2>1. k = [at |-> IF changed THEN "rebuild" ELSE "idle", event |-> 0, last |-> 0, fact |-> Memory!Nobody, as |-> "none",
               changed |-> FALSE, force |-> FALSE, rows |-> {}, text |-> {}]
      BY DEF Memory!Resting, Memory!Then
    <2> HIDE DEF k
    <2> QED
      BY <2>1 DEF Thinking, InOrderOf, Waits, AtFile, MemorySound, MemoryShape
  <1>2. profile \in Profile /\ profile.scanned \in Nat /\ profile.scanned <= said /\ d \in BOOLEAN /\ (profile.dirty => d)
    BY DEF MemorySound, MemoryShape, Profile
  <1>3. profile' = [[profile EXCEPT !.dirty = d] EXCEPT !.scanned = profile.scanned]
    BY <1>2 DEF Profile
  <1>4. ~Waits(actor[a]) /\ actor[a].at \notin AtFile \cup {"error"}
    BY DEF MemorySound, MemoryShape, InOrderOf, Waits, AtFile
  <1>5. taken' \in Nat /\ taken' <= said
    BY DEF MemorySound, MemoryShape
  <1>6. Memory!Active' # Memory!Active => d /\ Waits(k)
    BY <1>1
  <1>7. actor' = [actor EXCEPT ![a] = k]
    OBVIOUS
  <1> HIDE DEF k, d
  <1> QED
    BY <1>1, <1>2, <1>3, <1>4, <1>5, <1>6, <1>7, ThreadMoves

\* The judged message, as the two threads carry it.
LEMMA VerdictIsSound ==
  ASSUME MemorySound, NEW a \in Memory!Threads, NEW s \in Thinking, Memory!Verdict(a, s),
         InOrderOf(a, [s EXCEPT !.at = "store"]), s.at \in {"idle", "scan"}, actor[a].at \notin AtFile \cup {"error"},
         Waits(actor[a]) => s.changed,
         taken' \in Nat, taken' <= said, UNCHANGED <<remembered, profile, soul, said, locked, overtaken>>
  PROVE  MemorySound'
  <1>1. PICK k \in Thinking : /\ actor' = [actor EXCEPT ![a] = k] /\ k.at = "store"
                              /\ k.event = s.event /\ k.last = s.last /\ k.changed = s.changed
    <2>1. CASE Memory!Sets(a, [s EXCEPT !.at = "store"])
      <3>1. [s EXCEPT !.at = "store"] \in Thinking
        BY DEF Thinking, AtFile
      <3> QED
        BY <2>1, <3>1 DEF Memory!Sets, Thinking
    <2>2. CASE \E f \in Facts, as \in Memory!Open : Memory!Sets(a, [s EXCEPT !.at = "store", !.fact = f, !.as = as])
      <3>1. PICK f \in Facts, as \in Memory!Open : actor' = [actor EXCEPT ![a] = [s EXCEPT !.at = "store", !.fact = f, !.as = as]]
        BY <2>2 DEF Memory!Sets
      <3>2. [s EXCEPT !.at = "store", !.fact = f, !.as = as] \in Thinking
        BY <3>1 DEF Thinking, AtFile, Memory!Open
      <3> QED
        BY <3>1, <3>2 DEF Thinking
    <2> QED
      BY <2>1, <2>2 DEF Memory!Verdict
  <1>2. InOrderOf(a, k) /\ k.at \notin AtFile /\ (Waits(actor[a]) => Waits(k))
    BY <1>1 DEF InOrderOf, AtFile, Thinking, Waits
  <1> QED
    BY <1>1, <1>2, OnlyThreadMoves

LEMMA ScanNextIsSound ==
  ASSUME MemorySound, Memory!ScanNext
  PROVE  MemorySound'
  <1> DEFINE s == actor["daily"]
  <1>1. "daily" \in Memory!Threads /\ s \in Thinking /\ s.at = "scan" /\ InOrderOf("daily", s) /\ s.at \notin AtFile \cup {"error"}
    BY DEF Memory!Threads, MemorySound, MemoryShape, Memory!ScanNext, AtFile
  <1>2. UNCHANGED <<remembered, profile, soul, said, locked, overtaken>> /\ taken' \in Nat /\ taken' <= said
    BY DEF Memory!ScanNext, MemorySound, MemoryShape
  <1>3. CASE Memory!Sets("daily", Memory!Then("daily", s.changed))
    <2> DEFINE k == Memory!Then("daily", s.changed)
    <2>1. k = [at |-> IF s.changed THEN "rebuild" ELSE "idle", event |-> 0, last |-> 0, fact |-> Memory!Nobody, as |-> "none",
               changed |-> FALSE, force |-> FALSE, rows |-> {}, text |-> {}]
      BY <1>1 DEF Memory!Resting, Memory!Then, Thinking
    <2>2. actor' = [actor EXCEPT !["daily"] = k]
      BY <1>3 DEF Memory!Sets
    <2> HIDE DEF k
    <2>3. k \in Thinking /\ k.at \notin AtFile /\ InOrderOf("daily", k) /\ (Waits(s) => Waits(k))
      BY <1>1, <2>1 DEF Thinking, InOrderOf, Waits, AtFile, MemorySound, MemoryShape
    <2> QED
      BY <1>1, <1>2, <2>2, <2>3, OnlyThreadMoves
  <1>4. CASE s.event # s.last /\ Memory!Verdict("daily", [s EXCEPT !.event = @ + 1])
    <2> DEFINE b == [s EXCEPT !.event = @ + 1]
    <2>1. b \in Thinking /\ b.at = "scan" /\ b.changed = s.changed /\ b.event = s.event + 1 /\ b.last = s.last
      BY <1>1 DEF Thinking
    <2>2. s.event + 1 <= s.last /\ s.last <= said
      BY <1>1, <1>4 DEF InOrderOf, Thinking
    <2> HIDE DEF b
    <2>3. InOrderOf("daily", [b EXCEPT !.at = "store"])
      BY <2>1, <2>2, <1>1 DEF InOrderOf, Thinking, MemorySound, MemoryShape
    <2>4. Waits(s) => b.changed
      BY <1>1, <2>1 DEF Waits
    <2>5. Memory!Verdict("daily", b)
      BY <1>4 DEF b
    <2> QED
      BY <1>1, <1>2, <2>1, <2>3, <2>4, <2>5, VerdictIsSound
  <1> QED
    BY <1>3, <1>4 DEF Memory!ScanNext

LEMMA ExtractNextIsSound ==
  ASSUME MemorySound, Memory!ExtractNext
  PROVE  MemorySound'
  <1>1. "async" \in Memory!Threads /\ actor["async"] \in Thinking /\ actor["async"].at = "idle" /\ actor["async"].at \notin AtFile \cup {"error"}
    BY DEF Memory!Threads, MemorySound, MemoryShape, Memory!ExtractNext, AtFile
  <1>2. UNCHANGED <<remembered, profile, soul, said, locked, overtaken>> /\ taken' \in Nat /\ taken' <= said /\ taken' = taken + 1
    BY DEF Memory!ExtractNext, MemorySound, MemoryShape
  <1>3. CASE UNCHANGED actor
    <2>1. actor' = [actor EXCEPT !["async"] = actor["async"]]
      BY <1>1, <1>3 DEF MemorySound, MemoryShape
    <2>2. InOrderOf("async", actor["async"])
      BY <1>1 DEF MemorySound, MemoryShape
    <2> QED
      BY <1>1, <1>2, <2>1, <2>2, OnlyThreadMoves
  <1>4. CASE Memory!Verdict("async", [Memory!Resting EXCEPT !.event = taken + 1])
    <2> DEFINE b == [Memory!Resting EXCEPT !.event = taken + 1]
    <2>1. taken + 1 \in Nat /\ taken + 1 <= said /\ 0 <= said
      BY <1>2 DEF MemorySound, MemoryShape
    <2>2. Memory!Verdict("async", b)
      BY <1>4
    <2>3. b \in Thinking /\ b.at = "idle" /\ b.event = taken + 1 /\ b.last = 0 /\ b.changed = FALSE
      BY <2>1, RestingFacts DEF Thinking
    <2> HIDE DEF b
    <2>5. InOrderOf("async", [b EXCEPT !.at = "store"])
      BY <2>1, <2>3 DEF Thinking, InOrderOf
    <2>4. ~Waits(actor["async"])
      BY <1>1 DEF MemorySound, MemoryShape, InOrderOf, Waits
    <2> QED
      BY <1>1, <1>2, <2>1, <2>2, <2>3, <2>4, <2>5, VerdictIsSound
  <1> QED
    BY <1>3, <1>4 DEF Memory!ExtractNext

LEMMA ReadRowsIsSound ==
  ASSUME MemorySound, NEW a \in Memory!Threads, Memory!ReadRows(a)
  PROVE  MemorySound'
  <1>1. PICK text \in SUBSET Memory!Active :
          actor' = [actor EXCEPT ![a] = [Memory!Resting EXCEPT !.at = "write", !.rows = Memory!Active, !.text = text]]
    <2>1. PICK text \in {Memory!Active} \cup (IF actor[a].force THEN SUBSET Memory!Active \ {{}} ELSE {}) :
            actor' = [actor EXCEPT ![a] = [Memory!Resting EXCEPT !.at = "write", !.rows = Memory!Active, !.text = text]]
      BY DEF Memory!ReadRows, Memory!Sets
    <2>2. text \in SUBSET Memory!Active
      BY <2>1
    <2> QED
      BY <2>1, <2>2
  <1> DEFINE b == [Memory!Resting EXCEPT !.at = "write", !.rows = Memory!Active, !.text = text]
  <1>2. b \in Thinking /\ b.at = "write" /\ b.rows = Memory!Active /\ b.text = text /\ b.changed = FALSE /\ b.event = 0 /\ b.last = 0
    BY RestingFacts DEF Thinking, AtFile, Memory!Active
  <1>3. actor' = [actor EXCEPT ![a] = b]
    BY <1>1
  <1> HIDE DEF b
  <1>4. actor' \in [Memory!Threads -> Thinking] /\ \A c \in Memory!Threads : actor'[c] = IF c = a THEN b ELSE actor[c]
    BY <1>2, <1>3 DEF MemorySound, MemoryShape
  <1>5. \A c \in Memory!Threads : actor[c].at \notin AtFile
    BY RestingFacts DEF MemorySound, MemoryShape, Memory!ReadRows
  <1>6. Memory!Active' = Memory!Active /\ Memory!OneActivePerTopic'
    BY DEF MemorySound, Memory!MemoryIsTrue, Memory!OneActivePerTopic, Memory!Active, Memory!ReadRows
  <1>7. /\ locked' = a /\ UNCHANGED <<remembered, profile, soul, said, taken>>
        /\ actor[a].at = "rebuild" /\ overtaken' = IF Memory!Valid THEN overtaken ELSE "no"
    BY DEF Memory!ReadRows
  <1>8. said \in Nat /\ InOrderOf(a, b)
    BY <1>2, <1>7 DEF InOrderOf, MemorySound, MemoryShape
  <1>9. \A c \in Memory!Threads : InOrderOf(c, actor'[c])
    BY <1>4, <1>7, <1>8 DEF InOrderOf, MemorySound, MemoryShape
  <1>10. MemoryShape'
    BY <1>2, <1>4, <1>5, <1>7, <1>9 DEF MemorySound, MemoryShape, AtFile, InOrderOf
  <1>11. Noticed'
    BY <1>2, <1>4, <1>5, <1>6 DEF Noticed
  <1>12. Memory!OnTheWay'
    BY <1>2, <1>4 DEF Memory!OnTheWay
  <1>13. Memory!SoulIsCurrent'
    BY <1>6, <1>7, <1>12 DEF Memory!SoulIsCurrent, MemorySound, Memory!MemoryIsTrue, Memory!Valid, Memory!Damaged
  <1> QED
    BY <1>6, <1>10, <1>11, <1>13 DEF MemorySound, Memory!MemoryIsTrue

LEMMA MakesTheFile ==
  ASSUME MemorySound, NEW a \in Memory!Threads, Memory!LeaveFile(a) \/ Memory!Commit(a)
  PROVE  MemorySound'
  <1>0. profile \in Profile
    BY DEF MemorySound, MemoryShape
  <1>1. CASE Memory!LeaveFile(a)
    <2>1. profile.of = actor[a].text /\ actor[a].at \in AtFile /\ profile.rev \in Nat
      BY <1>0, <1>1 DEF Memory!LeaveFile, Memory!IsThere, AtFile, Profile
    <2>2. profile' = [dirty |-> FALSE, of |-> actor[a].text, rev |-> profile.rev, scanned |-> profile.scanned,
                      whole |-> actor[a].text = actor[a].rows]
      BY <1>0, <1>1, <2>1 DEF Memory!LeaveFile, Profile
    <2>3. /\ overtaken' = Memory!Overtaken(actor[a].rows) /\ Memory!Releases(a)
          /\ UNCHANGED <<remembered, soul, said, taken>>
      BY <1>1 DEF Memory!LeaveFile
    <2> QED
      BY <2>1, <2>2, <2>3, FileMade
  <1>2. CASE Memory!Commit(a)
    <2>1. actor[a].at \in AtFile /\ profile.rev + 1 \in Nat
      BY <1>0, <1>2 DEF Memory!Commit, AtFile, Profile
    <2>2. profile' = [dirty |-> FALSE, of |-> actor[a].text, rev |-> profile.rev + 1, scanned |-> profile.scanned,
                      whole |-> actor[a].text = actor[a].rows]
      BY <1>0, <1>2, <2>1 DEF Memory!Commit, Profile
    <2>3. /\ overtaken' = Memory!Overtaken(actor[a].rows) /\ Memory!Releases(a)
          /\ UNCHANGED <<remembered, soul, said, taken>>
      BY <1>2 DEF Memory!Commit
    <2> QED
      BY <2>1, <2>2, <2>3, FileMade
  <1> QED
    BY <1>1, <1>2

LEMMA WriteFileIsSound ==
  ASSUME MemorySound, NEW a \in Memory!Threads, Memory!WriteFile(a)
  PROVE  MemorySound'
  <1> DEFINE b == [actor[a] EXCEPT !.at = "commit"]
  <1>0. profile \in Profile /\ actor[a] \in Thinking /\ actor[a].at = "write"
    BY DEF MemorySound, MemoryShape, Memory!WriteFile
  <1>1. b \in Thinking /\ b.at = "commit" /\ b.rows = actor[a].rows /\ b.text = actor[a].text
        /\ b.changed = actor[a].changed /\ b.event = actor[a].event /\ b.last = actor[a].last
    BY <1>0 DEF Thinking, AtFile
  <1>2. /\ actor' = [actor EXCEPT ![a] = b] /\ soul' = [of |-> actor[a].text, rev |-> profile.rev + 1]
        /\ UNCHANGED <<remembered, profile, said, taken, locked, overtaken>>
    BY DEF Memory!WriteFile, Memory!Sets
  <1> HIDE DEF b
  <1>3. actor' \in [Memory!Threads -> Thinking] /\ \A c \in Memory!Threads : actor'[c] = IF c = a THEN b ELSE actor[c]
    BY <1>1, <1>2 DEF MemorySound, MemoryShape
  <1>4. soul' \in [of : SUBSET Facts, rev : Nat]
    BY <1>0, <1>2 DEF Thinking, Profile
  <1>5. InOrderOf(a, b)
    BY <1>0, <1>1 DEF InOrderOf, MemorySound, MemoryShape
  <1>6. MemoryShape'
    BY <1>0, <1>1, <1>2, <1>3, <1>4, <1>5 DEF MemorySound, MemoryShape, AtFile, InOrderOf
  <1>7. Memory!Active' = Memory!Active /\ Memory!OneActivePerTopic'
    BY <1>2 DEF MemorySound, Memory!MemoryIsTrue, Memory!OneActivePerTopic, Memory!Active
  <1>8. Noticed'
    <2>1. \A c \in Memory!Threads : Waits(actor[c]) => Waits(actor'[c])
      BY <1>0, <1>1, <1>3 DEF Waits
    <2> QED
      BY <1>0, <1>1, <1>2, <1>3, <1>7, <2>1 DEF Noticed, MemorySound, AtFile
  <1>9. ~Memory!Valid'
    <2>1. soul'.rev = profile.rev + 1 /\ profile'.rev = profile.rev /\ profile.rev \in Nat
      BY <1>0, <1>2 DEF Profile
    <2> QED
      BY <2>1 DEF Memory!Valid
  <1> QED
    BY <1>6, <1>7, <1>8, <1>9, NotValidThen

LEMMA MishapsAreSound ==
  ASSUME MemorySound, Memory!Damage \/ \E a \in Memory!Threads : Memory!Raise(a)
  PROVE  MemorySound'
  <1>1. CASE Memory!Damage
    <2>1. /\ soul' = Memory!Damaged /\ UNCHANGED <<remembered, profile, said, taken, actor, locked, overtaken>>
      BY <1>1 DEF Memory!Damage
    <2>2. ~Memory!Valid' /\ soul' \in [of : SUBSET Facts, rev : Nat]
      BY <2>1 DEF Memory!Valid, Memory!Damaged
    <2>3. Memory!Active' = Memory!Active /\ Memory!OneActivePerTopic'
      BY <2>1 DEF MemorySound, Memory!MemoryIsTrue, Memory!OneActivePerTopic, Memory!Active
    <2>4. MemoryShape' /\ Noticed'
      BY <2>1, <2>2, <2>3 DEF MemorySound, MemoryShape, Noticed, InOrderOf
    <2> QED
      BY <2>2, <2>3, <2>4, NotValidThen
  <1>2. ASSUME NEW a \in Memory!Threads, Memory!Raise(a) PROVE MemorySound'
    <2>1. /\ actor[a].at \in AtFile /\ locked' = Memory!Nobody /\ actor' = [actor EXCEPT ![a] = Failing]
          /\ UNCHANGED <<remembered, profile, soul, said, taken, overtaken>>
      BY <1>2 DEF Memory!Raise, AtFile, Memory!Sets, Failing
    <2>2. profile' \in Profile /\ profile'.scanned = profile.scanned /\ Memory!Valid' = Memory!Valid
      BY <2>1 DEF MemorySound, MemoryShape, Memory!Valid, Memory!Damaged
    <2>3. /\ MemoryShape' /\ Noticed' /\ Memory!Active' = Memory!Active /\ Memory!OneActivePerTopic'
          /\ \A b \in Memory!Threads : actor'[b] = IF b = a THEN Failing ELSE actor[b]
      BY <2>1, <2>2, LeavesTheFile
    <2>4. Memory!OnTheWay'
      BY <2>3, FailingFacts DEF Memory!OnTheWay
    <2> QED
      BY <2>1, <2>2, <2>3, <2>4 DEF MemorySound, Memory!MemoryIsTrue, Memory!SoulIsCurrent
  <1> QED
    BY <1>1, <1>2

\* A thread that gives up its changes, or that noted its error in vain, leaves the file as it is.
LEMMA EndsWithout ==
  ASSUME MemorySound, NEW a \in Memory!Threads, actor' = [actor EXCEPT ![a] = Memory!Resting],
         actor[a].at \in {"scan", "store", "error"},
         overtaken' = (IF actor[a].changed \/ (actor[a].at = "error" /\ overtaken = "yes") THEN "left" ELSE overtaken),
         UNCHANGED <<remembered, profile, soul, said, taken, locked>>
  PROVE  MemorySound'
  <1>1. actor' \in [Memory!Threads -> Thinking]
        /\ \A b \in Memory!Threads : actor'[b] = IF b = a THEN Memory!Resting ELSE actor[b]
    BY RestingFacts DEF MemorySound, MemoryShape
  <1>2. Memory!Active' = Memory!Active /\ Memory!OneActivePerTopic' /\ Memory!Valid' = Memory!Valid
    BY DEF MemorySound, Memory!MemoryIsTrue, Memory!OneActivePerTopic, Memory!Active, Memory!Valid, Memory!Damaged
  <1>3. MemoryShape'
    BY <1>1, RestingFacts DEF MemorySound, MemoryShape, InOrderOf, AtFile
  <1>4. Noticed'
    <2>1. overtaken' # "left" => \A b \in Memory!Threads : Waits(actor[b]) => Waits(actor'[b])
      BY <1>1 DEF Waits
    <2>2. overtaken = "left" => overtaken' = "left"
      OBVIOUS
    <2> QED
      BY <1>1, <1>2, <2>1, <2>2, RestingFacts DEF MemorySound, Noticed, AtFile
  <1>5. overtaken' = "yes" /\ Memory!OnTheWay => Memory!OnTheWay'
    BY <1>1 DEF Memory!OnTheWay
  <1>6. Memory!SoulIsCurrent'
    BY <1>2, <1>5 DEF MemorySound, Memory!MemoryIsTrue, Memory!SoulIsCurrent
  <1> QED
    BY <1>2, <1>3, <1>4, <1>6 DEF MemorySound, Memory!MemoryIsTrue

LEMMA GivesUpIsSound ==
  ASSUME MemorySound, NEW a \in {"async", "daily"}, Memory!GivesUp(a)
  PROVE  MemorySound'
  <1>1. a \in Memory!Threads /\ actor' = [actor EXCEPT ![a] = Memory!Resting] /\ actor[a].at \in {"scan", "store"}
        /\ overtaken' = (IF actor[a].changed THEN "left" ELSE overtaken)
        /\ UNCHANGED <<remembered, profile, soul, said, taken, locked>>
    BY DEF Memory!GivesUp, Memory!Sets, Memory!Threads
  <1> QED
    BY <1>1, EndsWithout

LEMMA RecordErrorIsSound ==
  ASSUME MemorySound, NEW a \in Memory!Threads, Memory!RecordError(a)
  PROVE  MemorySound'
  <1>1. /\ actor' = [actor EXCEPT ![a] = Memory!Resting] /\ actor[a].at = "error"
        /\ UNCHANGED <<remembered, soul, said, taken, locked>> /\ ~actor[a].changed
    BY DEF Memory!RecordError, Memory!Sets, MemorySound, MemoryShape, InOrderOf
  <1>2. CASE overtaken' = Memory!LeftBehind /\ UNCHANGED profile
    BY <1>1, <1>2, EndsWithout DEF Memory!LeftBehind
  <1>3. CASE Memory!MarkDirty /\ UNCHANGED overtaken
    <2>1. profile' = [profile EXCEPT !.dirty = TRUE] /\ profile' \in Profile /\ profile'.scanned = profile.scanned
          /\ ~Memory!Valid'
      BY <1>3 DEF Memory!MarkDirty, MemorySound, MemoryShape, Profile, Memory!Valid
    <2>2. actor' \in [Memory!Threads -> Thinking]
          /\ \A b \in Memory!Threads : actor'[b] = IF b = a THEN Memory!Resting ELSE actor[b]
      BY <1>1, RestingFacts DEF MemorySound, MemoryShape
    <2>3. Memory!Active' = Memory!Active /\ Memory!OneActivePerTopic'
      BY <1>1 DEF MemorySound, Memory!MemoryIsTrue, Memory!OneActivePerTopic, Memory!Active
    <2>4. MemoryShape'
      BY <1>1, <2>1, <2>2, RestingFacts DEF MemorySound, MemoryShape, InOrderOf, AtFile
    <2>5. \A b \in Memory!Threads : Waits(actor[b]) => Waits(actor'[b])
      BY <1>1, <2>2 DEF Waits
    <2>6. Noticed'
      BY <1>3, <2>2, <2>3, <2>5, RestingFacts DEF MemorySound, Noticed, AtFile
    <2> QED
      BY <2>1, <2>3, <2>4, <2>6, NotValidThen
  <1> QED
    BY <1>2, <1>3 DEF Memory!RecordError

LEMMA CrashIsSound ==
  ASSUME MemorySound, Memory!Crash
  PROVE  MemorySound'
  <1>1. UNCHANGED <<remembered, profile, soul, said>> /\ locked' = Memory!Nobody /\ taken' = said
        /\ overtaken' = IF overtaken = "yes" THEN "left" ELSE overtaken
    BY DEF Memory!Crash, Memory!LeftBehind
  <1> DEFINE w == [Memory!Resting EXCEPT !.at = "rebuild"]
  <1>2. w \in Thinking /\ w.at = "rebuild" /\ w.event = 0 /\ w.last = 0 /\ w.changed = FALSE
    BY RestingFacts DEF Thinking
  <1>3. \A a \in Memory!Threads : actor'[a] \in {w, Memory!Resting}
    BY DEF Memory!Crash, Memory!Then
  <1>4. actor' = [a \in Memory!Threads |-> IF a = "daily" /\ ~Memory!Valid THEN Memory!Then(a, TRUE) ELSE Memory!Resting]
    BY DEF Memory!Crash
  <1> HIDE DEF w
  <1>5. actor' \in [Memory!Threads -> Thinking]
    BY <1>2, <1>3, <1>4, RestingFacts
  <1>6. \A a \in Memory!Threads : actor'[a].at \notin AtFile
    BY <1>2, <1>3, RestingFacts DEF AtFile
  <1>7. \A a \in Memory!Threads : InOrderOf(a, actor'[a])
    BY <1>1, <1>2, <1>3, RestingFacts DEF InOrderOf, MemorySound, MemoryShape
  <1>8. MemoryShape'
    BY <1>1, <1>5, <1>6, <1>7 DEF MemorySound, MemoryShape, InOrderOf
  <1>9. Memory!Active' = Memory!Active /\ Memory!OneActivePerTopic' /\ Memory!Valid' = Memory!Valid
    BY <1>1 DEF MemorySound, Memory!MemoryIsTrue, Memory!OneActivePerTopic, Memory!Active, Memory!Valid, Memory!Damaged
  <1>10. Memory!SoulIsCurrent'
    BY <1>1, <1>9 DEF Memory!SoulIsCurrent, MemorySound, Memory!MemoryIsTrue
  <1> QED
    BY <1>6, <1>8, <1>9, <1>10 DEF MemorySound, Memory!MemoryIsTrue, Noticed

LEMMA MemorySoundNext == MemorySound /\ [ServicesNext]_parts => MemorySound'
  <1> SUFFICES ASSUME MemorySound, [Memory!Next]_memoryVars PROVE MemorySound'
    BY MemorySteps
  <1>0. \A a \in Users \cup {"async", "daily"} : a \in Memory!Threads
    BY DEF Memory!Threads
  <1>1. CASE UNCHANGED memoryVars
    BY <1>1 DEF memoryVars, MemorySound, MemoryShape, Noticed, InOrderOf, Memory!MemoryIsTrue, Memory!OneActivePerTopic,
       Memory!SoulIsCurrent, Memory!Valid, Memory!Active, Memory!OnTheWay, Memory!Damaged
  <1>2. CASE Memory!Say
    <2>1. said' = said + 1 /\ UNCHANGED <<remembered, profile, soul, taken, actor, locked, overtaken>>
      BY <1>2 DEF Memory!Say
    <2>2. MemoryShape'
      BY <2>1 DEF MemorySound, MemoryShape, InOrderOf, Profile, Thinking
    <2> QED
      BY <2>1, <2>2 DEF MemorySound, Noticed, Memory!MemoryIsTrue, Memory!OneActivePerTopic,
         Memory!SoulIsCurrent, Memory!Valid, Memory!Active, Memory!OnTheWay, Memory!Damaged
  <1>3. CASE Memory!StartScan
    <2> DEFINE b == [Memory!Resting EXCEPT !.at = "scan", !.event = profile.scanned, !.last = said]
    <2>1. profile.scanned \in Nat /\ said \in Nat /\ profile.scanned <= said
      BY DEF MemorySound, MemoryShape, Profile
    <2>2. b \in Thinking /\ b.at = "scan" /\ b.event = profile.scanned /\ b.last = said /\ b.changed = FALSE
      BY <2>1, RestingFacts DEF Thinking
    <2>3. actor' = [actor EXCEPT !["daily"] = b] /\ actor["daily"].at = "idle"
          /\ UNCHANGED <<remembered, profile, soul, said, taken, locked, overtaken>>
      BY <1>3 DEF Memory!StartScan, Memory!Sets
    <2> HIDE DEF b
    <2>4. InOrderOf("daily", b) /\ b.at \notin AtFile /\ ~Waits(actor["daily"]) /\ actor["daily"].at \notin AtFile \cup {"error"}
      BY <1>0, <2>1, <2>2, <2>3 DEF InOrderOf, AtFile, Waits, MemorySound, MemoryShape
    <2> QED
      BY <1>0, <2>2, <2>3, <2>4, OnlyThreadMoves DEF MemorySound, MemoryShape
  <1>4. CASE Memory!StartCompaction
    <2> DEFINE b == [Memory!Resting EXCEPT !.at = "rebuild", !.force = TRUE]
    <2>2. b \in Thinking /\ b.at = "rebuild" /\ b.event = 0 /\ b.last = 0 /\ b.changed = FALSE
      BY RestingFacts DEF Thinking
    <2>3. actor' = [actor EXCEPT !["daily"] = b] /\ actor["daily"].at = "idle"
          /\ UNCHANGED <<remembered, profile, soul, said, taken, locked, overtaken>>
      BY <1>4 DEF Memory!StartCompaction, Memory!Sets
    <2> HIDE DEF b
    <2>4. InOrderOf("daily", b) /\ b.at \notin AtFile /\ ~Waits(actor["daily"]) /\ actor["daily"].at \notin AtFile \cup {"error"}
      BY <1>0, <2>2, <2>3 DEF InOrderOf, AtFile, Waits, MemorySound, MemoryShape
    <2> QED
      BY <1>0, <2>2, <2>3, <2>4, OnlyThreadMoves DEF MemorySound, MemoryShape
  <1>5. ASSUME NEW a \in Users, Memory!GetSoul(a) PROVE MemorySound'
    <2> DEFINE b == [Memory!Resting EXCEPT !.at = "rebuild"]
    <2>1. a \in Memory!Threads
      BY <1>0
    <2>2. b \in Thinking /\ b.at = "rebuild" /\ b.event = 0 /\ b.last = 0 /\ b.changed = FALSE
      BY RestingFacts DEF Thinking
    <2>3. actor' = [actor EXCEPT ![a] = b] /\ actor[a].at = "idle"
          /\ UNCHANGED <<remembered, profile, soul, said, taken, locked, overtaken>>
      BY <1>5 DEF Memory!GetSoul, Memory!Sets, Memory!Then
    <2> HIDE DEF b
    <2>4. InOrderOf(a, b) /\ b.at \notin AtFile /\ ~Waits(actor[a]) /\ actor[a].at \notin AtFile \cup {"error"}
      BY <2>1, <2>2, <2>3 DEF InOrderOf, AtFile, Waits, MemorySound, MemoryShape
    <2> QED
      BY <2>1, <2>2, <2>3, <2>4, OnlyThreadMoves DEF MemorySound, MemoryShape
  <1>6. ASSUME NEW a \in Users, NEW f \in Facts, Memory!Confirm(a, f) PROVE MemorySound'
    <2>1. a \in Memory!Threads /\ actor[a].at = "idle" /\ actor' = [actor EXCEPT ![a] = Memory!Then(a, TRUE)]
          /\ profile' = [profile EXCEPT !.dirty = TRUE] /\ UNCHANGED <<soul, said, taken, locked, overtaken>>
      BY <1>0, <1>6 DEF Memory!Confirm, Memory!Asks, Memory!MarkDirty, Memory!Sets
    <2>2. profile' = [profile EXCEPT !.dirty = @ \/ TRUE]
      BY <2>1
    <2>3. /\ remembered' \in [Facts -> {"none", "active", "pending", "superseded", "deleted"}]
          /\ Memory!OneActivePerTopic'
      BY <1>6, ActivatedAlone DEF Memory!Confirm
    <2> QED
      BY <2>1, <2>2, <2>3, RequestIsSound
  <1>7. ASSUME NEW a \in Users, NEW which \in SUBSET Facts, Memory!Delete(a, which) PROVE MemorySound'
    <2> DEFINE changed == which \cap Memory!Active # {}
    <2>1. a \in Memory!Threads /\ actor[a].at = "idle" /\ actor' = [actor EXCEPT ![a] = Memory!Then(a, changed)]
          /\ profile' = [profile EXCEPT !.dirty = @ \/ changed] /\ UNCHANGED <<soul, said, taken, locked, overtaken>>
      BY <1>0, <1>7 DEF Memory!Delete, Memory!Asks, Memory!Marked, Memory!Sets
    <2>2. remembered' = [f \in Facts |-> IF f \in which THEN "deleted" ELSE remembered[f]]
      BY <1>7 DEF Memory!Delete
    <2>3. /\ remembered' \in [Facts -> {"none", "active", "pending", "superseded", "deleted"}]
          /\ Memory!Active' = Memory!Active \ which
      BY <2>2, DeletedRows
    <2>4. Memory!OneActivePerTopic' /\ (Memory!Active' # Memory!Active => changed)
      BY <2>3, FewerActive
    <2>5. changed \in BOOLEAN
      OBVIOUS
    <2> HIDE DEF changed
    <2> QED
      BY <2>1, <2>3, <2>4, <2>5, RequestIsSound
  <1>8. {f \in Facts : remembered[f] \in Memory!Open} \in SUBSET Facts /\ \A f \in Facts : {f} \in SUBSET Facts
    OBVIOUS
  <1>9. ASSUME NEW a \in Memory!Threads, Memory!RebuildStep(a) PROVE MemorySound'
    BY <1>9, ReadRowsIsSound, MakesTheFile, WriteFileIsSound, RecordErrorIsSound DEF Memory!RebuildStep
  <1> QED
    BY <1>1, <1>2, <1>3, <1>4, <1>5, <1>6, <1>7, <1>8, <1>9, ExtractNextIsSound, ScanNextIsSound, StoreCandidateIsSound,
       MishapsAreSound, GivesUpIsSound, CrashIsSound DEF Memory!Next

LEMMA MemoryShapeTyped ==
  ASSUME MemoryShape
  PROVE  Memory!MemoryTypeOK
  BY DEF MemoryShape, Memory!MemoryTypeOK, AtFile, Profile


-----------------------------------------------------------------------------
(* PlatformResources: the process runs what the catalog says is active.      *)

LEMMA CatalogSteps ==
  ASSUME [ServicesNext]_parts
  PROVE  [Catalog!Next]_catalogVars
  BY DEF ServicesNext, Rest, parts, catalogVars

Publishable == UNION {Payloads[r] : r \in Resources}
CatalogStates == {"absent", "inactive", "active", "failed", "restart_required"}
CatalogRow == [versions : Seq(Publishable), published : Nat, active : Nat, state : CatalogStates]
Editing == [pc : {"idle", "publish", "apply", "write", "delete", "erase"},
            res : Resources \cup {Catalog!None}, rev : 0 .. MaxRevision]
Activating == {"apply", "write", "erase"}

\* What a row says of resource r: versions of it, pointers among them; and a version is
\* active only if one was published.
RowOf(r, entry) ==
  /\ entry \in CatalogRow /\ Len(entry.versions) <= MaxRevision
  /\ \A n \in 1 .. Len(entry.versions) : entry.versions[n] \in Payloads[r]
  /\ entry.published <= Len(entry.versions) /\ entry.active <= Len(entry.versions)
  /\ entry.published = 0 => entry.active = 0
  /\ entry.active # entry.published => entry.state \in {"restart_required", "failed"}

CatalogShape ==
  /\ catalog \in [Resources -> CatalogRow] /\ \A r \in Resources : RowOf(r, catalog[r])
  /\ running \in [Resources -> Publishable \cup {Catalog!None}]
  /\ \A r \in Resources : running[r] \in Payloads[r] \cup {Catalog!None}
  /\ editor \in [Editors -> Editing] /\ activating \in Editors \cup {Catalog!None} /\ boots \in 0 .. MaxBoots
  /\ unrecorded \subseteq Resources
  /\ \A e \in Editors :
       /\ editor[e].pc # "idle" => editor[e].res \in Resources
       /\ editor[e].pc \in Activating <=> activating = e
       /\ editor[e].pc \in {"publish", "apply", "write"} => editor[e].rev # 0
       /\ editor[e].pc \in {"apply", "write"} => editor[e].rev <= Len(catalog[editor[e].res].versions)

Hot == {"skill", "embedding", "settings"}
\* What the process runs of x: between the handler and the pointers, what the one
\* who holds the lock publishes or deletes.
Wanted(x) ==
  CASE activating # Catalog!None /\ editor[activating].pc = "write" /\ x = editor[activating].res /\ Kind[x] # "embedding"
         -> Catalog!At(catalog[x], editor[activating].rev)
    [] activating # Catalog!None /\ editor[activating].pc = "erase" /\ x = editor[activating].res -> Catalog!None
    [] OTHER -> Catalog!Active(x)

\* ... which the handler has made so, even if an earlier change of x went unrecorded.
InHand(x) ==
  /\ activating # Catalog!None /\ x = editor[activating].res
  /\ editor[activating].pc = "erase" \/ (editor[activating].pc = "write" /\ Kind[x] # "embedding")
Counts(x) == Kind[x] \in Hot /\ (x \notin unrecorded \/ InHand(x))

Agreed == \A x \in Resources : Counts(x) => running[x] = Wanted(x)

CatalogSound == CatalogShape /\ Agreed

LEMMA NamesApart ==
  /\ Catalog!None \notin Editors /\ Publishable \in SUBSET (UNION {Payloads[r] : r \in Resources})
  /\ \A r \in Resources : Catalog!None \notin Payloads[r] /\ Payloads[r] \subseteq Publishable
                          /\ Seeded[r] \in Payloads[r] \cup {Catalog!None}
  BY CatalogAssumption DEF Catalog!None, Publishable

LEMMA AtFacts ==
  ASSUME NEW r \in Resources, NEW entry, RowOf(r, entry), NEW n \in Nat
  PROVE  /\ Catalog!At(entry, n) \in Payloads[r] \cup {Catalog!None}
         /\ Catalog!At(entry, n) # Catalog!None <=> n \in 1 .. Len(entry.versions)
  <1>1. entry.versions \in Seq(Publishable) /\ DOMAIN entry.versions = 1 .. Len(entry.versions)
    BY DEF RowOf, CatalogRow
  <1>2. \A m \in 1 .. Len(entry.versions) : entry.versions[m] \in Payloads[r]
    BY DEF RowOf
  <1> QED
    BY <1>1, <1>2, NamesApart DEF Catalog!At

LEMMA EmptyRow ==
  ASSUME NEW r \in Resources
  PROVE  RowOf(r, Catalog!NoRow) /\ Catalog!At(Catalog!NoRow, 0) = Catalog!None
         /\ Catalog!NoRow.active = 0 /\ Catalog!NoRow.published = 0
  BY VersionsAssumption DEF Catalog!NoRow, RowOf, CatalogRow, CatalogStates, Catalog!At

LEMMA SeededRows ==
  ASSUME NEW r \in Resources
  PROVE  RowOf(r, Catalog!SeededRow(r)) /\ Catalog!At(Catalog!SeededRow(r), Catalog!SeededRow(r).active) = Seeded[r]
         /\ Catalog!SeededRow(r).active = Catalog!SeededRow(r).published
  <1>1. CASE Seeded[r] = Catalog!None
    BY <1>1, EmptyRow DEF Catalog!SeededRow
  <1>2. CASE Seeded[r] # Catalog!None
    <2>1. Seeded[r] \in Payloads[r] /\ Seeded[r] \in Publishable
      BY <1>2, NamesApart
    <2>2. Catalog!SeededRow(r) = [versions |-> <<Seeded[r]>>, published |-> 1, active |-> 1, state |-> "active"]
      BY <1>2 DEF Catalog!SeededRow
    <2>3. Catalog!SeededRow(r) \in CatalogRow /\ Len(Catalog!SeededRow(r).versions) = 1
      BY <2>1, <2>2 DEF CatalogRow, CatalogStates
    <2> QED
      BY <2>1, <2>2, <2>3, VersionsAssumption DEF RowOf, Catalog!At
  <1> QED
    BY <1>1, <1>2

LEMMA RowGrows ==
  ASSUME NEW r \in Resources, NEW entry, RowOf(r, entry), NEW p \in Payloads[r], Len(entry.versions) < MaxRevision,
         NEW grown \in CatalogRow, grown.versions = Append(entry.versions, p),
         grown.published = entry.published, grown.active = entry.active,
         grown.state = (IF entry.state # "absent" THEN entry.state ELSE "inactive")
  PROVE  /\ RowOf(r, grown) /\ Len(grown.versions) = Len(entry.versions) + 1
         /\ \A n \in 0 .. Len(entry.versions) : Catalog!At(grown, n) = Catalog!At(entry, n)
  <1>1. entry.versions \in Seq(Publishable) /\ Len(entry.versions) \in Nat /\ p \in Publishable
    BY NamesApart DEF RowOf, CatalogRow
  <1>2. /\ Len(grown.versions) = Len(entry.versions) + 1 /\ DOMAIN grown.versions = 1 .. Len(entry.versions) + 1
        /\ \A n \in 1 .. Len(entry.versions) : grown.versions[n] = entry.versions[n]
        /\ grown.versions[Len(entry.versions) + 1] = p /\ DOMAIN entry.versions = 1 .. Len(entry.versions)
    BY <1>1
  <1>3. \A n \in 1 .. Len(grown.versions) : grown.versions[n] \in Payloads[r]
    BY <1>1, <1>2 DEF RowOf
  <1>4. RowOf(r, grown)
    BY <1>1, <1>2, <1>3, VersionsAssumption DEF RowOf, CatalogRow
  <1> QED
    BY <1>1, <1>2, <1>4 DEF Catalog!At

LEMMA CatalogSoundInit == ServicesInit => CatalogSound
  <1> SUFFICES ASSUME Catalog!Init PROVE CatalogSound
    BY DEF ServicesInit
  <1>1. \A r \in Resources : RowOf(r, catalog[r]) /\ catalog[r] \in CatalogRow /\ Catalog!Active(r) = Seeded[r]
    BY SeededRows DEF Catalog!Init, RowOf, Catalog!Active
  <1>2. catalog \in [Resources -> CatalogRow]
    BY <1>1 DEF Catalog!Init
  <1>3. editor \in [Editors -> Editing] /\ \A e \in Editors : editor[e].pc = "idle"
    BY VersionsAssumption DEF Catalog!Init, Catalog!Idle, Editing
  <1>4. /\ activating = Catalog!None /\ unrecorded = {} /\ boots = 0
        /\ \A e \in Editors : activating # e
    BY NamesApart DEF Catalog!Init
  <1>5. /\ running \in [Resources -> Publishable \cup {Catalog!None}]
        /\ \A r \in Resources : running[r] \in Payloads[r] \cup {Catalog!None} /\ running[r] = Seeded[r]
    BY NamesApart DEF Catalog!Init
  <1>6. CatalogShape
    BY <1>1, <1>2, <1>3, <1>4, <1>5, CatalogAssumption DEF CatalogShape, Activating
  <1>7. Agreed
    BY <1>1, <1>4, <1>5 DEF Agreed, Wanted
  <1> QED
    BY <1>6, <1>7 DEF CatalogSound

\* A draft is another version at the end: what is active or about to be stays what it is.
LEMMA SaveDraftIsSound ==
  ASSUME CatalogSound, NEW e \in Editors, NEW r \in Resources, NEW p \in Payloads[r], Catalog!SaveDraft(e, r, p)
  PROVE  CatalogSound'
  <1> DEFINE grown == [catalog[r] EXCEPT !.versions = Append(@, p),
                                         !.state = IF Catalog!Known(r) THEN @ ELSE "inactive"]
             k == [pc |-> "publish", res |-> r, rev |-> Len(catalog[r].versions) + 1]
  <1>0. /\ editor[e].pc = "idle" /\ Len(catalog[r].versions) < MaxRevision
        /\ UNCHANGED <<running, activating, unrecorded, boots>> /\ editor' = [editor EXCEPT ![e] = k]
    BY DEF Catalog!SaveDraft, Catalog!Idle
  <1>1. catalog[r] \in CatalogRow /\ p \in Publishable /\ RowOf(r, catalog[r]) /\ Len(catalog[r].versions) \in Nat
    BY NamesApart DEF CatalogSound, CatalogShape, CatalogRow
  <1>2. grown \in CatalogRow /\ grown.versions = Append(catalog[r].versions, p)
        /\ grown.published = catalog[r].published /\ grown.active = catalog[r].active
        /\ grown.state = (IF catalog[r].state # "absent" THEN catalog[r].state ELSE "inactive")
    <2>1. Append(catalog[r].versions, p) \in Seq(Publishable)
      BY <1>1 DEF CatalogRow
    <2> QED
      BY <1>1, <2>1 DEF CatalogRow, CatalogStates, Catalog!Known
  <1>3. catalog' = [catalog EXCEPT ![r] = grown]
    BY <1>1 DEF Catalog!SaveDraft, CatalogRow
  <1>4. k \in Editing /\ k.pc = "publish" /\ k.res = r /\ k.rev # 0
    BY <1>0, <1>1, VersionsAssumption DEF Editing
  <1> HIDE DEF grown, k
  <1>5. /\ RowOf(r, grown) /\ Len(grown.versions) = Len(catalog[r].versions) + 1
        /\ \A n \in 0 .. Len(catalog[r].versions) : Catalog!At(grown, n) = Catalog!At(catalog[r], n)
    BY <1>0, <1>1, <1>2, RowGrows
  <1>6. catalog' \in [Resources -> CatalogRow] /\ \A x \in Resources : catalog'[x] = IF x = r THEN grown ELSE catalog[x]
    BY <1>2, <1>3 DEF CatalogSound, CatalogShape
  <1>7. editor' \in [Editors -> Editing] /\ \A d \in Editors : editor'[d] = IF d = e THEN k ELSE editor[d]
    BY <1>0, <1>4 DEF CatalogSound, CatalogShape
  <1>8. \A x \in Resources : RowOf(x, catalog'[x]) /\ Len(catalog[x].versions) <= Len(catalog'[x].versions)
    <2> TAKE x \in Resources
    <2>1. CASE x = r
      BY <1>1, <1>5, <1>6, <2>1
    <2>2. CASE x # r
      <3>1. catalog'[x] = catalog[x] /\ RowOf(x, catalog[x]) /\ catalog[x] \in CatalogRow
        BY <1>6, <2>2 DEF CatalogSound, CatalogShape
      <3>2. Len(catalog[x].versions) \in Nat
        BY <3>1 DEF CatalogRow
      <3> QED
        BY <3>1, <3>2
    <2> QED
      BY <2>1, <2>2
  <1>9. activating # e
    BY <1>0 DEF CatalogSound, CatalogShape, Activating
  <1>10. \A d \in Editors : editor'[d].pc \in {"apply", "write"} => editor'[d].rev <= Len(catalog'[editor'[d].res].versions)
    <2> SUFFICES ASSUME NEW d \in Editors, editor'[d].pc \in {"apply", "write"}
                 PROVE  editor'[d].rev <= Len(catalog'[editor'[d].res].versions)
      OBVIOUS
    <2>1. d # e /\ editor'[d] = editor[d]
      BY <1>4, <1>7
    <2>2. editor[d] \in Editing /\ editor[d].res \in Resources /\ editor[d].rev <= Len(catalog[editor[d].res].versions)
      BY <2>1 DEF CatalogSound, CatalogShape
    <2>3. Len(catalog[editor[d].res].versions) \in Nat /\ Len(catalog'[editor[d].res].versions) \in Nat
      BY <1>6, <2>2 DEF CatalogSound, CatalogShape, CatalogRow
    <2> QED
      BY <1>8, <2>1, <2>2, <2>3 DEF Editing
  <1>11. CatalogShape'
    BY <1>0, <1>4, <1>6, <1>7, <1>8, <1>9, <1>10 DEF CatalogSound, CatalogShape, Activating
  <1>12. ASSUME NEW x \in Resources, Counts(x)' PROVE running'[x] = Wanted(x)'
    <2>0. Counts(x)
      <3>1. activating \in Editors => editor'[activating] = editor[activating]
        BY <1>0, <1>7, <1>9 DEF CatalogSound, CatalogShape
      <3> QED
        BY <1>0, <1>12, <3>1 DEF Counts, InHand, CatalogSound, CatalogShape
    <2>1. running[x] = Wanted(x) /\ running' = running
      BY <1>0, <2>0 DEF CatalogSound, Agreed
    <2>2. catalog[x].active \in 0 .. Len(catalog[x].versions) /\ catalog'[x].active = catalog[x].active
      <3>1. catalog[x] \in CatalogRow /\ catalog[x].active <= Len(catalog[x].versions)
        BY DEF CatalogSound, CatalogShape, RowOf
      <3>2. catalog[x].active \in Nat /\ Len(catalog[x].versions) \in Nat
        BY <3>1 DEF CatalogRow
      <3>3. catalog'[x].active = catalog[x].active
        BY <1>2, <1>6
      <3> QED
        BY <3>1, <3>2, <3>3
    <2>3. \A n \in 0 .. Len(catalog[x].versions) : Catalog!At(catalog'[x], n) = Catalog!At(catalog[x], n)
      BY <1>5, <1>6
    <2>4. Catalog!Active(x)' = Catalog!Active(x)
      BY <2>2, <2>3 DEF Catalog!Active
    <2>5. CASE activating = Catalog!None
      BY <1>0, <2>1, <2>4, <2>5 DEF Wanted
    <2>6. CASE activating # Catalog!None
      <3>1. activating \in Editors /\ editor'[activating] = editor[activating] /\ activating' = activating
        BY <1>0, <1>7, <1>9, <2>6 DEF CatalogSound, CatalogShape
      <3>2. CASE editor[activating].pc = "write" /\ x = editor[activating].res
        <4>1. editor[activating].rev \in 0 .. Len(catalog[x].versions)
          BY <3>1, <3>2 DEF CatalogSound, CatalogShape, Editing
        <4>2. Catalog!At(catalog'[x], editor[activating].rev) = Catalog!At(catalog[x], editor[activating].rev)
          BY <2>3, <4>1
        <4> QED
          BY <2>1, <2>4, <3>1, <3>2, <4>2 DEF Wanted
      <3>3. CASE ~(editor[activating].pc = "write" /\ x = editor[activating].res)
        BY <2>1, <2>4, <3>1, <3>3 DEF Wanted
      <3> QED
        BY <3>2, <3>3
    <2> QED
      BY <2>5, <2>6
  <1>13. Agreed'
    BY <1>12 DEF Agreed
  <1> QED
    BY <1>11, <1>13 DEF CatalogSound

\* A request goes on: it has the lock, or takes it, or leaves it alone.
LEMMA EditorMoves ==
  ASSUME CatalogShape, NEW e \in Editors, NEW k \in Editing, editor' = [editor EXCEPT ![e] = k],
         k.pc # "idle" => k.res \in Resources,
         k.pc \in {"publish", "apply", "write"} => k.rev # 0,
         k.pc \in {"apply", "write"} => k.rev <= Len(catalog'[k.res].versions),
         k.pc \in Activating <=> activating' = e,
         \/ activating \in {Catalog!None, e} /\ activating' \in {Catalog!None, e}
         \/ catalog' = catalog /\ activating' = activating,
         catalog' \in [Resources -> CatalogRow], \A r \in Resources : RowOf(r, catalog'[r]),
         running' \in [Resources -> Publishable \cup {Catalog!None}],
         \A r \in Resources : running'[r] \in Payloads[r] \cup {Catalog!None},
         unrecorded' \subseteq Resources, UNCHANGED boots
  PROVE  CatalogShape' /\ editor'[e] = k /\ \A d \in Editors : d # e => editor'[d] = editor[d]
  <1>1. editor' \in [Editors -> Editing] /\ \A d \in Editors : editor'[d] = IF d = e THEN k ELSE editor[d]
    BY DEF CatalogShape
  <1>2. ASSUME NEW d \in Editors
        PROVE  /\ editor'[d].pc # "idle" => editor'[d].res \in Resources
               /\ editor'[d].pc \in Activating <=> activating' = d
               /\ editor'[d].pc \in {"publish", "apply", "write"} => editor'[d].rev # 0
               /\ editor'[d].pc \in {"apply", "write"} => editor'[d].rev <= Len(catalog'[editor'[d].res].versions)
    <2>1. CASE d = e
      BY <1>1, <2>1
    <2>2. CASE d # e
      <3>1. editor'[d] = editor[d]
        BY <1>1, <2>2
      <3>2. CASE activating \in {Catalog!None, e} /\ activating' \in {Catalog!None, e}
        <4>1. activating # d /\ activating' # d
          BY <2>2, <3>2, NamesApart
        <4>2. editor[d].pc \notin Activating
          BY <4>1 DEF CatalogShape
        <4> QED
          BY <3>1, <4>1, <4>2 DEF CatalogShape, Activating
      <3>3. CASE catalog' = catalog /\ activating' = activating
        BY <3>1, <3>3 DEF CatalogShape
      <3> QED
        BY <3>2, <3>3
    <2> QED
      BY <2>1, <2>2
  <1>3. activating' \in Editors \cup {Catalog!None}
    BY DEF CatalogShape
  <1> QED
    BY <1>1, <1>2, <1>3 DEF CatalogShape

LEMMA RowFacts ==
  ASSUME CatalogShape
  PROVE  /\ \A r \in Resources :
              /\ catalog[r] \in CatalogRow /\ RowOf(r, catalog[r]) /\ Len(catalog[r].versions) \in Nat
              /\ catalog[r].active \in Nat /\ catalog[r].published \in Nat
              /\ Catalog!Active(r) \in Payloads[r] \cup {Catalog!None}
         /\ catalog \in [Resources -> CatalogRow] /\ \A r \in Resources : RowOf(r, catalog[r])
         /\ running \in [Resources -> Publishable \cup {Catalog!None}]
         /\ \A r \in Resources : running[r] \in Payloads[r] \cup {Catalog!None}
         /\ unrecorded \subseteq Resources
  <1>1. \A r \in Resources :
              /\ catalog[r] \in CatalogRow /\ RowOf(r, catalog[r]) /\ Len(catalog[r].versions) \in Nat
              /\ catalog[r].active \in Nat /\ catalog[r].published \in Nat
    BY DEF CatalogShape, CatalogRow
  <1>2. \A r \in Resources : Catalog!Active(r) \in Payloads[r] \cup {Catalog!None}
    BY <1>1, AtFacts DEF Catalog!Active
  <1> QED
    BY <1>1, <1>2 DEF CatalogShape

LEMMA IdleFacts ==
  /\ Catalog!Idle \in Editing /\ Catalog!Idle.pc = "idle"
  BY VersionsAssumption DEF Catalog!Idle, Editing

LEMMA EnterIsSound ==
  ASSUME CatalogSound, NEW e \in Editors, Catalog!Enter(e) \/ Catalog!Forget(e) \/ \E r \in Resources : Catalog!Delete(e, r)
  PROVE  CatalogSound'
  <1> DEFINE r == editor[e].res
  <1>0. CatalogShape /\ Agreed /\ editor[e] \in Editing
    BY DEF CatalogSound, CatalogShape
  <1>1. CASE Catalog!Enter(e)
    <2>1. /\ UNCHANGED <<catalog, running, unrecorded, boots>> /\ editor[e].pc = "publish" /\ activating = Catalog!None
      BY <1>1 DEF Catalog!Enter
    <2>2. r \in Resources /\ editor[e].rev # 0 /\ editor[e].rev \in Nat
      BY <1>0, <2>1, VersionsAssumption DEF CatalogShape, Editing
    <2>3. CASE Catalog!At(catalog[r], editor[e].rev) = Catalog!None
      <3>1. editor' = [editor EXCEPT ![e] = Catalog!Idle] /\ activating' = activating
        BY <1>1, <2>3 DEF Catalog!Enter
      <3>2. CatalogShape'
        BY <1>0, <2>1, <3>1, IdleFacts, RowFacts, NamesApart, EditorMoves DEF Activating
      <3>3. Agreed'
        BY <1>0, <2>1, <3>1 DEF Agreed, Counts, InHand, Wanted, Catalog!Active, Catalog!At
      <3> QED
        BY <3>2, <3>3 DEF CatalogSound
    <2>4. CASE Catalog!At(catalog[r], editor[e].rev) # Catalog!None
      <3> DEFINE k == [editor[e] EXCEPT !.pc = "apply"]
      <3>1. editor' = [editor EXCEPT ![e] = k] /\ activating' = e
        BY <1>1, <2>4 DEF Catalog!Enter
      <3>2. k \in Editing /\ k.pc = "apply" /\ k.res = r /\ k.rev = editor[e].rev
        BY <1>0 DEF Editing
      <3>3. editor[e].rev <= Len(catalog[r].versions)
        BY <1>0, <2>2, <2>4, AtFacts DEF CatalogShape
      <3> HIDE DEF k
      <3>4. CatalogShape' /\ editor'[e] = k
        BY <1>0, <2>1, <2>2, <3>1, <3>2, <3>3, RowFacts, EditorMoves DEF Activating
      <3>5. Agreed'
        BY <1>0, <2>1, <3>1, <3>2, <3>4 DEF Agreed, Counts, InHand, Wanted, Catalog!Active, Catalog!At
      <3> QED
        BY <3>4, <3>5 DEF CatalogSound
    <2> QED
      BY <2>3, <2>4
  <1>2. CASE Catalog!Forget(e)
    <2>1. /\ UNCHANGED <<catalog, boots>> /\ editor[e].pc = "delete" /\ activating = Catalog!None
      BY <1>2 DEF Catalog!Forget
    <2>2. r \in Resources
      BY <1>0, <2>1 DEF CatalogShape
    <2>3. CASE editor' = [editor EXCEPT ![e] = Catalog!Idle] /\ UNCHANGED <<running, activating, unrecorded>>
      <3>1. editor' = [editor EXCEPT ![e] = Catalog!Idle] /\ UNCHANGED <<running, activating, unrecorded>>
        BY <2>3
      <3>2. CatalogShape'
        BY <1>0, <2>1, <3>1, IdleFacts, RowFacts, NamesApart, EditorMoves DEF Activating
      <3>3. Agreed'
        BY <1>0, <2>1, <3>1 DEF Agreed, Counts, InHand, Wanted, Catalog!Active, Catalog!At
      <3> QED
        BY <3>2, <3>3 DEF CatalogSound
    <2>4. CASE /\ editor' = [editor EXCEPT ![e] = [editor[e] EXCEPT !.pc = "erase"]]
               /\ activating' = e /\ running' = Catalog!Withdrawn(r) /\ unrecorded' = Catalog!LeftUnrecorded(r)
      <3> DEFINE k == [editor[e] EXCEPT !.pc = "erase"]
                 Anew == IF Kind[r] = "skill" THEN Catalog!Listed(r) ELSE {}
      <3>1. /\ editor' = [editor EXCEPT ![e] = k] /\ activating' = e
            /\ running' = Catalog!Withdrawn(r) /\ unrecorded' = Catalog!LeftUnrecorded(r)
        BY <2>4
      <3>2. k \in Editing /\ k.pc = "erase" /\ k.res = r
        BY <1>0 DEF Editing
      <3> HIDE DEF k
      <3>3. /\ running' \in [Resources -> Publishable \cup {Catalog!None}]
            /\ \A x \in Resources :
                 running'[x] = IF x = r THEN Catalog!None
                               ELSE IF x \in Anew THEN Catalog!Active(x) ELSE running[x]
        <4>1. CASE Kind[r] = "chat"
          <5>1. running' = [running EXCEPT ![r] = Catalog!None] /\ Anew = {}
            BY <3>1, <4>1 DEF Catalog!Withdrawn
          <5> QED
            BY <1>0, <5>1, RowFacts
        <4>2. CASE Kind[r] # "chat"
          <5>1. running' = [x \in Resources |-> IF x = r THEN Catalog!None
                                                ELSE IF x \in Anew THEN Catalog!Active(x) ELSE running[x]]
            BY <3>1, <4>2 DEF Catalog!Withdrawn, Catalog!Applied, Catalog!OwnPayload, Catalog!Listed
          <5>2. \A x \in Resources : running'[x] \in Publishable \cup {Catalog!None}
            BY <1>0, <5>1, RowFacts, NamesApart
          <5> QED
            BY <5>1, <5>2
        <4> QED
          BY <4>1, <4>2
      <3>4. \A x \in Resources : running'[x] \in Payloads[x] \cup {Catalog!None}
        BY <1>0, <3>3, RowFacts
      <3>5. unrecorded' \subseteq Resources
        BY <1>0, <3>1 DEF CatalogShape, Catalog!LeftUnrecorded
      <3>6. CatalogShape' /\ editor'[e] = k
        BY <1>0, <2>1, <2>2, <3>1, <3>2, <3>3, <3>4, <3>5, RowFacts, EditorMoves DEF Activating
      <3>7. e # Catalog!None
        BY NamesApart
      <3>8. ASSUME NEW x \in Resources, Counts(x)' PROVE running'[x] = Wanted(x)'
        <4>0. x # r => Counts(x) \/ x \in Anew
          BY <2>1, <3>1, <3>2, <3>6, <3>8 DEF Counts, InHand, Catalog!LeftUnrecorded
        <4>1. /\ x # r => running[x] = Catalog!Active(x) \/ x \in Anew
              /\ Catalog!Active(x)' = Catalog!Active(x)
          BY <1>0, <2>1, <4>0 DEF Agreed, Wanted, Catalog!Active, Catalog!At
        <4> QED
          BY <3>1, <3>2, <3>3, <3>6, <3>7, <4>1 DEF Wanted
      <3> QED
        BY <3>6, <3>8 DEF CatalogSound, Agreed
    <2> QED
      BY <1>2, <2>3, <2>4 DEF Catalog!Forget
  <1>3. ASSUME NEW x \in Resources, Catalog!Delete(e, x) PROVE CatalogSound'
    <2> DEFINE k == [pc |-> "delete", res |-> x, rev |-> 0]
    <2>1. /\ editor[e].pc = "idle" /\ editor' = [editor EXCEPT ![e] = k] /\ UNCHANGED <<catalog, running, activating, unrecorded, boots>>
      BY <1>3 DEF Catalog!Delete, Catalog!Idle
    <2>2. k \in Editing /\ k.pc = "delete" /\ k.res = x
      BY VersionsAssumption DEF Editing
    <2> HIDE DEF k
    <2>3. activating # e
      BY <1>0, <2>1 DEF CatalogShape, Activating
    <2>4. CatalogShape' /\ \A d \in Editors : d # e => editor'[d] = editor[d]
      BY <1>0, <2>1, <2>2, <2>3, RowFacts, EditorMoves DEF Activating
    <2>5. activating # Catalog!None => activating \in Editors /\ editor'[activating] = editor[activating]
      BY <1>0, <2>3, <2>4 DEF CatalogShape
    <2>6. Agreed'
      BY <1>0, <2>1, <2>5 DEF Agreed, Counts, InHand, Wanted, Catalog!Active, Catalog!At
    <2> QED
      BY <2>4, <2>6 DEF CatalogSound
  <1> QED
    BY <1>1, <1>2, <1>3

LEMMA ApplyIsSound ==
  ASSUME CatalogSound, NEW e \in Editors, Catalog!Apply(e)
  PROVE  CatalogSound'
  <1> DEFINE r == editor[e].res  p == Catalog!At(catalog[r], editor[e].rev)
  <1>0. CatalogShape /\ Agreed /\ editor[e] \in Editing /\ editor[e].pc = "apply" /\ UNCHANGED boots
    BY DEF CatalogSound, CatalogShape, Catalog!Apply
  <1>1. /\ r \in Resources /\ editor[e].rev # 0 /\ editor[e].rev \in Nat /\ editor[e].rev <= Len(catalog[r].versions)
        /\ activating = e /\ e # Catalog!None
    BY <1>0, VersionsAssumption, NamesApart DEF CatalogShape, Editing, Activating
  <1>2. p \in Payloads[r] \cup {Catalog!None}
    BY <1>0, <1>1, AtFacts DEF CatalogShape
  <1>3. \A x \in Resources : Kind[x] \in Hot /\ x \notin unrecorded => running[x] = Catalog!Active(x)
    BY <1>0, <1>1 DEF Agreed, Counts, Wanted
  <1>30. unrecorded \subseteq Resources
    BY <1>0 DEF CatalogShape
  <1> DEFINE k == [editor[e] EXCEPT !.pc = "write"]
  <1>4. k \in Editing /\ k.pc = "write" /\ k.res = r /\ k.rev = editor[e].rev
    BY <1>0 DEF Editing
  <1>5. CASE Catalog!RequiresRestart(r)
    <2>1. editor' = [editor EXCEPT ![e] = k] /\ UNCHANGED <<catalog, running, activating, unrecorded>>
      BY <1>5 DEF Catalog!Apply
    <2> HIDE DEF k
    <2>2. CatalogShape' /\ editor'[e] = k
      BY <1>0, <1>1, <1>30, <1>4, <2>1, RowFacts, EditorMoves DEF Activating
    <2>3. Kind[r] = "embedding"
      BY <1>5 DEF Catalog!RequiresRestart
    <2>4. \A x \in Resources : Wanted(x)' = Catalog!Active(x)
      BY <1>1, <1>4, <2>1, <2>2, <2>3 DEF Wanted, Catalog!Active, Catalog!At
    <2>5. \A x \in Resources : Counts(x)' => Kind[x] \in Hot /\ x \notin unrecorded
      BY <1>1, <1>4, <2>1, <2>2, <2>3 DEF Counts, InHand
    <2> QED
      BY <1>3, <2>1, <2>2, <2>4, <2>5 DEF CatalogSound, Agreed
  <1>6. CASE ~Catalog!RequiresRestart(r) /\ running' = Catalog!Applied(r, p) /\ editor' = [editor EXCEPT ![e] = k]
             /\ unrecorded' = unrecorded \ Catalog!Relisted(r) /\ UNCHANGED <<catalog, activating>>
    <2> HIDE DEF k, p
    <2>1. Kind[r] # "embedding"
      BY <1>6 DEF Catalog!RequiresRestart
    <2>2. \A x \in Resources : running'[x] \in {p, Catalog!Active(x), running[x]} /\ (running'[x] = p => x = r \/ running'[x] \in {Catalog!Active(x), running[x]})
      BY <1>6 DEF Catalog!Applied, Catalog!OwnPayload
    <2>3. \A x \in Resources : running'[x] \in Payloads[x] \cup {Catalog!None}
      BY <1>0, <1>2, <2>2, RowFacts
    <2>4. running' \in [Resources -> Publishable \cup {Catalog!None}]
      <3>1. running' = [x \in Resources |-> running'[x]]
        BY <1>6 DEF Catalog!Applied
      <3> QED
        BY <2>3, <3>1, NamesApart
    <2>5. CatalogShape' /\ editor'[e] = k
      BY <1>0, <1>1, <1>30, <1>4, <1>6, <2>3, <2>4, RowFacts, EditorMoves DEF Activating
    <2>6. ASSUME NEW x \in Resources, Counts(x)' PROVE running'[x] = Wanted(x)'
      <3>0. /\ Kind[x] \in Hot
            /\ x # r => running[x] = Catalog!Active(x) \/ x \in Catalog!Relisted(r)
        BY <1>1, <1>3, <1>4, <1>6, <2>5, <2>6 DEF Counts, InHand
      <3>1. x # r => running'[x] = Catalog!Active(x)
        BY <1>6, <3>0 DEF Catalog!Applied, Catalog!Relisted
      <3>2. x = r => running'[x] = p
        <4>1. x = r => Kind[r] # "chat"
          BY <3>0 DEF Hot
        <4> SUFFICES ASSUME x = r PROVE running'[x] = p
          OBVIOUS
        <4>2. Kind[r] # "chat" /\ x \in Resources /\ x \notin Catalog!Listed(r)
          BY <4>1 DEF Catalog!Listed
        <4>3. running' = [y \in Resources |-> CASE Kind[r] = "chat" /\ y \in Catalog!Models -> Catalog!Active(y)
                                                [] Kind[r] # "chat" /\ y = r -> p
                                                [] Kind[r] = "skill" /\ y \in Catalog!Listed(r) -> Catalog!Active(y)
                                                [] OTHER -> running[y]]
          BY <1>6 DEF Catalog!Applied, Catalog!OwnPayload
        <4> HIDE DEF r
        <4> QED
          BY <4>2, <4>3
      <3>3. Wanted(x)' = IF x = r THEN p ELSE Catalog!Active(x)
        BY <1>1, <1>4, <1>6, <2>1, <2>5 DEF Wanted, Catalog!Active, Catalog!At, p
      <3> QED
        BY <3>1, <3>2, <3>3
    <2> QED
      BY <2>5, <2>6 DEF CatalogSound, Agreed
  <1>7. CASE /\ catalog' \in {catalog, [catalog EXCEPT ![r].state = "failed"]}
             /\ editor' = [editor EXCEPT ![e] = Catalog!Idle] /\ activating' = Catalog!None
             /\ UNCHANGED <<running, unrecorded>>
    <2>1. /\ catalog' \in [Resources -> CatalogRow]
          /\ \A x \in Resources : catalog'[x] \in {catalog[x], [catalog[x] EXCEPT !.state = "failed"]}
      <3>1. CASE catalog' = catalog
        BY <1>0, <3>1, RowFacts
      <3>2. CASE catalog' = [catalog EXCEPT ![r].state = "failed"]
        <4> DEFINE failing == [catalog[r] EXCEPT !.state = "failed"]
        <4>1. failing \in CatalogRow /\ catalog' = [catalog EXCEPT ![r] = failing]
          BY <1>0, <1>1, <3>2, RowFacts DEF CatalogRow, CatalogStates
        <4>2. \A x \in Resources : catalog'[x] = IF x = r THEN failing ELSE catalog[x]
          BY <1>0, <4>1, RowFacts
        <4> QED
          BY <1>0, <4>1, <4>2, RowFacts
      <3> QED
        BY <1>7, <3>1, <3>2
    <2>2. \A x \in Resources : catalog'[x] \in CatalogRow /\ catalog'[x].versions = catalog[x].versions
                               /\ catalog'[x].active = catalog[x].active /\ catalog'[x].published = catalog[x].published
                               /\ catalog'[x].state \in {catalog[x].state, "failed"}
      BY <1>0, <2>1, RowFacts DEF CatalogRow
    <2>3. \A x \in Resources : RowOf(x, catalog'[x])
      BY <1>0, <2>2, RowFacts DEF RowOf
    <2>4. CatalogShape'
      BY <1>0, <1>1, <1>30, <1>7, <2>1, <2>3, IdleFacts, RowFacts, NamesApart, EditorMoves DEF Activating
    <2>5. \A x \in Resources : Catalog!Active(x)' = Catalog!Active(x)
      BY <2>2 DEF Catalog!Active, Catalog!At
    <2>6. Agreed'
      BY <1>3, <1>7, <2>5 DEF Agreed, Counts, InHand, Wanted
    <2> QED
      BY <2>4, <2>6 DEF CatalogSound
  <1> QED
    BY <1>5, <1>6, <1>7 DEF Catalog!Apply

\* The pointers follow what the handler applied.
LEMMA WriteIsSound ==
  ASSUME CatalogSound, NEW e \in Editors, Catalog!Write(e)
  PROVE  CatalogSound'
  <1> DEFINE r == editor[e].res  n == editor[e].rev
             entry == [catalog[r] EXCEPT !.published = n, !.active = Catalog!NewActive(r, n),
                                         !.state = IF Catalog!RequiresRestart(r) THEN "restart_required" ELSE "active"]
  <1>0. CatalogShape /\ Agreed /\ editor[e] \in Editing /\ editor[e].pc = "write" /\ UNCHANGED <<boots, running>>
        /\ editor' = [editor EXCEPT ![e] = Catalog!Idle] /\ activating' = Catalog!None
        /\ unrecorded' = (IF Catalog!RequiresRestart(r) THEN unrecorded ELSE unrecorded \ {r})
        /\ unrecorded' \subseteq Resources
    BY DEF CatalogSound, CatalogShape, Catalog!Write
  <1>1. /\ r \in Resources /\ n # 0 /\ n \in Nat /\ n <= Len(catalog[r].versions)
        /\ activating = e /\ e # Catalog!None
    BY <1>0, VersionsAssumption, NamesApart DEF CatalogShape, Editing, Activating
  <1>2. catalog' = [catalog EXCEPT ![r] = entry]
    BY <1>0, <1>1, RowFacts DEF Catalog!Write, CatalogRow
  <1>3. /\ entry \in CatalogRow /\ entry.versions = catalog[r].versions /\ entry.published = n
        /\ entry.active = Catalog!NewActive(r, n)
        /\ entry.state = IF Catalog!RequiresRestart(r) THEN "restart_required" ELSE "active"
    <2>1. Catalog!NewActive(r, n) \in Nat
      BY <1>0, <1>1, RowFacts DEF Catalog!NewActive
    <2> DEFINE ac == Catalog!NewActive(r, n)
               st == IF Catalog!RequiresRestart(r) THEN "restart_required" ELSE "active"
    <2>2. st \in CatalogStates /\ ac \in Nat
      BY <2>1 DEF CatalogStates
    <2>3. entry = [catalog[r] EXCEPT !.published = n, !.active = ac, !.state = st]
      OBVIOUS
    <2> HIDE DEF ac, st, entry
    <2>4. catalog[r] \in CatalogRow /\ n \in Nat
      BY <1>0, <1>1, RowFacts
    <2>5. /\ entry \in CatalogRow /\ entry.versions = catalog[r].versions /\ entry.published = n
          /\ entry.active = ac /\ entry.state = st
      BY <2>2, <2>3, <2>4 DEF CatalogRow
    <2> QED
      BY <2>5 DEF ac, st
  <1> HIDE DEF entry
  <1>4. RowOf(r, entry)
    BY <1>0, <1>1, <1>3, RowFacts DEF RowOf, Catalog!NewActive
  <1>5. catalog' \in [Resources -> CatalogRow] /\ \A x \in Resources : catalog'[x] = IF x = r THEN entry ELSE catalog[x]
    BY <1>0, <1>1, <1>2, <1>3, RowFacts
  <1>6. \A x \in Resources : RowOf(x, catalog'[x])
    BY <1>0, <1>4, <1>5, RowFacts
  <1>7. CatalogShape'
    BY <1>0, <1>1, <1>5, <1>6, IdleFacts, RowFacts, NamesApart, EditorMoves DEF Activating
  <1>8. ASSUME NEW x \in Resources, Counts(x)' PROVE running'[x] = Wanted(x)'
    <2>0. Counts(x)
      BY <1>0, <1>1, <1>8 DEF Counts, InHand, Catalog!RequiresRestart
    <2>1. Wanted(x)' = Catalog!At(catalog'[x], catalog'[x].active)
      BY <1>0 DEF Wanted, Catalog!Active
    <2>2. running'[x] = Wanted(x)
      BY <1>0, <2>0 DEF Agreed
    <2>3. CASE x = r /\ Kind[x] # "embedding"
      <3>1. Wanted(x) = Catalog!At(catalog[x], n)
        BY <1>0, <1>1, <2>3 DEF Wanted
      <3>2. catalog'[x].active = n /\ catalog'[x].versions = catalog[x].versions
        BY <1>3, <1>5, <2>3 DEF Catalog!NewActive, Catalog!RequiresRestart
      <3> QED
        BY <2>1, <2>2, <3>1, <3>2 DEF Catalog!At
    <2>4. CASE ~(x = r /\ Kind[x] # "embedding")
      <3>1. Wanted(x) = Catalog!At(catalog[x], catalog[x].active)
        BY <1>0, <1>1, <2>4 DEF Wanted, Catalog!Active
      <3>2. catalog'[x].active = catalog[x].active /\ catalog'[x].versions = catalog[x].versions
        BY <1>3, <1>5, <2>4 DEF Catalog!NewActive, Catalog!RequiresRestart
      <3> QED
        BY <2>1, <2>2, <3>1, <3>2 DEF Catalog!At
    <2> QED
      BY <2>3, <2>4
  <1> QED
    BY <1>7, <1>8 DEF CatalogSound, Agreed

LEMMA EraseIsSound ==
  ASSUME CatalogSound, NEW e \in Editors, Catalog!Erase(e)
  PROVE  CatalogSound'
  <1> DEFINE r == editor[e].res
  <1>0. CatalogShape /\ Agreed /\ editor[e] \in Editing /\ editor[e].pc = "erase" /\ UNCHANGED <<boots, running>>
        /\ editor' = [editor EXCEPT ![e] = Catalog!Idle] /\ activating' = Catalog!None
        /\ catalog' = [catalog EXCEPT ![r] = Catalog!NoRow]
        /\ unrecorded' = unrecorded \ {r} /\ unrecorded' \subseteq Resources
    BY DEF CatalogSound, CatalogShape, Catalog!Erase
  <1>1. r \in Resources /\ activating = e /\ e # Catalog!None
    BY <1>0, NamesApart DEF CatalogShape, Activating
  <1>2. RowOf(r, Catalog!NoRow) /\ Catalog!NoRow \in CatalogRow
    BY <1>1, EmptyRow DEF RowOf
  <1>5. catalog' \in [Resources -> CatalogRow] /\ \A x \in Resources : catalog'[x] = IF x = r THEN Catalog!NoRow ELSE catalog[x]
    BY <1>0, <1>1, <1>2, RowFacts
  <1>6. \A x \in Resources : RowOf(x, catalog'[x])
    BY <1>0, <1>2, <1>5, RowFacts
  <1>7. CatalogShape'
    BY <1>0, <1>1, <1>5, <1>6, IdleFacts, RowFacts, NamesApart, EditorMoves DEF Activating
  <1>8. ASSUME NEW x \in Resources, Counts(x)' PROVE running'[x] = Wanted(x)'
    <2>0. Counts(x)
      BY <1>0, <1>1, <1>8 DEF Counts, InHand
    <2>1. Wanted(x)' = Catalog!At(catalog'[x], catalog'[x].active)
      BY <1>0 DEF Wanted, Catalog!Active
    <2>2. running'[x] = Wanted(x)
      BY <1>0, <2>0 DEF Agreed
    <2>3. CASE x = r
      BY <1>0, <1>1, <1>5, <2>1, <2>2, <2>3, EmptyRow DEF Wanted
    <2>4. CASE x # r
      BY <1>0, <1>1, <1>5, <2>1, <2>2, <2>4 DEF Wanted, Catalog!Active
    <2> QED
      BY <2>3, <2>4
  <1> QED
    BY <1>7, <1>8 DEF CatalogSound, Agreed

\* What the handler changed and the catalog could not record no longer counts.
LEMMA RecordingRaisesIsSound ==
  ASSUME CatalogSound, NEW e \in Editors, Catalog!RecordingRaises(e)
  PROVE  CatalogSound'
  <1> DEFINE r == editor[e].res
  <1>0. CatalogShape /\ Agreed /\ editor[e] \in Editing /\ editor[e].pc \in {"write", "erase"}
        /\ UNCHANGED <<catalog, running, boots>>
        /\ editor' = [editor EXCEPT ![e] = Catalog!Idle] /\ activating' = Catalog!None
        /\ unrecorded' = (IF editor[e].pc = "write" /\ Catalog!RequiresRestart(r) THEN unrecorded ELSE unrecorded \cup {r})
    BY DEF CatalogSound, CatalogShape, Catalog!RecordingRaises
  <1>1. r \in Resources /\ activating = e /\ e # Catalog!None /\ unrecorded' \subseteq Resources
    BY <1>0, NamesApart DEF CatalogShape, Activating
  <1>2. CatalogShape'
    BY <1>0, <1>1, IdleFacts, RowFacts, NamesApart, EditorMoves DEF Activating
  <1>3. ASSUME NEW x \in Resources, Counts(x)' PROVE running'[x] = Wanted(x)'
    <2>1. Counts(x) /\ (x = r => editor[e].pc = "write" /\ Kind[x] = "embedding")
      BY <1>0, <1>1, <1>3 DEF Counts, InHand, Catalog!RequiresRestart
    <2>2. Wanted(x) = Catalog!Active(x)
      BY <1>0, <1>1, <2>1 DEF Wanted
    <2>3. Wanted(x)' = Catalog!Active(x)
      BY <1>0 DEF Wanted, Catalog!Active, Catalog!At
    <2> QED
      BY <1>0, <2>1, <2>2, <2>3 DEF Agreed
  <1> QED
    BY <1>2, <1>3 DEF CatalogSound, Agreed

\* A new process runs what is published, and nothing waits any longer.
LEMMA RestartIsSound ==
  ASSUME CatalogSound, Catalog!Restart
  PROVE  CatalogSound'
  <1>0. CatalogShape
    BY DEF CatalogSound
  <1>1. ASSUME NEW r \in Resources, NEW entry, RowOf(r, entry)
        PROVE  RowOf(r, Catalog!Activated(entry))
    <2>0. entry \in CatalogRow
      BY <1>1 DEF RowOf
    <2>1. CASE entry.published # 0 /\ entry.active # entry.published
      <3> DEFINE b == [entry EXCEPT !.active = entry.published, !.state = "active"]
      <3>1. Catalog!Activated(entry) = b
        BY <2>1 DEF Catalog!Activated
      <3>2. b \in CatalogRow /\ b.active = entry.published /\ b.published = entry.published /\ b.versions = entry.versions
        BY <2>0 DEF CatalogRow, CatalogStates
      <3> HIDE DEF b
      <3> QED
        BY <1>1, <3>1, <3>2 DEF RowOf
    <2>2. CASE ~(entry.published # 0 /\ entry.active # entry.published)
      BY <1>1, <2>2 DEF Catalog!Activated
    <2> QED
      BY <2>1, <2>2
  <1>2. catalog' = [r \in Resources |-> Catalog!Activated(IF Catalog!Known(r) THEN catalog[r] ELSE Catalog!SeededRow(r))]
    BY DEF Catalog!Restart
  <1>3. \A r \in Resources : RowOf(r, IF Catalog!Known(r) THEN catalog[r] ELSE Catalog!SeededRow(r))
    BY <1>0, SeededRows, RowFacts
  <1>4. \A r \in Resources : RowOf(r, catalog'[r])
    <2> TAKE r \in Resources
    <2> DEFINE entry == IF Catalog!Known(r) THEN catalog[r] ELSE Catalog!SeededRow(r)
    <2>1. RowOf(r, entry) /\ catalog'[r] = Catalog!Activated(entry)
      BY <1>2, <1>3
    <2> HIDE DEF entry
    <2> QED
      BY <1>1, <2>1
  <1>5. catalog' \in [Resources -> CatalogRow]
    <2>1. \A r \in Resources : catalog'[r] \in CatalogRow
      BY <1>4 DEF RowOf
    <2>2. catalog' = [r \in Resources |-> catalog'[r]]
      BY <1>2
    <2> QED
      BY <2>1, <2>2
  <1>6. running' = [r \in Resources |-> Catalog!At(catalog'[r], catalog'[r].active)]
    BY DEF Catalog!Restart
  <1>7. \A r \in Resources : running'[r] \in Payloads[r] \cup {Catalog!None} /\ running'[r] = Catalog!Active(r)'
    <2> TAKE r \in Resources
    <2>1. RowOf(r, catalog'[r]) /\ catalog'[r].active \in Nat
      BY <1>4, <1>5 DEF CatalogRow
    <2>2. Catalog!At(catalog'[r], catalog'[r].active) \in Payloads[r] \cup {Catalog!None}
      BY <2>1, AtFacts
    <2> QED
      BY <1>6, <2>2 DEF Catalog!Active
  <1>8. running' \in [Resources -> Publishable \cup {Catalog!None}]
    BY <1>6, <1>7, NamesApart
  <1>9. editor' = [e \in Editors |-> Catalog!Idle] /\ activating' = Catalog!None /\ boots' = boots + 1 /\ boots < MaxBoots
        /\ unrecorded' = {}
    BY DEF Catalog!Restart
  <1>10. editor' \in [Editors -> Editing] /\ (\A e \in Editors : editor'[e].pc = "idle" /\ activating' # e)
    BY <1>9, IdleFacts, NamesApart
  <1>11. boots' \in 0 .. MaxBoots
    BY <1>0, <1>9, CatalogAssumption DEF CatalogShape
  <1>12. CatalogShape'
    BY <1>4, <1>5, <1>7, <1>8, <1>9, <1>10, <1>11 DEF CatalogShape, Activating
  <1>13. Agreed'
    BY <1>7, <1>9 DEF Agreed, Wanted
  <1> QED
    BY <1>12, <1>13 DEF CatalogSound

LEMMA CatalogSoundNext == CatalogSound /\ [ServicesNext]_parts => CatalogSound'
  <1> SUFFICES ASSUME CatalogSound, [Catalog!Next]_catalogVars PROVE CatalogSound'
    BY CatalogSteps
  <1>1. CASE UNCHANGED catalogVars
    <2>1. UNCHANGED <<catalog, running, editor, activating, unrecorded, boots>>
      BY <1>1 DEF catalogVars
    <2>2. CatalogShape'
      BY <2>1 DEF CatalogSound, CatalogShape
    <2>3. Agreed'
      BY <2>1 DEF CatalogSound, Agreed, Counts, InHand, Wanted, Catalog!Active, Catalog!At
    <2> QED
      BY <2>2, <2>3 DEF CatalogSound
  <1>2. ASSUME NEW e \in Editors, Catalog!EditorStep(e) PROVE CatalogSound'
    BY <1>2, EnterIsSound, ApplyIsSound, WriteIsSound, RecordingRaisesIsSound, EraseIsSound DEF Catalog!EditorStep
  <1> QED
    BY <1>1, <1>2, EnterIsSound, SaveDraftIsSound, RestartIsSound DEF Catalog!Next

LEMMA CatalogIsSound == CatalogSound => Catalog!CatalogIsTrue /\ Catalog!CatalogTypeOK
  <1> SUFFICES ASSUME CatalogSound PROVE Catalog!CatalogIsTrue /\ Catalog!CatalogTypeOK
    OBVIOUS
  <1>0. CatalogShape /\ Agreed
    BY DEF CatalogSound
  <1>1. Catalog!RunsTheActive({"skill", "embedding", "settings"})
    BY <1>0 DEF Catalog!RunsTheActive, Agreed, Counts, Wanted, Hot
  <1>2. Catalog!PendingIsShown
    BY <1>0, RowFacts DEF Catalog!PendingIsShown, RowOf
  <1>3. ASSUME NEW r \in Resources
        PROVE  /\ catalog[r].versions \in Catalog!SeqOf(Payloads[r], MaxRevision)
               /\ {catalog[r].published, catalog[r].active} \subseteq 0 .. Len(catalog[r].versions)
               /\ catalog[r].state \in CatalogStates
    <2>0. RowOf(r, catalog[r]) /\ catalog[r] \in CatalogRow
      BY <1>0, RowFacts
    <2> DEFINE s == catalog[r].versions  m == Len(s)
    <2>1. s \in Seq(Publishable) /\ m \in 0 .. MaxRevision /\ s \in [1 .. m -> Publishable]
      BY <2>0, VersionsAssumption DEF RowOf, CatalogRow
    <2>2. s \in [1 .. m -> Payloads[r]]
      BY <2>0, <2>1 DEF RowOf
    <2>3. s \in Catalog!SeqOf(Payloads[r], MaxRevision)
      BY <2>1, <2>2 DEF Catalog!SeqOf
    <2> QED
      BY <2>0, <2>3 DEF RowOf, CatalogRow
  <1>4. Catalog!CatalogTypeOK
    BY <1>0, <1>3 DEF Catalog!CatalogTypeOK, CatalogShape, CatalogStates, Editing
  <1> QED
    BY <1>1, <1>2, <1>4 DEF Catalog!CatalogIsTrue

-----------------------------------------------------------------------------
(* The types of the parts.  To what the invariants above say of a part's    *)
(* variables already, each adds what was not needed there.  First           *)
(* NotificationOutbox: who is idle holds no batch, and faults are counted.  *)

LEMMA OutboxSteps ==
  ASSUME [ServicesNext]_parts
  PROVE  [Next]_vars
  BY DEF ServicesNext, Rest, parts, vars

OutboxTypes ==
  /\ OutboxTyped /\ Orderly
  /\ active \in [Tenants -> BOOLEAN] /\ faults \in 0 .. MaxFaults
  /\ \A d \in Dispatchers : pc[d] = "idle" => batch[d] = <<>>

LEMMA OutboxTypesInit == ServicesInit => OutboxTypes
  BY OutboxInit, OutboxAssumption DEF ServicesInit, Init, OutboxTypes

LEMMA OutboxTypesNext ==
  ASSUME OutboxTypes, [Next]_vars
  PROVE  OutboxTypes'
  <1>0. /\ OutboxTyped /\ active \in [Tenants -> BOOLEAN] /\ faults \in 0 .. MaxFaults /\ MaxFaults \in Nat
        /\ \A d \in Dispatchers : pc[d] = "idle" => batch[d] = <<>>
        /\ batch \in [Dispatchers -> Seq(Rows)]
        /\ pc \in [Dispatchers -> {"idle", "pick", "send", "stale"} \cup Outcomes]
    BY OutboxAssumption DEF OutboxTypes, OutboxTyped
  <1>1. OutboxTyped' /\ Orderly'
    BY OutboxNext DEF OutboxTypes
  <1>2. active' \in [Tenants -> BOOLEAN]
    <2>1. ASSUME NEW d \in Dispatchers, MarkStale(d) PROVE active' \in [Tenants -> BOOLEAN]
      BY <1>0, <2>1 DEF MarkStale
    <2>2. ASSUME NEW t \in Tenants, RecipientWrites(t) PROVE active' \in [Tenants -> BOOLEAN]
      BY <1>0, <2>2 DEF RecipientWrites
    <2>3. CASE UNCHANGED active
      BY <1>0, <2>3
    <2> QED
      BY <2>1, <2>2, <2>3
      DEF Next, Work, vars, Enqueue, RequeueAged, LeaseLapses, ClaimDue, Pick, Send, Finish, FinishRaises, RequeueWaiting, Crash
  <1>3. faults' \in 0 .. MaxFaults
    <2>1. UNCHANGED faults \/ (faults < MaxFaults /\ faults' = faults + 1)
      BY DEF Next, Work, vars, history, Enqueue, RequeueAged, LeaseLapses, ClaimDue, Pick, Send, MarkStale, Finish,
             FinishRaises, RecipientWrites, RequeueWaiting, Crash
    <2> QED
      BY <1>0, <2>1
  <1>4. \A d \in Dispatchers : pc'[d] = "idle" => batch'[d] = <<>>
    <2>1. ASSUME NEW d \in Dispatchers, Finish(d) PROVE \A e \in Dispatchers : pc'[e] = "idle" => batch'[e] = <<>>
      <3>1. pc[d] # "idle" /\ NextInBatch(d)
        BY <2>1 DEF Finish, Outcomes
      <3>2. batch[d] \in Seq(Rows) /\ batch[d] # <<>>
        BY <1>0, <3>1, AtHead
      <3>3. Len(batch[d]) <= 1 => Tail(batch[d]) = <<>>
        BY <3>2
      <3> QED
        BY <1>0, <3>1, <3>3 DEF NextInBatch
    <2>2. ASSUME NEW d \in Dispatchers, Pick(d) \/ Send(d) \/ MarkStale(d) \/ ClaimDue(d)
          PROVE  \A e \in Dispatchers : pc'[e] = "idle" => batch'[e] = <<>>
      <3>1. pc'[d] # "idle" /\ \A e \in Dispatchers \ {d} : pc'[e] = pc[e] /\ batch'[e] = batch[e]
        BY <1>0, <2>2 DEF Pick, Send, MarkStale, ClaimDue
      <3> QED
        BY <1>0, <3>1
    <2>3. CASE Crash \/ \E d \in Dispatchers : FinishRaises(d)
      BY <1>0, <2>3 DEF Crash, FinishRaises
    <2>4. CASE UNCHANGED <<pc, batch>>
      BY <1>0, <2>4
    <2> QED
      BY <2>1, <2>2, <2>3, <2>4
      DEF Next, Work, vars, Enqueue, RequeueAged, LeaseLapses, RecipientWrites, RequeueWaiting
  <1> QED
    BY <1>1, <1>2, <1>3, <1>4 DEF OutboxTypes

LEMMA OutboxIsTyped == OutboxTypes => OutboxTypeOK
  BY DEF OutboxTypes, OutboxTyped, OutboxRows, OutboxTypeOK

-----------------------------------------------------------------------------
(* DataSources: no pool is larger than pool_size.                            *)

LEMMA SourceSteps ==
  ASSUME [ServicesNext]_parts
  PROVE  [SourceNext]_dsVars
  BY DEF ServicesNext, Rest, parts, dsVars

SourceTypes ==
  /\ SourcesTyped /\ Clean
  /\ undrained \subseteq Versions /\ cache \in [filled : BOOLEAN, of : Versions]
  /\ \A v \in Versions : Len(pools[v]) <= MaxSize

LEMMA SourceTypesInit == ServicesInit => SourceTypes
  BY SourcesInit, SourceAssumption DEF ServicesInit, SourceInit, SourceTypes, Versions

LEMMA SourceTypesNext ==
  ASSUME SourceTypes, [SourceNext]_dsVars
  PROVE  SourceTypes'
  <1>0. /\ config \in Versions /\ Pools /\ CallsTyped /\ MaxSize \in Nat
        /\ undrained \subseteq Versions /\ cache \in [filled : BOOLEAN, of : Versions]
        /\ \A v \in Versions : Len(pools[v]) <= MaxSize
    BY SourceAssumption DEF SourceTypes, SourcesTyped
  <1>1. SourcesTyped' /\ Clean'
    BY SourcesNext DEF SourceTypes
  <1>2. undrained' \subseteq Versions
    BY <1>0 DEF SourceNext, dsVars, Reload, Drain, Forget, Check, GetPool, Borrow, Run, Return, Store
  <1>3. cache' \in [filled : BOOLEAN, of : Versions]
    <2>1. ASSUME NEW c \in Calls, Store(c) PROVE cache' \in [filled : BOOLEAN, of : Versions]
      <3>1. call[c].seen \in Versions /\ cache' = [filled |-> TRUE, of |-> call[c].seen]
        BY <1>0, <2>1 DEF CallsTyped, Store
      <3> QED
        BY <3>1
    <2>2. CASE UNCHANGED cache \/ cache' = [cache EXCEPT !.filled = FALSE]
      BY <1>0, <2>2
    <2> QED
      BY <2>1, <2>2 DEF SourceNext, dsVars, Reload, Drain, Forget, Check, GetPool, Borrow, Run, Return
  <1>4. \A v \in Versions : Len(pools'[v]) <= MaxSize
    <2>1. ASSUME NEW c \in Calls, Borrow(c) PROVE \A v \in Versions : Len(pools'[v]) <= MaxSize
      <3> DEFINE u == call[c].pool  p == pools[u]
      <3>1. u \in Versions /\ p \in Seq(Connections)
        BY <1>0 DEF CallsTyped, Pools
      <3>2. pools \in [Versions -> Seq(Connections)]
        BY <1>0 DEF Pools
      <3>3. /\ \A v \in Versions \ {u} : pools'[v] = pools[v]
            /\ pools'[u] = IF p = <<>> THEN p ELSE SubSeq(p, 1, Len(p) - 1)
        BY <2>1, <3>1, <3>2 DEF Borrow
      <3>4. p # <<>> => Len(SubSeq(p, 1, Len(p) - 1)) = Len(p) - 1 /\ Len(p) \in Nat
        BY <3>1
      <3>5. Len(p) <= MaxSize
        BY <1>0, <3>1
      <3>6. Len(pools'[u]) <= MaxSize
        <4>1. CASE p = <<>>
          BY <3>3, <3>5, <4>1
        <4>2. CASE p # <<>>
          <5>1. Len(pools'[u]) = Len(p) - 1
            BY <3>3, <3>4, <4>2
          <5> QED
            BY <1>0, <3>4, <3>5, <4>2, <5>1
        <4> QED
          BY <4>1, <4>2
      <3> QED
        BY <1>0, <3>3, <3>6
    <2>2. ASSUME NEW c \in Calls, Return(c) PROVE \A v \in Versions : Len(pools'[v]) <= MaxSize
      <3> DEFINE u == call[c].pool  p == pools[u]
      <3>1. u \in Versions /\ p \in Seq(Connections)
        BY <1>0 DEF CallsTyped, Pools
      <3>2. \/ UNCHANGED pools
            \/ Len(p) < MaxSize /\ pools' = [pools EXCEPT ![u] = Append(p, RolledBack(call[c].conn))]
        BY <2>2 DEF Return, HasRoom
      <3>3. Len(Append(p, RolledBack(call[c].conn))) = Len(p) + 1
        BY <3>1
      <3>4. \/ UNCHANGED pools
            \/ /\ Len(p) < MaxSize /\ pools'[u] = Append(p, RolledBack(call[c].conn))
               /\ \A v \in Versions \ {u} : pools'[v] = pools[v]
        BY <1>0, <3>1, <3>2 DEF Pools
      <3>5. Len(p) \in Nat
        BY <3>1
      <3> QED
        BY <1>0, <3>1, <3>3, <3>4, <3>5
    <2>3. CASE UNCHANGED pools
      BY <1>0, <2>3
    <2>4. ASSUME NEW v \in Versions, Drain(v) PROVE \A u \in Versions : Len(pools'[u]) <= MaxSize
      BY <1>0, <2>4 DEF Drain, Pools
    <2> QED
      BY <2>1, <2>2, <2>3, <2>4 DEF SourceNext, dsVars, Reload, Forget, Check, GetPool, Run, Store
  <1> QED
    BY <1>1, <1>2, <1>3, <1>4 DEF SourceTypes

LEMMA SourceIsTyped == SourceTypes => DataSourceTypeOK
  <1> SUFFICES ASSUME SourceTypes PROVE DataSourceTypeOK
    OBVIOUS
  <1>1. \A v \in Versions : pools[v] \in Seq(Connections)
    BY DEF SourceTypes, SourcesTyped, Pools
  <1>2. ASSUME NEW v \in Versions, NEW i \in DOMAIN pools[v] PROVE pools[v][i] \in Connections
    BY <1>1
  <1> QED
    BY <1>2 DEF SourceTypes, SourcesTyped, CallsTyped, DataSourceTypeOK

-----------------------------------------------------------------------------
(* Scripts: statuses on record, the key and the versions of the file.        *)

LEMMA ScriptSteps ==
  ASSUME [ServicesNext]_parts
  PROVE  [ScriptNext]_scriptVars
  BY DEF ServicesNext, Rest, parts, scriptVars

RecordedAs == Final \cup {"none", "running", "awaiting_input"}
ScriptTypes ==
  /\ ScriptsTyped
  /\ status \in [Runs -> RecordedAs] /\ outcome \in [Runs -> RecordedAs]
  /\ holder \in Runs \cup {0} /\ cancelled \subseteq Runs
  /\ file \in 1 .. MaxEdits + 1 /\ seen \in [Runs -> 0 .. MaxEdits + 1] /\ ran \in [Runs -> 0 .. MaxEdits + 1]
  /\ shutting \in BOOLEAN /\ failures \in 0 .. MaxFailures

LEMMA ScriptTypesInit == ServicesInit => ScriptTypes
  <1> SUFFICES ASSUME ScriptInit PROVE ScriptTypes
    BY DEF ServicesInit
  <1>1. ScriptsTyped
    BY DEF ScriptInit, ScriptsTyped, Living, NoReply, ReplyRows
  <1>2. /\ status \in [Runs -> RecordedAs] /\ outcome \in [Runs -> RecordedAs]
        /\ holder \in Runs \cup {0} /\ cancelled \subseteq Runs /\ shutting \in BOOLEAN
    BY DEF ScriptInit, RecordedAs
  <1>3. /\ file \in 1 .. MaxEdits + 1 /\ seen \in [Runs -> 0 .. MaxEdits + 1] /\ ran \in [Runs -> 0 .. MaxEdits + 1]
        /\ failures \in 0 .. MaxFailures
    BY ScriptAssumption DEF ScriptInit
  <1> QED
    BY <1>1, <1>2, <1>3 DEF ScriptTypes

LEMMA ScriptTypesNext ==
  ASSUME ScriptTypes, [ScriptNext]_scriptVars
  PROVE  ScriptTypes'
  <1>1. ScriptsTyped'
    BY ScriptsTypedNext DEF ScriptTypes
  <1>2. ASSUME NEW r \in Runs, Submitted(r)
        PROVE  /\ status' \in [Runs -> RecordedAs] /\ holder' \in Runs \cup {0}
               /\ seen' \in [Runs -> 0 .. MaxEdits + 1] /\ failures' \in 0 .. MaxFailures
    BY <1>2, ScriptAssumption DEF Submitted, ScriptTypes, RecordedAs, Final
  <1>3. ASSUME NEW r \in Runs, Submit(r) PROVE ScriptTypes'
    BY <1>1, <1>2, <1>3 DEF Submit, ScriptTypes
  <1>4. ASSUME NEW r \in Runs, Verify(r) \/ StartRefused(r) \/ Spawn(r) \/ ChildEnds(r) \/ Release(r) PROVE ScriptTypes'
    <2>1. /\ UNCHANGED <<status, file, seen, shutting>>
          /\ cancelled' = cancelled \/ cancelled' = cancelled \cup {r}
          /\ holder' \in {holder, 0}
          /\ ran' = ran \/ ran' = [ran EXCEPT ![r] = file]
          /\ failures' = failures \/ (failures < MaxFailures /\ failures' = failures + 1)
      BY <1>4 DEF Verify, StartRefused, Spawn, ChildEnds, Release, version
    <2>2. outcome' \in [Runs -> RecordedAs]
      BY <1>4 DEF Verify, StartRefused, Spawn, ChildEnds, Release, ScriptTypes, RecordedAs, Final
    <2>3. file \in 0 .. MaxEdits + 1 /\ failures' \in 0 .. MaxFailures
      BY <2>1, ScriptAssumption DEF ScriptTypes
    <2>4. ran' \in [Runs -> 0 .. MaxEdits + 1]
      BY <2>1, <2>3 DEF ScriptTypes
    <2> QED
      BY <1>1, <2>1, <2>2, <2>3, <2>4 DEF ScriptTypes
  <1>5. ASSUME NEW r \in Runs, Record(r) PROVE ScriptTypes'
    <2>1. outcome[r] \in RecordedAs
      BY DEF ScriptTypes
    <2> QED
      BY <1>1, <1>5, <2>1, ScriptAssumption DEF Record, ScriptTypes, RecordedAs
  <1>6. ASSUME NEW r \in Runs, CancelRun(r) \/ CancelInput(r) PROVE ScriptTypes'
    BY <1>1, <1>6 DEF CancelRun, CancelInput, Kept, version, ScriptTypes
  <1>7. ASSUME NEW p \in Replies, NEW r \in Runs, Begin(p, r) PROVE ScriptTypes'
    BY <1>1, <1>7 DEF Begin, version, ScriptTypes
  <1>8. ASSUME NEW p \in Replies, Continue(p) PROVE ScriptTypes'
    <2>1. /\ UNCHANGED <<outcome, cancelled, file, ran, shutting>>
          /\ UNCHANGED <<status, holder, seen, failures>> \/ \E r \in Runs : Submitted(r)
      BY <1>8 DEF Continue
    <2> QED
      BY <1>1, <1>2, <2>1 DEF ScriptTypes
  <1>9. ASSUME NEW p \in Replies, GiveBack(p) \/ Settle(p) PROVE ScriptTypes'
    <2>1. UNCHANGED <<outcome, holder, cancelled, version, shutting, failures>>
      BY <1>9 DEF GiveBack, Settle
    <2>2. status' = status \/ \E q \in {reply[p].to} : status' = [status EXCEPT ![q] = IF @ = "awaiting_input" THEN "finished" ELSE @]
      BY <1>9 DEF GiveBack, Settle, ClosedAs
    <2>3. status' \in [Runs -> RecordedAs]
      BY <2>2 DEF ScriptTypes, RecordedAs, Final
    <2> QED
      BY <1>1, <2>1, <2>3 DEF ScriptTypes, version
  <1>10. CASE Shutdown \/ Restart \/ EditFile \/ UNCHANGED scriptVars
    <2>1. CASE Shutdown
      BY <1>1, <2>1, ScriptAssumption DEF Shutdown, version, ScriptTypes
    <2>2. CASE Restart
      <3>1. /\ UNCHANGED <<status, file>> /\ holder' = 0 /\ cancelled' = {} /\ shutting' = FALSE
            /\ outcome' = [r \in Runs |-> "none"] /\ seen' = [r \in Runs |-> 0] /\ ran' = [r \in Runs |-> 0]
            /\ failures' = failures \/ (failures < MaxFailures /\ failures' = failures + 1)
        BY <2>2 DEF Restart
      <3>2. failures' \in 0 .. MaxFailures /\ 0 \in 0 .. MaxEdits + 1
        BY <3>1, ScriptAssumption DEF ScriptTypes
      <3>3. /\ outcome' \in [Runs -> RecordedAs]
            /\ seen' \in [Runs -> 0 .. MaxEdits + 1] /\ ran' \in [Runs -> 0 .. MaxEdits + 1]
        BY <3>1, <3>2 DEF RecordedAs
      <3> QED
        BY <1>1, <3>1, <3>2, <3>3 DEF ScriptTypes
    <2>3. CASE EditFile
      BY <1>1, <2>3, ScriptAssumption DEF EditFile, ScriptTypes
    <2>4. CASE UNCHANGED scriptVars
      BY <1>1, <2>4 DEF scriptVars, ScriptTypes
    <2> QED
      BY <1>10, <2>1, <2>2, <2>3, <2>4
  <1>11. ASSUME NEW p \in Replies, ReadStatus(p) \/ ReplyRaises(p) PROVE ScriptTypes'
    <2>1. /\ UNCHANGED <<status, outcome, holder, cancelled, version, shutting>>
          /\ failures' = failures \/ (failures < MaxFailures /\ failures' = failures + 1)
      BY <1>11 DEF ReadStatus, ReplyRaises
    <2> QED
      BY <1>1, <2>1, ScriptAssumption DEF ScriptTypes, version
  <1> QED
    BY <1>3, <1>4, <1>5, <1>6, <1>7, <1>8, <1>9, <1>10, <1>11 DEF ScriptNext, RunStep

LEMMA ScriptIsTyped == ScriptTypes => ScriptTypeOK
  BY DEF ScriptTypes, ScriptsTyped, ReplyRows, RecordedAs, ScriptTypeOK

-----------------------------------------------------------------------------
(* TaskGraph: a plan stays what the model drew up.                           *)

LEMMA GraphSteps ==
  ASSUME [ServicesNext]_parts
  PROVE  [GraphNext]_graphVars
  BY DEF ServicesNext, Rest, parts, graphVars

GraphTypes == RoundsInv /\ plan \in [DOMAIN plan -> SUBSET Names]

LEMMA GraphTypesInit == ServicesInit => GraphTypes
  BY RoundsInit DEF ServicesInit, GraphInit, GraphTypes, Candidates

LEMMA GraphTypesNext ==
  ASSUME GraphTypes, [GraphNext]_graphVars
  PROVE  GraphTypes'
  <1>1. UNCHANGED plan
    BY DEF GraphNext, Round, Reject, Accept, graphVars
  <1> QED
    BY <1>1, RoundsNext DEF GraphTypes

LEMMA GraphIsTyped == GraphTypes => plan \in [DOMAIN plan -> SUBSET Names] /\ done \subseteq DOMAIN plan
  BY DEF GraphTypes, RoundsInv

-----------------------------------------------------------------------------
(* MessageInbox: revisions are those that were saved.                        *)

InboxTypes ==
  /\ Handed
  /\ handled \in [Messages -> 0 .. 2] /\ saved \in 0 .. MaxChanges /\ crashes \in 0 .. MaxCrashes
  /\ sup \in [at : {"read", "start", "note", "watch"}, built : 0 .. MaxChanges, applied : 0 .. MaxChanges]

LEMMA InboxTypesInit == ServicesInit => InboxTypes
  BY HandedInit, InboxAssumption, ScheduleAssumption DEF ServicesInit, Inbox!Init, InboxTypes

LEMMA InboxTypesNext ==
  ASSUME InboxTypes, [Inbox!Next]_inboxVars
  PROVE  InboxTypes'
  <1>0. /\ handled \in [Messages -> 0 .. 2] /\ saved \in 0 .. MaxChanges /\ crashes \in 0 .. MaxCrashes
        /\ sup \in [at : {"read", "start", "note", "watch"}, built : 0 .. MaxChanges, applied : 0 .. MaxChanges]
        /\ MaxChanges \in Nat /\ MaxCrashes \in Nat
    BY InboxAssumption, ScheduleAssumption DEF InboxTypes
  <1>1. Handed'
    BY HandedNext DEF InboxTypes
  <1>2. handled' \in [Messages -> 0 .. 2]
    <2>1. ASSUME NEW c \in Consumers, Inbox!Handle(c) PROVE handled' \in [Messages -> 0 .. 2]
      BY <1>0, <2>1 DEF Inbox!Handle
    <2>2. CASE UNCHANGED handled
      BY <1>0, <2>2
    <2> QED
      BY <2>1, <2>2
      DEF Inbox!Next, Inbox!Supervise, inboxVars, Inbox!Enqueue, Inbox!Ripens, Inbox!LeaseLapses, Inbox!Claim, Inbox!Finish,
          Inbox!Exit, Inbox!SaveConfiguration, Inbox!ReadConfiguration, Inbox!Start, Inbox!NoteRevisions,
          Inbox!Shutdown, Inbox!Crash, Inbox!ClaimRaises, Inbox!FinishRaises
  <1>3. saved' \in 0 .. MaxChanges /\ crashes' \in 0 .. MaxCrashes
    <2>1. /\ saved' = saved \/ (saved < MaxChanges /\ saved' = saved + 1)
          /\ crashes' = crashes \/ (crashes < MaxCrashes /\ crashes' = crashes + 1)
      BY DEF Inbox!Next, Inbox!Supervise, inboxVars, Inbox!Enqueue, Inbox!Ripens, Inbox!LeaseLapses, Inbox!Claim,
             Inbox!Handle, Inbox!Finish, Inbox!Exit, Inbox!SaveConfiguration, Inbox!ReadConfiguration, Inbox!Start,
             Inbox!NoteRevisions, Inbox!Shutdown, Inbox!Crash, Inbox!ClaimRaises, Inbox!FinishRaises, Inbox!Dies
    <2> QED
      BY <1>0, <2>1
  <1>4. sup' \in [at : {"read", "start", "note", "watch"}, built : 0 .. MaxChanges, applied : 0 .. MaxChanges]
    <2>1. CASE Inbox!Supervise
      BY <1>0, <2>1
      DEF Inbox!Supervise, Inbox!ReadConfiguration, Inbox!Start, Inbox!NoteRevisions, Inbox!Shutdown, Inbox!Rebuilt
    <2>2. CASE Inbox!Crash
      BY <1>0, <2>2 DEF Inbox!Crash
    <2>3. CASE UNCHANGED sup
      BY <1>0, <2>3
    <2> QED
      BY <2>1, <2>2, <2>3
      DEF Inbox!Next, inboxVars, Inbox!Enqueue, Inbox!Ripens, Inbox!LeaseLapses, Inbox!Claim, Inbox!Handle,
          Inbox!Finish, Inbox!Exit, Inbox!SaveConfiguration, Inbox!ClaimRaises, Inbox!FinishRaises
  <1> QED
    BY <1>1, <1>2, <1>3, <1>4 DEF InboxTypes

LEMMA InboxIsTyped == InboxTypes => Inbox!InboxTypeOK
  BY DEF InboxTypes, Handed, InboxShape, OneAtMost, Inbox!InboxTypeOK

-----------------------------------------------------------------------------
(* ModelRouting: attempts stay within their bound.                           *)

RoutingTypes ==
  /\ ForItsFailure
  /\ binding <= MaxRebinds /\ cooling \in [on : BOOLEAN, of : Profiles]
  /\ \A t \in Turns : turn[t].tries <= Attempts

LEMMA RoutingTypesInit == ServicesInit => RoutingTypes
  <1> SUFFICES ASSUME ServicesInit PROVE RoutingTypes
    OBVIOUS
  <1>1. /\ slots \in [primary : Profiles, fallback : Profiles] /\ binding = 0
        /\ cooling = [on |-> FALSE, of |-> slots.primary] /\ \A t \in Turns : turn[t].tries = 0
    BY DEF ServicesInit, Routing!Init, Routing!NoTurn
  <1> QED
    BY <1>1, ForItsFailureInit, RoutingAssumption DEF RoutingTypes

LEMMA RoutingTypesNext ==
  ASSUME RoutingTypes, [Routing!Next]_routeVars
  PROVE  RoutingTypes'
  <1>0. /\ binding \in Nat /\ binding <= MaxRebinds /\ MaxRebinds \in Nat /\ cooling \in [on : BOOLEAN, of : Profiles]
        /\ Attempts \in Nat \ {0} /\ slots \in [primary : Profiles, fallback : Profiles]
        /\ turn \in [Turns -> [at : {"none", "call", "record", "switch", "second", "answered", "raised"},
                         mode : Routing!Modes, model : Profiles, tries : Nat, failed : Profiles, saw : Nat]]
        /\ \A t \in Turns : turn[t].tries <= Attempts
    BY RoutingAssumption DEF RoutingTypes, ForItsFailure
  <1>1. ForItsFailure'
    BY ForItsFailureNext DEF RoutingTypes
  <1>2. binding' <= MaxRebinds
    <2>1. binding' = binding \/ (binding < MaxRebinds /\ binding' = binding + 1)
      BY DEF Routing!Next, Routing!InCall, routeVars, Routing!Open, Routing!Answered, Routing!Retry, Routing!GiveUp,
             Routing!RecordPrimaryFailure, Routing!Switch, Routing!NextRequest, Routing!Close, Routing!Rebind,
             Routing!CooldownEnds
    <2> QED
      BY <1>0, <2>1
  <1>3. cooling' \in [on : BOOLEAN, of : Profiles]
    <2>1. ASSUME NEW t \in Turns, Routing!RecordPrimaryFailure(t) PROVE cooling' \in [on : BOOLEAN, of : Profiles]
      BY <1>0, <2>1 DEF Routing!RecordPrimaryFailure
    <2>2. CASE Routing!Rebind
      BY <2>2 DEF Routing!Rebind
    <2>3. CASE Routing!CooldownEnds
      BY <1>0, <2>3 DEF Routing!CooldownEnds
    <2>4. CASE UNCHANGED cooling
      BY <1>0, <2>4
    <2> QED
      BY <2>1, <2>2, <2>3, <2>4
      DEF Routing!Next, Routing!InCall, routeVars, Routing!Open, Routing!Answered, Routing!Retry, Routing!GiveUp,
          Routing!Switch, Routing!NextRequest, Routing!Close
  <1>4. \A t \in Turns : turn'[t].tries <= Attempts
    <2>1. ASSUME NEW t \in Turns, NEW r, turn' = [turn EXCEPT ![t] = r], r.tries \in Nat, r.tries <= Attempts
          PROVE  \A u \in Turns : turn'[u].tries <= Attempts
      BY <1>0, <2>1
    <2>2. ASSUME NEW t \in Turns, Routing!Open(t) PROVE \A u \in Turns : turn'[u].tries <= Attempts
      <3>1. PICK m \in Routing!Modes, p \in Profiles :
              turn' = [turn EXCEPT ![t] = [turn[t] EXCEPT !.at = "call", !.mode = m, !.model = p, !.tries = 1]]
        BY <2>2 DEF Routing!Open, Routing!Set
      <3>2. [turn[t] EXCEPT !.at = "call", !.mode = m, !.model = p, !.tries = 1].tries = 1
        BY <1>0
      <3> QED
        BY <1>0, <2>1, <3>1, <3>2
    <2>3. ASSUME NEW t \in Turns,
                 \/ Routing!Answered(t) \/ Routing!Retry(t) \/ Routing!GiveUp(t) \/ Routing!RecordPrimaryFailure(t)
                 \/ Routing!Switch(t) \/ Routing!NextRequest(t) \/ Routing!Close(t)
          PROVE  \A u \in Turns : turn'[u].tries <= Attempts
      <3>1. PICK r : /\ turn' = [turn EXCEPT ![t] = r]
                     /\ r.tries \in {0, 1, turn[t].tries} \/ (r.tries = turn[t].tries + 1 /\ turn[t].tries < Attempts)
        BY <1>0, <2>3
        DEF Routing!Answered, Routing!Retry, Routing!GiveUp, Routing!RecordPrimaryFailure, Routing!Switch,
            Routing!NextRequest, Routing!Close, Routing!Set, Routing!NoTurn, Routing!TriesLeft, Routing!Counted
      <3>2. turn[t].tries \in Nat /\ turn[t].tries <= Attempts
        BY <1>0
      <3> QED
        BY <1>0, <2>1, <3>1, <3>2
    <2>4. CASE UNCHANGED turn
      BY <1>0, <2>4
    <2> QED
      BY <2>2, <2>3, <2>4 DEF Routing!Next, Routing!InCall, routeVars, Routing!Rebind, Routing!CooldownEnds
  <1> QED
    BY <1>1, <1>2, <1>3, <1>4 DEF RoutingTypes

LEMMA RoutingIsTyped == RoutingTypes => Routing!RoutingTypeOK
  <1> SUFFICES ASSUME RoutingTypes PROVE Routing!RoutingTypeOK
    OBVIOUS
  <1>1. \A t \in Turns : turn[t].tries \in 0 .. Attempts /\ turn[t].saw \in 0 .. MaxRebinds
    BY RoutingAssumption DEF RoutingTypes, ForItsFailure
  <1> QED
    BY <1>1, RoutingAssumption DEF RoutingTypes, ForItsFailure, Routing!RoutingTypeOK

-----------------------------------------------------------------------------
(* ResultPublication: a conversation holds runs and notes of its own.        *)

PublicationTypes ==
  /\ AnsweredOnce
  /\ submitted \in [Results -> SUBSET Publication!Items] /\ context \subseteq Publication!Items
  /\ \A n \in Notes : transcript[n] <= 1
  /\ subscribed \subseteq Results /\ notice \in [Results -> {"none", "queued", "noted"}]
  /\ losses \in 0 .. MaxLosses

LEMMA PublicationTypesInit == ServicesInit => PublicationTypes
  <1> SUFFICES ASSUME ServicesInit PROVE PublicationTypes
    OBVIOUS
  <1>1. Publication!Init
    BY DEF ServicesInit
  <1> QED
    BY <1>1, AnsweredOnceInit, PublicationAssumption DEF Publication!Init, Publication!Items, PublicationTypes

LEMMA PublicationTypesNext ==
  ASSUME PublicationTypes, [Publication!Next]_publishVars
  PROVE  PublicationTypes'
  <1>0. /\ submitted \in [Results -> SUBSET Publication!Items] /\ context \subseteq Publication!Items
        /\ \A n \in Notes : transcript[n] <= 1
        /\ subscribed \subseteq Results /\ notice \in [Results -> {"none", "queued", "noted"}]
        /\ losses \in 0 .. MaxLosses /\ MaxLosses \in Nat
        /\ transcript \in [Publication!Items -> Nat]
        /\ \A p \in Publishers : publisher[p].at # "idle" => publisher[p].run \in Results
        /\ Results \cap Notes = {} /\ Publication!Items = Results \cup Notes
    BY PublicationAssumption DEF PublicationTypes, AnsweredOnce, PublicationShape, Publication!Items
  <1>1. AnsweredOnce'
    BY AnsweredOnceNext DEF PublicationTypes
  <1>2. ASSUME NEW r \in Results,
               \/ Publication!ReadHistory(r) \/ Publication!Submit(r) \/ Publication!Finish(r)
               \/ Publication!Subscribe(r) \/ Publication!Enqueue(r) \/ Publication!NoteQueued(r)
        PROVE  PublicationTypes'
    <2>1. UNCHANGED <<context, transcript, losses>>
      BY <1>2 DEF Publication!ReadHistory, Publication!Submit, Publication!Finish, Publication!Subscribe,
                  Publication!Enqueue, Publication!NoteQueued, Publication!conversation
    <2>2. submitted' = submitted \/ submitted' = [submitted EXCEPT ![r] = context]
      BY <1>2 DEF Publication!ReadHistory, Publication!Submit, Publication!Finish, Publication!Subscribe,
                  Publication!Enqueue, Publication!NoteQueued
    <2>3. subscribed' = subscribed \/ subscribed' = subscribed \cup {r}
      BY <1>2 DEF Publication!ReadHistory, Publication!Submit, Publication!Finish, Publication!Subscribe,
                  Publication!Enqueue, Publication!NoteQueued
    <2>4. notice' = notice \/ \E s \in {"queued", "noted"} : notice' = [notice EXCEPT ![r] = s]
      BY <1>2 DEF Publication!ReadHistory, Publication!Submit, Publication!Finish, Publication!Subscribe,
                  Publication!Enqueue, Publication!NoteQueued
    <2> QED
      BY <1>0, <1>1, <2>1, <2>2, <2>3, <2>4 DEF PublicationTypes
  <1>3. ASSUME NEW p \in Publishers, Publication!SaveAgentResult(p)
        PROVE  PublicationTypes'
    <2> DEFINE r == publisher[p].run
    <2>1. r \in Results /\ UNCHANGED <<submitted, subscribed, notice, losses>>
      BY <1>0, <1>3 DEF Publication!SaveAgentResult
    <2>2. \/ UNCHANGED <<context, transcript>>
          \/ context' = submitted[r] \cup {r} /\ transcript' = [transcript EXCEPT ![r] = @ + 1]
      BY <1>3 DEF Publication!SaveAgentResult, Publication!conversation
    <2>3. context' \subseteq Publication!Items /\ \A n \in Notes : transcript'[n] = transcript[n]
      BY <1>0, <2>1, <2>2
    <2> QED
      BY <1>0, <1>1, <2>1, <2>3 DEF PublicationTypes
  <1>4. ASSUME NEW n \in Notes, Publication!RecordOutbound(n)
        PROVE  PublicationTypes'
    <2>1. /\ context' = context \cup {n} /\ transcript' = [transcript EXCEPT ![n] = 1]
          /\ UNCHANGED <<submitted, subscribed, notice, losses>>
      BY <1>4 DEF Publication!RecordOutbound
    <2>2. context' \subseteq Publication!Items /\ \A m \in Notes : transcript'[m] <= 1
      BY <1>0, <2>1
    <2> QED
      BY <1>0, <1>1, <2>1, <2>2 DEF PublicationTypes
  <1>5. ASSUME NEW P \in SUBSET Publishers, Publication!Lose(P)
        PROVE  PublicationTypes'
    <2>1. /\ UNCHANGED <<context, transcript, submitted, subscribed, notice>>
          /\ losses < MaxLosses /\ losses' = losses + 1
      BY <1>5 DEF Publication!Lose, Publication!conversation
    <2> QED
      BY <1>0, <1>1, <2>1 DEF PublicationTypes
  <1>6. CASE Publication!ClearContext
    BY <1>0, <1>1, <1>6 DEF Publication!ClearContext, PublicationTypes
  <1>7. CASE UNCHANGED <<context, transcript, submitted, subscribed, notice, losses>>
    BY <1>0, <1>1, <1>7 DEF PublicationTypes
  <1> QED
    BY <1>2, <1>3, <1>4, <1>5, <1>6, <1>7
    DEF Publication!Next, Publication!PublisherStep, publishVars, Publication!Begin, Publication!CloseScheduleRun,
        Publication!Extract, Publication!MarkPublished, Publication!conversation

LEMMA PublicationIsTyped == PublicationTypes => Publication!PublicationTypeOK
  <1> SUFFICES ASSUME PublicationTypes PROVE Publication!PublicationTypeOK
    OBVIOUS
  <1>1. Publication!Free.run \in Results
    BY PublicationAssumption DEF Publication!Free
  <1>2. \A i \in Results \cup Notes : transcript[i] \in 0 .. 1
    BY DEF PublicationTypes, AnsweredOnce, PublicationShape
  <1>3. \A r \in Results : extracted[r] \in 0 .. 1
    BY <1>2 DEF PublicationTypes, AnsweredOnce, PublicationShape
  <1> QED
    BY <1>1, <1>2, <1>3 DEF PublicationTypes, AnsweredOnce, PublicationShape, Publication!PublicationTypeOK,
                            Publication!Items, Publication!Terminal

-----------------------------------------------------------------------------
(* WebCrawls: what is stored of a page is a version that it had.             *)

CrawlTypes ==
  /\ CrawlSound
  /\ site \in [Urls -> 1 .. MaxVersions] /\ stops <= MaxRestarts
  /\ \A u \in Urls : page[u] <= MaxVersions /\ indexed[u] <= MaxVersions
  /\ \A w \in Fetchers : fetcher[w].saw <= MaxVersions /\ fetcher[w].got <= MaxVersions

LEMMA CrawlTypesInit == ServicesInit => CrawlTypes
  BY CrawlSoundInit, CrawlBoundsAssumption DEF ServicesInit, Crawl!Init, Crawl!Resting, Crawl!None, CrawlTypes

LEMMA CrawlTypesNext ==
  ASSUME CrawlTypes, [Crawl!Next]_crawlVars
  PROVE  CrawlTypes'
  <1>0. /\ site \in [Urls -> 1 .. MaxVersions] /\ stops \in Nat /\ stops <= MaxRestarts
        /\ page \in [Urls -> Nat] /\ indexed \in [Urls -> Nat] /\ fetcher \in [Fetchers -> Fetching]
        /\ \A u \in Urls : page[u] <= MaxVersions /\ indexed[u] <= MaxVersions
        /\ \A w \in Fetchers : fetcher[w].saw <= MaxVersions /\ fetcher[w].got <= MaxVersions
        /\ MaxVersions \in Nat /\ MaxRestarts \in Nat
    BY CrawlBoundsAssumption DEF CrawlTypes, CrawlSound, CrawlShape
  <1>1. CrawlSound'
    BY CrawlSoundNext DEF CrawlTypes
  <1>2. site' \in [Urls -> 1 .. MaxVersions] /\ stops' <= MaxRestarts
    <2>1. /\ site' = site \/ \E u \in Urls : site[u] < MaxVersions /\ site' = [site EXCEPT ![u] = @ + 1]
          /\ stops' = stops \/ (stops < MaxRestarts /\ stops' = stops + 1)
      BY DEF Crawl!Next, crawlVars, Crawl!CancelRun, Crawl!Enqueue, Crawl!Edit, Crawl!FetcherStep, Crawl!Restart,
             Crawl!ClaimRun, Crawl!AddSeeds, Crawl!AddLinks, Crawl!AddOne, Crawl!RunRaises, Crawl!NextFrontier, Crawl!Skip,
             Crawl!MarkUnchanged, Crawl!Fetch, Crawl!RetryFrontier, Crawl!PageRaises, Crawl!ThreadEnds,
             Crawl!StorePage, Crawl!Index,
             Crawl!FinishPage, Crawl!PageFailed, Crawl!Conclude
    <2> QED
      BY <1>0, <2>1
  <1>3. \A u \in Urls : page'[u] <= MaxVersions /\ indexed'[u] <= MaxVersions
    <2>1. ASSUME NEW w \in Fetchers, Crawl!StorePage(w) PROVE \A u \in Urls : page'[u] <= MaxVersions /\ indexed'[u] <= MaxVersions
      <3>1. indexed' = indexed /\ (page' = page \/ page' = [page EXCEPT ![fetcher[w].url] = fetcher[w].got])
        BY <2>1 DEF Crawl!StorePage
      <3> QED
        BY <1>0, <3>1
    <2>2. ASSUME NEW w \in Fetchers, Crawl!Index(w) PROVE \A u \in Urls : page'[u] <= MaxVersions /\ indexed'[u] <= MaxVersions
      <3>1. page' = page /\ \E v \in {indexed[fetcher[w].url], fetcher[w].got} : indexed' = [indexed EXCEPT ![fetcher[w].url] = v]
        BY <2>2 DEF Crawl!Index
      <3>2. fetcher[w].url \in Urls
        BY <1>0 DEF Fetching
      <3> QED
        BY <1>0, <3>1, <3>2
    <2>3. CASE UNCHANGED <<page, indexed>>
      BY <1>0, <2>3
    <2> QED
      BY <2>1, <2>2, <2>3
      DEF Crawl!Next, crawlVars, Crawl!CancelRun, Crawl!Enqueue, Crawl!Edit, Crawl!FetcherStep, Crawl!Restart,
          Crawl!ClaimRun, Crawl!AddSeeds, Crawl!AddLinks, Crawl!AddOne, Crawl!RunRaises, Crawl!NextFrontier, Crawl!Skip,
          Crawl!MarkUnchanged, Crawl!Fetch, Crawl!RetryFrontier, Crawl!PageRaises, Crawl!ThreadEnds,
          Crawl!FinishPage, Crawl!PageFailed, Crawl!Conclude
  <1>4. \A w \in Fetchers : fetcher'[w].saw <= MaxVersions /\ fetcher'[w].got <= MaxVersions
    <2>1. ASSUME NEW w \in Fetchers, Crawl!FetcherStep(w) \/ Crawl!ThreadEnds(w)
          PROVE  \A v \in Fetchers : fetcher'[v].saw <= MaxVersions /\ fetcher'[v].got <= MaxVersions
      <3>0. fetcher[w] \in Fetching /\ fetcher[w].url \in Urls
        BY <1>0 DEF Fetching
      <3>1. PICK f : /\ fetcher' = [fetcher EXCEPT ![w] = f]
                     /\ f.saw \in {0, fetcher[w].saw} \cup {page[u] : u \in Urls}
                     /\ f.got \in {0, fetcher[w].got} \cup {site[u] : u \in Urls}
        <4> DEFINE Saw == {0, fetcher[w].saw} \cup {page[u] : u \in Urls}
                   Got == {0, fetcher[w].got} \cup {site[u] : u \in Urls}
                   Moves == \E f : fetcher' = [fetcher EXCEPT ![w] = f] /\ f.saw \in Saw /\ f.got \in Got
        <4>1. ASSUME NEW place, fetcher' = [fetcher EXCEPT ![w].at = place] PROVE Moves
          <5> WITNESS [fetcher[w] EXCEPT !.at = place]
          <5> QED
            BY <3>0, <4>1 DEF Fetching
        <4>2. ASSUME fetcher' = [fetcher EXCEPT ![w] = Crawl!Resting] PROVE Moves
          <5> WITNESS Crawl!Resting
          <5> QED
            BY <4>2 DEF Crawl!Resting, Crawl!None
        <4>3. ASSUME NEW place, NEW r, NEW left, fetcher' = [fetcher EXCEPT ![w].at = place, ![w].run = r, ![w].left = left]
              PROVE  Moves
          <5> WITNESS [fetcher[w] EXCEPT !.at = place, !.run = r, !.left = left]
          <5> QED
            BY <3>0, <4>3 DEF Fetching
        <4>4. ASSUME NEW place, NEW left, fetcher' = [fetcher EXCEPT ![w].at = place, ![w].left = left] PROVE Moves
          <5> WITNESS [fetcher[w] EXCEPT !.at = place, !.left = left]
          <5> QED
            BY <3>0, <4>4 DEF Fetching
        <4>5. ASSUME NEW left, fetcher' = [fetcher EXCEPT ![w].left = left] PROVE Moves
          <5> WITNESS [fetcher[w] EXCEPT !.left = left]
          <5> QED
            BY <3>0, <4>5 DEF Fetching
        <4>6. ASSUME NEW u \in Urls, fetcher' = [fetcher EXCEPT ![w].at = "fetch", ![w].url = u, ![w].saw = page[u]]
              PROVE  Moves
          <5> WITNESS [fetcher[w] EXCEPT !.at = "fetch", !.url = u, !.saw = page[u]]
          <5> QED
            BY <3>0, <4>6 DEF Fetching
        <4>7. ASSUME fetcher' = [fetcher EXCEPT ![w].at = "store", ![w].got = site[fetcher[w].url]] PROVE Moves
          <5> WITNESS [fetcher[w] EXCEPT !.at = "store", !.got = site[fetcher[w].url]]
          <5> QED
            BY <3>0, <4>7 DEF Fetching
        <4>8. ASSUME NEW r, fetcher' = [fetcher EXCEPT ![w] = [Crawl!Resting EXCEPT !.at = "stuck", !.run = r]]
              PROVE  Moves
          <5> WITNESS [Crawl!Resting EXCEPT !.at = "stuck", !.run = r]
          <5> QED
            BY <4>8 DEF Crawl!Resting, Crawl!None
        <4> HIDE DEF Moves
        <4>9. Moves
          <5>1. ASSUME NEW place, NEW depth, NEW next0, Crawl!AddOne(w, place, depth, next0) PROVE Moves
            <6>1. (\E x \in {next0} : fetcher' = [fetcher EXCEPT ![w].at = x])
                  \/ \E u \in fetcher[w].left : fetcher' = [fetcher EXCEPT ![w].left = @ \ {u}]
              BY <5>1 DEF Crawl!AddOne, Crawl!Go
            <6>2. ASSUME NEW u, fetcher' = [fetcher EXCEPT ![w].left = @ \ {u}] PROVE Moves
              <7>1. fetcher' = [fetcher EXCEPT ![w].left = fetcher[w].left \ {u}]
                BY <6>2, <3>0, <1>0
              <7> QED
                BY <4>5, <7>1
            <6> QED
              BY <4>1, <6>1, <6>2
          <5>2. CASE Crawl!NextFrontier(w)
            BY <4>1, <4>2, <4>6, <5>2 DEF Crawl!NextFrontier, Crawl!Rest, Crawl!Go
          <5>3. CASE Crawl!ClaimRun(w)
            BY <4>3, <5>3 DEF Crawl!ClaimRun
          <5>4. CASE Crawl!Index(w)
            BY <4>4, <5>4 DEF Crawl!Index
          <5>5. CASE Crawl!Fetch(w)
            BY <4>7, <5>5 DEF Crawl!Fetch
          <5>6. CASE Crawl!RunRaises(w) \/ Crawl!Conclude(w)
            BY <4>2, <5>6 DEF Crawl!RunRaises, Crawl!Conclude, Crawl!Rest
          <5>7. CASE \/ Crawl!Skip(w) \/ Crawl!MarkUnchanged(w) \/ Crawl!RetryFrontier(w) \/ Crawl!PageRaises(w)
                     \/ Crawl!StorePage(w) \/ Crawl!FinishPage(w) \/ Crawl!PageFailed(w)
            BY <4>1, <5>7 DEF Crawl!Skip, Crawl!MarkUnchanged, Crawl!RetryFrontier, Crawl!PageRaises, Crawl!StorePage,
                              Crawl!FinishPage, Crawl!PageFailed, Crawl!Go
          <5>8. CASE Crawl!ThreadEnds(w)
            BY <4>1, <4>8, <5>8 DEF Crawl!ThreadEnds, Crawl!Go
          <5> QED
            BY <2>1, <5>1, <5>2, <5>3, <5>4, <5>5, <5>6, <5>7, <5>8 DEF Crawl!FetcherStep, Crawl!AddSeeds, Crawl!AddLinks
        <4> QED
          BY <4>9 DEF Moves
      <3>2. f.saw \in 0 .. MaxVersions /\ f.got \in 0 .. MaxVersions
        BY <1>0, <3>0, <3>1 DEF Fetching
      <3> QED
        BY <1>0, <3>1, <3>2
    <2>2. CASE Crawl!Restart
      BY <1>0, <2>2 DEF Crawl!Restart, Crawl!Resting, Crawl!None
    <2>3. CASE UNCHANGED fetcher
      BY <1>0, <2>3
    <2> QED
      BY <2>1, <2>2, <2>3 DEF Crawl!Next, crawlVars, Crawl!CancelRun, Crawl!Enqueue, Crawl!Edit
  <1> QED
    BY <1>1, <1>2, <1>3, <1>4 DEF CrawlTypes

LEMMA CrawlIsTyped == CrawlTypes => Crawl!CrawlTypeOK
  <1> SUFFICES ASSUME CrawlTypes PROVE Crawl!CrawlTypeOK
    OBVIOUS
  <1>1. /\ CrawlShape /\ TriedEnough /\ stops \in 0 .. MaxRestarts /\ MaxVersions \in Nat /\ FetchAttempts \in Nat
        /\ MaxRestarts \in Nat
    BY CrawlAssumption, CrawlBoundsAssumption DEF CrawlTypes, CrawlSound, CrawlShape
  <1>2. page \in [Urls -> 0 .. MaxVersions] /\ indexed \in [Urls -> 0 .. MaxVersions]
    BY <1>1 DEF CrawlTypes, CrawlShape
  <1>3. ASSUME NEW r \in Crawls, NEW u \in Urls
        PROVE  frontier[r][u] \in [status : Crawl!FrontierStatuses, depth : 0 .. MaxDepth,
                                   attempts : 0 .. FetchAttempts + MaxRestarts]
    <2>1. frontier[r][u] \in Lines /\ frontier[r][u].attempts <= FetchAttempts + stops
      BY <1>1 DEF CrawlShape, TriedEnough
    <2>2. frontier[r][u].attempts \in 0 .. FetchAttempts + MaxRestarts
      BY <1>1, <2>1 DEF Lines
    <2> QED
      BY <2>1, <2>2 DEF Lines
  <1>4. ASSUME NEW w \in Fetchers
        PROVE  fetcher[w] \in [at : {"idle", "seed", "next", "fetch", "store", "index", "link", "done",
                                     "failed", "conclude", "gone", "stuck"},
                               run : Crawls, url : Urls, saw : 0 .. MaxVersions, got : 0 .. MaxVersions,
                               left : SUBSET Urls]
    <2>1. fetcher[w] \in Fetching /\ fetcher[w].saw <= MaxVersions /\ fetcher[w].got <= MaxVersions
      BY <1>1 DEF CrawlTypes, CrawlShape
    <2>2. fetcher[w].saw \in 0 .. MaxVersions /\ fetcher[w].got \in 0 .. MaxVersions
      BY <1>1, <2>1 DEF Fetching
    <2> QED
      BY <2>1, <2>2 DEF Fetching, Places
  <1> QED
    BY <1>1, <1>2, <1>3, <1>4 DEF CrawlTypes, CrawlShape, Crawl!CrawlTypeOK

-----------------------------------------------------------------------------
(* WorkflowVersions: no more than what FlowSound says.                       *)

LEMMA FlowIsTyped == FlowSound => Flow!VersionsTypeOK
  <1> SUFFICES ASSUME FlowSound PROVE Flow!VersionsTypeOK
    OBVIOUS
  <1>1. FlowShape /\ WhatWasRead
    BY DEF FlowSound
  <1>2. versions \in Flow!BoundedSeq(Definitions, MaxPublished)
    <2> DEFINE m == Len(versions)
    <2>1. m \in 0 .. MaxPublished /\ versions \in [1 .. m -> Definitions]
      BY <1>1, VersionsAssumption DEF FlowShape, WhatWasRead
    <2> QED
      BY <2>1 DEF Flow!BoundedSeq, Flow!SeqOf
  <1>3. ASSUME NEW i \in DOMAIN runs PROVE runs[i] \in [version : 1 .. Len(versions), due : 0 .. Latest, open : BOOLEAN]
    <2>1. runs[i] \in [version : Nat, due : 0 .. Latest, open : BOOLEAN] /\ runs[i].version \in 1 .. Len(versions)
      <3> DEFINE Entry == [version : Nat, due : 0 .. Latest, open : BOOLEAN]
      <3>1. runs \in Seq(Entry) /\ runs[i].version \in 1 .. Len(versions)
        BY <1>1 DEF FlowShape, WhatWasRead
      <3> HIDE DEF Entry
      <3>2. runs[i] \in Entry
        BY <3>1
      <3> QED
        BY <3>1, <3>2 DEF Entry
    <2> QED
      BY <2>1
  <1> QED
    BY <1>1, <1>2, <1>3 DEF FlowShape, Flow!VersionsTypeOK

-----------------------------------------------------------------------------
(* The whole: one part runs, and it is one of those that there are.          *)

LEMMA PartStays ==
  /\ ServicesInit => part \in Parts
  /\ part \in Parts /\ [ServicesNext]_parts => (part \in Parts)'
  BY DEF ServicesInit, ServicesNext, Rest, parts

LEMMA EveryPartIsTyped ==
  ASSUME part \in Parts, OutboxTypeOK, DataSourceTypeOK, ScriptTypeOK,
         plan \in [DOMAIN plan -> SUBSET Names], done \subseteq DOMAIN plan,
         KnowledgeTypeOK, Todo!ReminderTypeOK, Inbox!InboxTypeOK, Schedule!ScheduleTypeOK, Routing!RoutingTypeOK,
         Publication!PublicationTypeOK, Crawl!CrawlTypeOK, Codex!CodexTypeOK, Flow!VersionsTypeOK,
         Memory!MemoryTypeOK, Catalog!CatalogTypeOK
  PROVE  ServicesTypeOK
  <1>1. part \in {"outbox", "source", "script", "plan", "knowledge", "todo", "inbox", "schedule", "routing",
                  "publication", "crawl", "codex", "versions", "memory", "resources"}
    BY PartsAssumption
  <1> QED
    BY <1>1 DEF ServicesTypeOK

-----------------------------------------------------------------------------
\* The rows of a schedule's jobs that say "running" are accounted for, no slot of Codex
\* is lost, a task listed as active is worked on, the turn whose handle a task has on
\* record is told of the task's mark, and the schedule that is enabled is the published
\* one, for any number of each, of slots, faults and crashes (_queue_cron_run(),
\* _execute_turn(), cancel_task(), publish()).
THEOREM WorkIsInHand == ServicesSpec => []WorkIsAccountedFor
  <1>1. ServicesSpec => []RowsOpen
    BY RowsOpenInit, RowsOpenNext, ScheduleSteps, PTL DEF ServicesSpec
  <1>2. ServicesSpec => [](CodexSound /\ HandlesAreTold)
    <2>1. ServicesInit => CodexSound /\ HandlesAreTold
      BY CodexSoundInit, HandlesAreToldInit
    <2>2. CodexSound /\ HandlesAreTold /\ [ServicesNext]_parts => CodexSound' /\ HandlesAreTold'
      BY CodexSoundNext, HandlesAreToldNext, CodexSteps
    <2> QED
      BY <2>1, <2>2, PTL DEF ServicesSpec
  <1>3. ServicesSpec => []FlowSound
    BY FlowSoundInit, FlowSoundNext, FlowSteps, PTL DEF ServicesSpec
  <1>4. RowsOpen /\ CodexSound /\ HandlesAreTold /\ FlowSound => WorkIsAccountedFor
    BY TasksAccounted DEF RowsOpen, FlowSound, WorkIsAccountedFor
  <1> QED
    BY <1>1, <1>2, <1>3, <1>4, PTL

\* Chunks and vectors stand for the text of their source, the profile that passes for
\* current says what is remembered, and the process runs what is published, for any number
\* of writers, threads, editors, mishaps and restarts (refresh(), reembed_sources(),
\* rebuild_soul(), publish()).
THEOREM DerivedFollows == ServicesSpec => []DerivedIsTrue
  <1>1. ServicesSpec => []KnowledgeSound
    BY KnowledgeSoundInit, KnowledgeSoundNext, KnowledgeSteps, PTL DEF ServicesSpec
  <1>2. ServicesSpec => []MemorySound
    BY MemorySoundInit, MemorySoundNext, PTL DEF ServicesSpec
  <1>3. ServicesSpec => []CatalogSound
    BY CatalogSoundInit, CatalogSoundNext, PTL DEF ServicesSpec
  <1>4. KnowledgeSound /\ MemorySound /\ CatalogSound => DerivedIsTrue
    BY CatalogIsSound DEF KnowledgeSound, MemorySound, DerivedIsTrue
  <1> QED
    BY <1>1, <1>2, <1>3, <1>4, PTL

\* Whatever part runs, its variables stay within what is declared of them: statuses and
\* places are those the code knows, attempts and versions stay below their limits, and what
\* refers to a run, a row or a connection refers to one that there is (all of the stores and
\* threads that MCServices puts side by side).
THEOREM ServicesTypesHold == ServicesSpec => []ServicesTypeOK
  <1>1. ServicesSpec => [](part \in Parts)
    BY PartStays, PTL DEF ServicesSpec
  <1>2. ServicesSpec => []OutboxTypes
    BY OutboxTypesInit, OutboxTypesNext, OutboxSteps, PTL DEF ServicesSpec
  <1>3. ServicesSpec => []SourceTypes
    BY SourceTypesInit, SourceTypesNext, SourceSteps, PTL DEF ServicesSpec
  <1>4. ServicesSpec => []ScriptTypes
    BY ScriptTypesInit, ScriptTypesNext, ScriptSteps, PTL DEF ServicesSpec
  <1>5. ServicesSpec => []GraphTypes
    BY GraphTypesInit, GraphTypesNext, GraphSteps, PTL DEF ServicesSpec
  <1>6. ServicesSpec => []KnowledgeSound
    BY KnowledgeSoundInit, KnowledgeSoundNext, KnowledgeSteps, PTL DEF ServicesSpec
  <1>7. ServicesSpec => []OnItsWay
    BY OnItsWayInit, OnItsWayNext, TodoSteps, PTL DEF ServicesSpec
  <1>8. ServicesSpec => []InboxTypes
    BY InboxTypesInit, InboxTypesNext, InboxSteps, PTL DEF ServicesSpec
  <1>9. ServicesSpec => []RowsOpen
    BY RowsOpenInit, RowsOpenNext, ScheduleSteps, PTL DEF ServicesSpec
  <1>10. ServicesSpec => []RoutingTypes
    BY RoutingTypesInit, RoutingTypesNext, RoutingSteps, PTL DEF ServicesSpec
  <1>11. ServicesSpec => []PublicationTypes
    BY PublicationTypesInit, PublicationTypesNext, PublicationSteps, PTL DEF ServicesSpec
  <1>12. ServicesSpec => []CrawlTypes
    BY CrawlTypesInit, CrawlTypesNext, CrawlSteps, PTL DEF ServicesSpec
  <1>13. ServicesSpec => []CodexSound
    BY CodexSoundInit, CodexSoundNext, CodexSteps, PTL DEF ServicesSpec
  <1>14. ServicesSpec => []FlowSound
    BY FlowSoundInit, FlowSoundNext, FlowSteps, PTL DEF ServicesSpec
  <1>15. ServicesSpec => []MemorySound
    BY MemorySoundInit, MemorySoundNext, PTL DEF ServicesSpec
  <1>16. ServicesSpec => []CatalogSound
    BY CatalogSoundInit, CatalogSoundNext, PTL DEF ServicesSpec
  <1>17. /\ OutboxTypes => OutboxTypeOK
         /\ SourceTypes => DataSourceTypeOK
         /\ ScriptTypes => ScriptTypeOK
         /\ GraphTypes => plan \in [DOMAIN plan -> SUBSET Names] /\ done \subseteq DOMAIN plan
         /\ KnowledgeSound => KnowledgeTypeOK
         /\ OnItsWay => Todo!ReminderTypeOK
         /\ InboxTypes => Inbox!InboxTypeOK
         /\ RowsOpen => Schedule!ScheduleTypeOK
         /\ RoutingTypes => Routing!RoutingTypeOK
         /\ PublicationTypes => Publication!PublicationTypeOK
         /\ CrawlTypes => Crawl!CrawlTypeOK
         /\ CodexSound => Codex!CodexTypeOK
         /\ FlowSound => Flow!VersionsTypeOK
         /\ MemorySound => Memory!MemoryTypeOK
         /\ CatalogSound => Catalog!CatalogTypeOK
    BY OutboxIsTyped, SourceIsTyped, ScriptIsTyped, GraphIsTyped, InboxIsTyped, RoutingIsTyped, PublicationIsTyped,
       CrawlIsTyped, FlowIsTyped, MemoryShapeTyped, CatalogIsSound
    DEF KnowledgeSound, OnItsWay, RowsOpen, CodexSound, MemorySound
  <1>18. /\ part \in Parts /\ OutboxTypes /\ SourceTypes /\ ScriptTypes /\ GraphTypes /\ KnowledgeSound /\ OnItsWay
         /\ InboxTypes /\ RowsOpen /\ RoutingTypes /\ PublicationTypes /\ CrawlTypes /\ CodexSound /\ FlowSound
         /\ MemorySound /\ CatalogSound
         => ServicesTypeOK
    BY <1>17, EveryPartIsTyped
  <1> QED
    BY <1>1, <1>2, <1>3, <1>4, <1>5, <1>6, <1>7, <1>8, <1>9, <1>10, <1>11, <1>12, <1>13, <1>14, <1>15, <1>16, <1>18, PTL
=============================================================================
