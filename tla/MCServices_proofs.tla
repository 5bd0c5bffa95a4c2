-------------------------- MODULE MCServices_proofs --------------------------
(***************************************************************************)
(* Theorems about the components that MCServices puts side by side, each   *)
(* for all values of its constants.  A step of the whole is a step of the  *)
(* part that runs, and leaves the others where they are: an invariant of   *)
(* one part is an invariant of the whole.                                  *)
(***************************************************************************)
EXTENDS MCServices, FiniteSetTheorems, SequenceTheorems, TLAPS

\* The instances of FiniteSets inside of the parts are the one the theorems are about.
LEMMA SameCardinality ==
  /\ \A S : Inbox!Cardinality(S) = Cardinality(S)
  /\ \A S : Crawl!Cardinality(S) = Cardinality(S)
  BY Zenon DEF Inbox!Cardinality, Crawl!Cardinality, Cardinality

-----------------------------------------------------------------------------
(* TodoReminders: a reminder that is called "sending" is on its way.        *)

LEMMA TodoSteps ==
  ASSUME [ServicesNext]_parts
  PROVE  [Todo!Next]_todoVars
  BY DEF ServicesNext, Rest, parts, todoVars

\* A time that the outbox has a row for is over, so that no reminder is set to it
\* again; what is claimed or pending has none yet; the event follows the todo; and
\* whoever is told "sent" has no more than the rows that are still open to wait for.
OnItsWay ==
  /\ Todo!ReminderTypeOK
  /\ SendingIsUnderWay
  /\ event.status = "pending" => event.due # 0 /\ outbox[event.due] = "absent"
  /\ job # 0 => event.due # 0 /\ outbox[event.due] = "absent"
  /\ \A t \in Todo!Times : outbox[t] # "absent" => t <= now
  /\ todo.status = "pending" /\ todo.due # 0 => event.due = todo.due /\ event.status # "cancelled"
  /\ todo.status = "completed" => todo.due = 0
  /\ job <= now
  /\ event.status = "sending" =>
       \/ event.due # 0 /\ outbox[event.due] # "sent"
       \/ \E t \in Todo!Times : outbox[t] = "open"

LEMMA TodoBounds == Horizon \in Nat /\ MaxFaults \in Nat
  BY RemindersAssumption, OutboxAssumption

LEMMA OnItsWayInit == ServicesInit => OnItsWay
  <1> SUFFICES ASSUME Todo!Init PROVE OnItsWay
    BY DEF ServicesInit
  <1> USE TodoBounds DEF Todo!Init, Todo!Times, Todo!None
  <1>1. Todo!ReminderTypeOK
    <2>1. now \in 0 .. Horizon /\ todoFaults \in 0 .. MaxFaults
      OBVIOUS
    <2>2. down \in BOOLEAN
      OBVIOUS
    <2> QED
      BY <2>1, <2>2 DEF Todo!ReminderTypeOK
  <1>2. event.status = "none" /\ job = 0 /\ todo.due = 0 /\ todo.status = "pending" /\ now = 0
    OBVIOUS
  <1>3. \A t \in Todo!Times : outbox[t] = "absent"
    OBVIOUS
  <1> QED
    BY <1>1, <1>2, <1>3 DEF OnItsWay, SendingIsUnderWay, Todo!SendingIsUnderWay

\* What the user can make of the todo: a reminder stays, goes or is set to a time to come.
LEMMA ChangedKeeps ==
  ASSUME OnItsWay,
         NEW item \in [status : {"pending", "completed"}, due : Todo!Times \cup {Todo!None}, oneOff : BOOLEAN],
         Todo!Changed(item),
         item.status = "completed" => item.due = 0,
         item.due = 0 \/ item.due > now \/ (item.due = todo.due /\ todo.status = "pending")
  PROVE  OnItsWay'
  <1> USE DEF OnItsWay, Todo!ReminderTypeOK, Todo!None, SendingIsUnderWay, Todo!SendingIsUnderWay
  <1>0. /\ ~down /\ todo' = item /\ event' = Todo!Synced(item)
        /\ UNCHANGED <<now, outbox, job, down, todoFaults>>
    BY DEF Todo!Changed
  <1>1. CASE item.status = "pending" /\ item.due # 0 /\ (event.due # item.due \/ event.status = "cancelled")
    <2>1. event' = [due |-> item.due, status |-> "pending"]
      BY <1>0, <1>1 DEF Todo!Synced
    <2>2. item.due \in Todo!Times /\ item.due > now
      BY <1>1
    <2>3. outbox[item.due] = "absent"
      BY <2>2, RemindersAssumption DEF Todo!Times
    <2> QED
      BY <1>0, <1>1, <2>1, <2>2, <2>3
  <1>2. CASE item.status = "pending" /\ item.due # 0 /\ event.due = item.due /\ event.status # "cancelled"
    <2>1. event' = event
      BY <1>0, <1>2 DEF Todo!Synced
    <2> QED
      BY <1>0, <1>2, <2>1
  <1>3. CASE ~(item.status = "pending" /\ item.due # 0)
    <2>1. \/ event' = event /\ event.status \notin {"pending", "sending"}
          \/ event' = [event EXCEPT !.status = "cancelled"]
      BY <1>0, <1>3 DEF Todo!Synced
    <2> QED
      BY <1>0, <1>3, <2>1
  <1> QED
    BY <1>1, <1>2, <1>3

LEMMA OnItsWayNext ==
  ASSUME OnItsWay, [Todo!Next]_todoVars
  PROVE  OnItsWay'
  <1> USE TodoBounds DEF OnItsWay, Todo!ReminderTypeOK, Todo!None, SendingIsUnderWay, Todo!SendingIsUnderWay
  <1>1. CASE Todo!User
    <2> DEFINE Items == [status : {"pending", "completed"}, due : Todo!Times \cup {Todo!None}, oneOff : BOOLEAN]
               Wished(item) == /\ Todo!Changed(item) /\ (item.status = "completed" => item.due = 0)
                               /\ item.due = 0 \/ item.due > now \/ (item.due = todo.due /\ todo.status = "pending")
    <2>1. \E item \in Items : Wished(item)
      <3>1. ASSUME NEW due \in Todo!Times \cup {Todo!None}, Todo!EditReminder(due)
            PROVE  \E item \in Items : Wished(item)
        <4>1. PICK one \in BOOLEAN : Todo!Changed([todo EXCEPT !.due = due, !.oneOff = one])
          BY <3>1 DEF Todo!EditReminder
        <4>2. [todo EXCEPT !.due = due, !.oneOff = one] \in Items
          OBVIOUS
        <4>3. Wished([todo EXCEPT !.due = due, !.oneOff = one])
          BY <3>1, <4>1 DEF Todo!EditReminder
        <4> QED
          BY <4>2, <4>3
      <3>2. CASE Todo!EditOneOff
        <4>1. [todo EXCEPT !.oneOff = ~@] \in Items /\ Wished([todo EXCEPT !.oneOff = ~@])
          BY <3>2 DEF Todo!EditOneOff
        <4> QED
          BY <4>1
      <3>3. CASE Todo!EditOther
        <4>1. todo \in Items /\ Wished(todo)
          BY <3>3 DEF Todo!EditOther
        <4> QED
          BY <4>1
      <3>4. CASE Todo!Complete
        <4>1. [todo EXCEPT !.status = "completed", !.due = Todo!None] \in Items
          OBVIOUS
        <4>2. Wished([todo EXCEPT !.status = "completed", !.due = Todo!None])
          BY <3>4 DEF Todo!Complete
        <4> QED
          BY <4>1, <4>2
      <3>5. CASE Todo!Restore
        <4>1. [todo EXCEPT !.status = "pending"] \in Items /\ Wished([todo EXCEPT !.status = "pending"])
          BY <3>5 DEF Todo!Restore
        <4> QED
          BY <4>1
      <3> QED
        BY <1>1, <3>1, <3>2, <3>3, <3>4, <3>5 DEF Todo!User
    <2> QED
      BY <2>1, ChangedKeeps
  <1>2. CASE Todo!ClaimDueReminders
    BY <1>2 DEF Todo!ClaimDueReminders, Todo!IsDue, Todo!Times
  <1>3. CASE Todo!EnqueueTodoReminder
    <2>1. /\ event.due = job /\ job \in Todo!Times /\ outbox[job] = "absent"
          /\ outbox' = [outbox EXCEPT ![job] = "open"]
          /\ event' = [event EXCEPT !.status = "sending"] /\ job' = 0
          /\ UNCHANGED <<now, todo, down, todoFaults>>
      BY <1>3 DEF Todo!EnqueueTodoReminder, Todo!StillWanted
    <2>2. \A t \in Todo!Times : outbox'[t] = IF t = job THEN "open" ELSE outbox[t]
      BY <2>1
    <2>3. Todo!ReminderTypeOK'
      BY <2>1
    <2> QED
      BY <2>1, <2>2, <2>3
  <1>4. CASE Todo!FinishReminder
    BY <1>4 DEF Todo!FinishReminder, Todo!StillWanted, Todo!GivenBack, Todo!Times
  <1>5. ASSUME NEW t \in Todo!Times, Todo!Sent(t) PROVE OnItsWay'
    <2>1. /\ outbox[t] = "open" /\ outbox' = [outbox EXCEPT ![t] = "sent"]
          /\ event' = [event EXCEPT !.status = "sent"]
          /\ todo' = todo \/ todo' = [todo EXCEPT !.status = "completed", !.due = 0]
          /\ UNCHANGED <<now, job, down, todoFaults>>
      BY <1>5 DEF Todo!Sent
    <2>2. \A u \in Todo!Times : outbox'[u] = IF u = t THEN "sent" ELSE outbox[u]
      BY <2>1
    <2>3. Todo!ReminderTypeOK'
      BY <2>1
    <2> QED
      BY <2>1, <2>2, <2>3
  <1>6. ASSUME NEW t \in Todo!Times, Todo!NotSentYet(t) PROVE OnItsWay'
    BY <1>6 DEF Todo!NotSentYet, Todo!Times
  <1>7. CASE Todo!Tick \/ Todo!Crash
    <2>1. now' \in 0 .. Horizon /\ now <= now'
      BY <1>7 DEF Todo!Tick, Todo!Crash
    <2>2. todoFaults' \in 0 .. MaxFaults
      BY <1>7 DEF Todo!Tick, Todo!Crash
    <2>3. (job' = job /\ down' = down) \/ (job' = 0 /\ down')
      BY <1>7 DEF Todo!Tick, Todo!Crash
    <2>4. UNCHANGED <<todo, event, outbox>>
      BY <1>7 DEF Todo!Tick, Todo!Crash
    <2>5. Todo!ReminderTypeOK'
      BY <2>1, <2>2, <2>3, <2>4
    <2> QED
      BY <2>1, <2>3, <2>4, <2>5 DEF Todo!Times
  <1>8. CASE Todo!Start
    BY <1>8 DEF Todo!Start, Todo!Recovered, Todo!Times
  <1>9. CASE UNCHANGED todoVars
    BY <1>9 DEF todoVars
  <1> QED
    BY <1>1, <1>2, <1>3, <1>4, <1>5, <1>6, <1>7, <1>8, <1>9 DEF Todo!Next

\* A reminder that is called "sending" is on its way, whatever the user changes, the
\* database refuses and crashes interrupt (recover_inflight_reminders(), finish_reminder()).
THEOREM RemindersAreOnTheirWay == ServicesSpec => []SendingIsUnderWay
  <1>1. OnItsWay => SendingIsUnderWay
    BY DEF OnItsWay
  <1> QED
    BY <1>1, OnItsWayInit, OnItsWayNext, TodoSteps, PTL DEF ServicesSpec

-----------------------------------------------------------------------------
(* ModelRouting and WorkflowVersions: a step acts on what it read.           *)

LEMMA RoutingSteps ==
  ASSUME [ServicesNext]_parts
  PROVE  [Routing!Next]_routeVars
  BY DEF ServicesNext, Rest, parts, routeVars

\* A turn that deals with a failure deals with that of its own model, which it did not
\* choose; and what it found when the slots were last repointed still holds.
ForItsFailure ==
  /\ slots \in [primary : Profiles, fallback : Profiles] /\ binding \in Nat
  /\ turn \in [Turns -> [at : {"none", "call", "record", "switch", "second", "answered", "raised"},
                         mode : Routing!Modes, model : Profiles, tries : Nat, failed : Profiles, saw : Nat]]
  /\ \A t \in Turns :
       /\ turn[t].saw <= binding
       /\ turn[t].at \in {"record", "switch"} =>
            /\ turn[t].mode = "auto" /\ turn[t].failed = turn[t].model
            /\ turn[t].saw = binding => slots.fallback # turn[t].failed
       /\ turn[t].at = "second" /\ turn[t].saw = binding => turn[t].model # turn[t].failed

LEMMA ForItsFailureInit == ServicesInit => ForItsFailure
  BY DEF ServicesInit, Routing!Init, Routing!NoTurn, Routing!Modes, ForItsFailure

\* Whatever a turn does, it does to its own record and keeps to what its record says.
LEMMA TurnKeeps ==
  ASSUME ForItsFailure, NEW t \in Turns, NEW r,
         r \in [at : {"none", "call", "record", "switch", "second", "answered", "raised"},
                mode : Routing!Modes, model : Profiles, tries : Nat, failed : Profiles, saw : Nat],
         turn' = [turn EXCEPT ![t] = r], UNCHANGED <<slots, binding>>,
         r.saw <= binding,
         r.at \in {"record", "switch"} =>
           /\ r.mode = "auto" /\ r.failed = r.model
           /\ r.saw = binding => slots.fallback # r.failed,
         r.at = "second" /\ r.saw = binding => r.model # r.failed
  PROVE  ForItsFailure'
  BY DEF ForItsFailure

LEMMA ForItsFailureNext ==
  ASSUME ForItsFailure, [Routing!Next]_routeVars
  PROVE  ForItsFailure'
  <1>1. ASSUME NEW t \in Turns, Routing!Open(t) \/ Routing!InCall(t) \/ Routing!NextRequest(t) \/ Routing!Close(t)
        PROVE  ForItsFailure'
    <2> USE <1>1 DEF ForItsFailure, Routing!Set
    <2> DEFINE Records == [at : {"none", "call", "record", "switch", "second", "answered", "raised"},
                           mode : Routing!Modes, model : Profiles, tries : Nat, failed : Profiles, saw : Nat]
    <2>1. CASE Routing!Open(t)
      <3>1. PICK m \in Routing!Modes, p \in Profiles :
              turn' = [turn EXCEPT ![t] = [turn[t] EXCEPT !.at = "call", !.mode = m, !.model = p, !.tries = 1]]
        BY <2>1 DEF Routing!Open
      <3> DEFINE r == [turn[t] EXCEPT !.at = "call", !.mode = m, !.model = p, !.tries = 1]
      <3>2. r.at = "call" /\ r.saw = turn[t].saw
        OBVIOUS
      <3>3. UNCHANGED <<slots, binding>>
        BY <2>1 DEF Routing!Open
      <3>4. r \in Records
        OBVIOUS
      <3> HIDE DEF r
      <3> QED
        BY <3>1, <3>2, <3>3, <3>4, TurnKeeps
    <2>2. CASE Routing!Answered(t)
      <3> DEFINE r == [turn[t] EXCEPT !.at = "answered", !.tries = 0, !.failed = turn[t].model, !.saw = 0]
      <3>1. turn' = [turn EXCEPT ![t] = r] /\ UNCHANGED <<slots, binding>>
        BY <2>2 DEF Routing!Answered
      <3>2. r \in Records /\ r.at = "answered" /\ r.saw = 0
        OBVIOUS
      <3> HIDE DEF r
      <3> QED
        BY <3>1, <3>2, TurnKeeps
    <2>3. CASE Routing!Retry(t)
      BY <2>3, TurnKeeps DEF Routing!Retry, Routing!Counted
    <2>4. CASE Routing!GiveUp(t)
      <3>1. CASE turn[t].at = "call" /\ Routing!CanFailOver(t)
        <4> DEFINE r == [turn[t] EXCEPT !.at = "record", !.failed = turn[t].model, !.saw = binding]
        <4>1. turn' = [turn EXCEPT ![t] = r] /\ UNCHANGED <<slots, binding>>
          BY <2>4, <3>1 DEF Routing!GiveUp
        <4>2. r \in Records /\ r.at = "record" /\ r.saw = binding /\ r.mode = "auto" /\ r.failed = r.model
          BY <3>1 DEF Routing!CanFailOver
        <4>3. slots.fallback # r.failed
          BY <3>1 DEF Routing!CanFailOver
        <4> HIDE DEF r
        <4> QED
          BY <4>1, <4>2, <4>3, TurnKeeps
      <3>2. CASE ~(turn[t].at = "call" /\ Routing!CanFailOver(t))
        <4> DEFINE r == [turn[t] EXCEPT !.at = "raised"]
        <4>1. turn' = [turn EXCEPT ![t] = r] /\ UNCHANGED <<slots, binding>>
          BY <2>4, <3>2 DEF Routing!GiveUp
        <4>2. r \in Records /\ r.at = "raised" /\ r.saw = turn[t].saw
          OBVIOUS
        <4> HIDE DEF r
        <4> QED
          BY <4>1, <4>2, TurnKeeps
      <3> QED
        BY <3>1, <3>2
    <2>5. CASE Routing!RecordPrimaryFailure(t)
      BY <2>5, TurnKeeps DEF Routing!RecordPrimaryFailure
    <2>6. CASE Routing!Switch(t)
      <3> DEFINE r == [turn[t] EXCEPT !.at = "second", !.model = slots.fallback, !.tries = 1]
      <3>1. turn' = [turn EXCEPT ![t] = r] /\ UNCHANGED <<slots, binding>> /\ turn[t].at = "switch"
        BY <2>6 DEF Routing!Switch
      <3>2. r \in Records /\ r.at = "second" /\ r.saw = turn[t].saw /\ r.model = slots.fallback
            /\ r.failed = turn[t].failed
        OBVIOUS
      <3> HIDE DEF r
      <3> QED
        BY <3>1, <3>2, TurnKeeps
    <2>7. CASE Routing!NextRequest(t)
      BY <2>7, TurnKeeps DEF Routing!NextRequest
    <2>8. CASE Routing!Close(t)
      BY <2>8, TurnKeeps DEF Routing!Close, Routing!NoTurn, Routing!Modes
    <2> QED
      BY <2>1, <2>2, <2>3, <2>4, <2>5, <2>6, <2>7, <2>8 DEF Routing!InCall
  <1>2. CASE Routing!Rebind
    BY <1>2 DEF Routing!Rebind, ForItsFailure
  <1>3. CASE Routing!CooldownEnds \/ UNCHANGED routeVars
    BY <1>3 DEF Routing!CooldownEnds, routeVars, ForItsFailure
  <1> QED
    BY <1>1, <1>2, <1>3 DEF Routing!Next

\* A turn leaves its model in Switch() alone; Close() ends the turn, Open() begins one.
LEMMA LeavesForCause ==
  ASSUME ForItsFailure, [Routing!Next]_routeVars, NEW t \in Turns,
         turn[t].at # "none", turn'[t].at # "none", turn'[t].model # turn[t].model
  PROVE  turn[t].mode = "auto" /\ turn[t].failed = turn[t].model
  <1> USE DEF ForItsFailure, Routing!Set
  <1>1. ~ UNCHANGED turn
    OBVIOUS
  <1>2. PICK u \in Turns : Routing!Open(u) \/ Routing!InCall(u) \/ Routing!NextRequest(u) \/ Routing!Close(u)
    BY <1>1 DEF Routing!Next, Routing!Rebind, Routing!CooldownEnds, routeVars
  <1>3. CASE Routing!Switch(u)
    BY <1>3 DEF Routing!Switch
  <1>4. CASE Routing!Open(u)
    BY <1>4 DEF Routing!Open
  <1>5. CASE Routing!Close(u)
    BY <1>5 DEF Routing!Close, Routing!NoTurn
  <1>6. CASE Routing!Answered(u) \/ Routing!Retry(u) \/ Routing!GiveUp(u) \/ Routing!RecordPrimaryFailure(u)
             \/ Routing!NextRequest(u)
    <2>1. PICK r : turn' = [turn EXCEPT ![u] = r] /\ r.model = turn[u].model
      <3>1. CASE Routing!Answered(u)
        <4> DEFINE r == [turn[u] EXCEPT !.at = "answered", !.tries = 0, !.failed = turn[u].model, !.saw = 0]
        <4>1. turn' = [turn EXCEPT ![u] = r] /\ r.model = turn[u].model
          BY <3>1 DEF Routing!Answered
        <4> QED
          BY <4>1
      <3>2. CASE Routing!Retry(u)
        <4> DEFINE r == [turn[u] EXCEPT !.tries = Routing!Counted(u)]
        <4>1. turn' = [turn EXCEPT ![u] = r] /\ r.model = turn[u].model
          BY <3>2 DEF Routing!Retry
        <4> QED
          BY <4>1
      <3>3. CASE Routing!GiveUp(u)
        BY <3>3 DEF Routing!GiveUp
      <3>4. CASE Routing!RecordPrimaryFailure(u)
        <4> DEFINE r == [turn[u] EXCEPT !.at = "switch"]
        <4>1. turn' = [turn EXCEPT ![u] = r] /\ r.model = turn[u].model
          BY <3>4 DEF Routing!RecordPrimaryFailure
        <4> QED
          BY <4>1
      <3>5. CASE Routing!NextRequest(u)
        <4> DEFINE r == [turn[u] EXCEPT !.at = "call", !.tries = 1]
        <4>1. turn' = [turn EXCEPT ![u] = r] /\ r.model = turn[u].model
          BY <3>5 DEF Routing!NextRequest
        <4> QED
          BY <4>1
      <3> QED
        BY <1>6, <3>1, <3>2, <3>3, <3>4, <3>5
    <2> QED
      BY <2>1
  <1> QED
    BY <1>2, <1>3, <1>4, <1>5, <1>6 DEF Routing!InCall

LEMMA FlowSteps ==
  ASSUME [ServicesNext]_parts
  PROVE  [Flow!Next]_flowVars
  BY DEF ServicesNext, Rest, parts, flowVars

FlowShape ==
  /\ flow \in [status : {"draft", "published", "disabled", "archived"}, draft : Definitions,
               rev : 1 .. MaxRevision, published : 0 .. Len(versions)]
  /\ versions \in Seq(Definitions)
  /\ trigger \in [Flow!Triggers -> [enabled : BOOLEAN, version : 0 .. Len(versions)]]
  /\ next \in 0 .. Latest + 1 /\ clock \in 1 .. Latest
  /\ runs \in Seq([version : Nat, due : 0 .. Latest, open : BOOLEAN])
  /\ timer \in [Timers -> [at : {"idle", "read", "queue", "move", "delay"}, due : 0 .. Latest,
                           version : 0 .. Len(versions), after : 0 .. Latest + 1]]
  /\ member \in [Members -> [at : {"idle", "editing", "rollback", "saved", "publish", "run"},
                             text : Definitions \cup {{}}, rev : Nat]]

\* What a member or a worker read is a draft, a version or a due time that there was.
WhatWasRead ==
  /\ Len(versions) <= MaxPublished
  /\ flow.status = "published" => flow.published # 0
  /\ trigger["schedule"].enabled => trigger["schedule"].version # 0
  /\ \A a \in Members :
       /\ member[a].at \in {"editing", "rollback"} => member[a].rev < MaxRevision
       /\ member[a].at \in {"rollback", "publish"} => member[a].text \in Definitions
       /\ member[a].at = "run" => member[a].rev \in 1 .. Len(versions)
  /\ \A w \in Timers : timer[w].at \in {"read", "queue"} => timer[w].version # 0
  /\ \A i \in DOMAIN runs : runs[i].version \in 1 .. Len(versions)

FlowSound == FlowShape /\ WhatWasRead /\ Flow!FiresOnce /\ Flow!EnabledIsPublished

LEMMA FlowSoundInit == ServicesInit => FlowSound
  <1> SUFFICES ASSUME Flow!Init PROVE FlowSound
    BY DEF ServicesInit
  <1> USE VersionsAssumption DEF Flow!Init, Flow!IdleMember, Flow!IdleTimer, Flow!Unbound, Flow!Triggers
  <1>1. versions = <<>> /\ runs = <<>> /\ Len(versions) = 0 /\ DOMAIN runs = {}
    OBVIOUS
  <1>2. FlowShape
    BY <1>1 DEF FlowShape
  <1>3. WhatWasRead
    BY <1>1 DEF WhatWasRead
  <1> QED
    BY <1>1, <1>2, <1>3 DEF FlowSound, Flow!FiresOnce, Flow!EnabledIsPublished

LEMMA IdleThen ==
  \A at0 : [Flow!IdleMember EXCEPT !.at = at0] = [at |-> at0, text |-> {}, rev |-> 0]
  BY DEF Flow!IdleMember

LEMMA Appended ==
  ASSUME NEW S, NEW s \in Seq(S), NEW e \in S
  PROVE  /\ Append(s, e) \in Seq(S)
         /\ DOMAIN s = 1 .. Len(s) /\ DOMAIN Append(s, e) = 1 .. Len(s) + 1
         /\ \A i \in 1 .. Len(s) + 1 : Append(s, e)[i] = IF i = Len(s) + 1 THEN e ELSE s[i]
  <1>1. /\ Append(s, e) \in Seq(S) /\ Len(Append(s, e)) = Len(s) + 1
        /\ \A i \in 1 .. Len(s) : Append(s, e)[i] = s[i]
        /\ Append(s, e)[Len(s) + 1] = e
    BY AppendProperties
  <1>2. Len(s) \in Nat /\ DOMAIN s = 1 .. Len(s)
    BY LenProperties
  <1> QED
    BY <1>1, <1>2

LEMMA FlowSoundNext ==
  ASSUME FlowSound, [Flow!Next]_flowVars
  PROVE  FlowSound'
  <1> USE VersionsAssumption DEF FlowSound, FlowShape, Flow!IdleMember, Flow!IdleTimer, Flow!Triggers, Flow!stored,
        Flow!Idle, Flow!Reads
  <1>1. ASSUME NEW a \in Members,
               UNCHANGED <<versions, trigger, next, runs, clock, timer>>, NEW r, member' = [member EXCEPT ![a] = r],
               r \in [at : {"idle", "editing", "rollback", "saved", "publish", "run"},
                      text : Definitions \cup {{}}, rev : Nat],
               r.at \in {"editing", "rollback"} => r.rev < MaxRevision,
               r.at \in {"rollback", "publish"} => r.text \in Definitions,
               r.at = "run" => r.rev \in 1 .. Len(versions),
               NEW text \in Definitions, NEW rev \in 1 .. MaxRevision,
               flow' = [flow EXCEPT !.draft = text, !.rev = rev] \/ flow' = flow
        PROVE  FlowSound'
    <2>1. FlowShape'
      BY <1>1
    <2>2. WhatWasRead'
      BY <1>1 DEF WhatWasRead
    <2>3. Flow!EnabledIsPublished'
      BY <1>1 DEF Flow!EnabledIsPublished
    <2> QED
      BY <1>1, <2>1, <2>2, <2>3 DEF Flow!FiresOnce
  <1>2. ASSUME NEW a \in Members, NEW text \in Definitions, NEW then \in {"idle", "saved"},
               member[a].at \in {"editing", "rollback"}, Flow!Save(a, text, then)
        PROVE  FlowSound'
    <2>1. CASE Flow!Current(a)
      <3> DEFINE r == [at |-> then, text |-> {}, rev |-> 0]
      <3>1. flow' = [flow EXCEPT !.draft = text, !.rev = flow.rev + 1] /\ member' = [member EXCEPT ![a] = r]
            /\ UNCHANGED <<versions, trigger, next, runs, clock, timer>>
        <4> HIDE DEF FlowShape, FlowSound, Flow!IdleMember
        <4> QED
          BY <1>2, <2>1, IdleThen DEF Flow!Save
      <3>2. flow.rev + 1 \in 1 .. MaxRevision
        BY <1>2, <2>1 DEF Flow!Current, WhatWasRead
      <3>3. r \in [at : {"idle", "editing", "rollback", "saved", "publish", "run"},
                   text : Definitions \cup {{}}, rev : Nat] /\ r.at \in {"idle", "saved"}
        OBVIOUS
      <3> HIDE DEF r
      <3> QED
        BY <3>1, <3>2, <3>3, <1>1
    <2>2. CASE ~Flow!Current(a)
      <3> DEFINE r == [at |-> "idle", text |-> {}, rev |-> 0]
      <3>1. flow' = flow /\ member' = [member EXCEPT ![a] = r]
            /\ UNCHANGED <<versions, trigger, next, runs, clock, timer>>
        BY <1>2, <2>2 DEF Flow!Save
      <3>2. r \in [at : {"idle", "editing", "rollback", "saved", "publish", "run"},
                   text : Definitions \cup {{}}, rev : Nat] /\ r.at = "idle"
        OBVIOUS
      <3> HIDE DEF r
      <3> QED
        BY <3>1, <3>2, <1>1
    <2> QED
      BY <2>1, <2>2
  <1>3. ASSUME NEW a \in Members, Flow!SaveDraft(a) \/ Flow!SaveVersion(a)
        PROVE  FlowSound'
    <2>1. CASE Flow!SaveDraft(a)
      BY <1>2, <2>1 DEF Flow!SaveDraft
    <2>2. CASE Flow!SaveVersion(a)
      BY <1>2, <2>2 DEF Flow!SaveVersion, WhatWasRead
    <2> QED
      BY <1>3, <2>1, <2>2
  <1>4. ASSUME NEW a \in Members, NEW place \in {"editing", "rollback", "publish"}, NEW text \in Definitions,
               Flow!Reads(a, place, text), UNCHANGED <<flow, versions, trigger, next, runs, clock, timer>>,
               place # "publish" => flow.rev < MaxRevision
        PROVE  FlowSound'
    <2> DEFINE r == [at |-> place, text |-> text, rev |-> flow.rev]
    <2>1. member' = [member EXCEPT ![a] = r]
      BY <1>4
    <2>2. r \in [at : {"idle", "editing", "rollback", "saved", "publish", "run"},
                 text : Definitions \cup {{}}, rev : Nat] /\ r.at = place /\ r.text = text /\ r.rev = flow.rev
      OBVIOUS
    <2> HIDE DEF r
    <2> QED
      BY <1>1, <1>4, <2>1, <2>2
  <1>5. ASSUME NEW a \in Members, Flow!OpenDraft(a) \/ Flow!ReadForPublish(a) \/ Flow!ReadVersion(a)
        PROVE  FlowSound'
    <2>1. CASE Flow!OpenDraft(a)
      BY <1>4, <2>1 DEF Flow!OpenDraft
    <2>2. CASE Flow!ReadForPublish(a)
      BY <1>4, <2>2 DEF Flow!ReadForPublish
    <2>3. CASE Flow!ReadVersion(a)
      <3>1. PICK v \in 1 .. Len(versions) : Flow!Reads(a, "rollback", versions[v])
        BY <2>3 DEF Flow!ReadVersion
      <3>2. versions[v] \in Definitions
        OBVIOUS
      <3> QED
        BY <1>4, <2>3, <3>1, <3>2 DEF Flow!ReadVersion
    <2> QED
      BY <1>5, <2>1, <2>2, <2>3
  <1>6. ASSUME NEW a \in Members, Flow!ReadForRun(a)
        PROVE  FlowSound'
    <2> DEFINE r == [at |-> "run", text |-> {}, rev |-> flow.published]
    <2>1. member' = [member EXCEPT ![a] = r] /\ UNCHANGED <<flow, versions, trigger, next, runs, clock, timer>>
      BY <1>6 DEF Flow!ReadForRun
    <2>2. r \in [at : {"idle", "editing", "rollback", "saved", "publish", "run"},
                 text : Definitions \cup {{}}, rev : Nat] /\ r.at = "run" /\ r.rev = flow.published
      OBVIOUS
    <2>3. flow.published \in 1 .. Len(versions)
      BY <1>6 DEF Flow!ReadForRun, WhatWasRead
    <2> HIDE DEF r
    <2> QED
      BY <1>1, <2>1, <2>2, <2>3
  <1>7. ASSUME NEW a \in Members, Flow!Publish(a)
        PROVE  FlowSound'
    <2> DEFINE text == member[a].text
               newest == Len(versions) + 1
    <2>1. /\ member[a].at = "publish" /\ Len(versions) < MaxPublished /\ text \in Definitions
          /\ member' = [member EXCEPT ![a] = [at |-> "idle", text |-> {}, rev |-> 0]]
          /\ versions' = Append(versions, text)
          /\ flow' = [flow EXCEPT !.status = "published", !.published = newest]
          /\ UNCHANGED <<next, runs, clock, timer>>
      BY <1>7 DEF Flow!Publish, WhatWasRead
    <2>2. versions' \in Seq(Definitions) /\ Len(versions') = newest /\ versions'[newest] = text
      BY <2>1, AppendProperties
    <2>3. Len(versions) \in Nat /\ newest \in Nat /\ newest # 0
      OBVIOUS
    <2>4. trigger \in [Flow!Triggers -> [enabled : BOOLEAN, version : 0 .. Len(versions)]]
      OBVIOUS
    <2>5. \A k \in Flow!Triggers : trigger'[k] =
            IF k \in text
            THEN [enabled |-> IF trigger[k].version = 0 THEN k = "schedule" ELSE trigger[k].enabled,
                  version |-> newest]
            ELSE [trigger[k] EXCEPT !.enabled = FALSE]
      BY <1>7 DEF Flow!Publish, Flow!Published
    <2>6. trigger' = [k \in Flow!Triggers |-> trigger'[k]]
      BY <1>7 DEF Flow!Publish, Flow!Published
    <2>7. flow' \in [status : {"draft", "published", "disabled", "archived"}, draft : Definitions,
                     rev : 1 .. MaxRevision, published : 0 .. newest]
          /\ flow'.published = newest /\ flow'.status = "published"
      <3>1. flow \in [status : {"draft", "published", "disabled", "archived"}, draft : Definitions,
                      rev : 1 .. MaxRevision, published : 0 .. Len(versions)]
        OBVIOUS
      <3>2. newest \in 0 .. newest
        BY <2>3
      <3> HIDE DEF FlowShape, FlowSound, text, newest
      <3> QED
        BY <2>1, <3>1, <3>2
    <2>8. timer \in [Timers -> [at : {"idle", "read", "queue", "move", "delay"}, due : 0 .. Latest,
                                version : 0 .. newest, after : 0 .. Latest + 1]]
      BY <2>3
    <2>9. member' \in [Members -> [at : {"idle", "editing", "rollback", "saved", "publish", "run"},
                                   text : Definitions \cup {{}}, rev : Nat]]
      BY <2>1
    <2>10. FlowShape => next \in 0 .. Latest + 1 /\ clock \in 1 .. Latest
                        /\ runs \in Seq([version : Nat, due : 0 .. Latest, open : BOOLEAN])
      OBVIOUS
    <2> HIDE DEF text, newest
    <2>11. /\ \A k \in Flow!Triggers : trigger'[k] \in [enabled : BOOLEAN, version : 0 .. newest]
           /\ trigger'["schedule"].enabled => trigger'["schedule"].version = newest /\ "schedule" \in text
      <3> HIDE DEF FlowShape, FlowSound
      <3>1. ASSUME NEW k \in Flow!Triggers, k \in text
            PROVE  trigger'[k] \in [enabled : BOOLEAN, version : 0 .. newest] /\ trigger'[k].version = newest
        <4>1. (IF trigger[k].version = 0 THEN k = "schedule" ELSE trigger[k].enabled) \in BOOLEAN
          BY <2>4
        <4>2. PICK b \in BOOLEAN : trigger'[k] = [enabled |-> b, version |-> newest]
          BY <2>5, <3>1, <4>1
        <4> QED
          BY <2>3, <4>2
      <3>2. ASSUME NEW k \in Flow!Triggers, k \notin text
            PROVE  trigger'[k] \in [enabled : BOOLEAN, version : 0 .. newest] /\ ~trigger'[k].enabled
        <4>1. trigger'[k] = [enabled |-> FALSE, version |-> trigger[k].version]
          BY <2>4, <2>5, <3>2
        <4>2. trigger[k].version \in 0 .. newest
          <5>1. trigger[k].version \in 0 .. Len(versions)
            BY <2>4
          <5> QED
            BY <2>3, <5>1 DEF newest
        <4> QED
          BY <4>1, <4>2
      <3> QED
        BY <3>1, <3>2
    <2>12. FlowShape'
      <3> HIDE DEF FlowSound
      <3>1. next' \in 0 .. Latest + 1 /\ clock' \in 1 .. Latest
            /\ runs' \in Seq([version : Nat, due : 0 .. Latest, open : BOOLEAN])
        BY <2>1, <2>10 DEF FlowSound
      <3>2. trigger' \in [Flow!Triggers -> [enabled : BOOLEAN, version : 0 .. newest]]
        BY <2>6, <2>11
      <3>3. timer' \in [Timers -> [at : {"idle", "read", "queue", "move", "delay"}, due : 0 .. Latest,
                                   version : 0 .. newest, after : 0 .. Latest + 1]]
        BY <2>1, <2>8
      <3> QED
        BY <2>2, <2>7, <2>9, <3>1, <3>2, <3>3, Zenon DEF FlowShape
    <2>13. WhatWasRead'
      <3>1. WhatWasRead /\ DOMAIN runs = 1 .. Len(runs)
        OBVIOUS
      <3>2. \A b \in Members : member'[b] = member[b] \/ member'[b].at = "idle"
        BY <2>1
      <3> HIDE DEF FlowShape, FlowSound
      <3> QED
        BY <2>1, <2>2, <2>3, <2>7, <2>11, <3>1, <3>2 DEF WhatWasRead, newest
    <2>14. Flow!EnabledIsPublished'
      BY <2>1, <2>2, <2>7, <2>11 DEF Flow!EnabledIsPublished
    <2> QED
      BY <2>1, <2>12, <2>13, <2>14 DEF Flow!FiresOnce
  <1>8. CASE Flow!Unpublish \/ Flow!Archive \/ Flow!IssueToken
    <2>1. UNCHANGED <<versions, next, runs, clock, timer, member>>
      BY <1>8 DEF Flow!Unpublish, Flow!Archive, Flow!IssueToken
    <2>2. \/ flow' = flow /\ trigger' = [trigger EXCEPT !["api"].enabled = TRUE]
          \/ /\ flow' = [flow EXCEPT !.status = "disabled"] \/ flow' = [flow EXCEPT !.status = "archived"]
             /\ trigger' = Flow!Disabled
      BY <1>8 DEF Flow!Unpublish, Flow!Archive, Flow!IssueToken
    <2>3. /\ trigger' \in [Flow!Triggers -> [enabled : BOOLEAN, version : 0 .. Len(versions)]]
          /\ trigger'["schedule"].enabled => flow' = flow /\ trigger'["schedule"] = trigger["schedule"]
      <3>1. trigger \in [Flow!Triggers -> [enabled : BOOLEAN, version : 0 .. Len(versions)]]
        OBVIOUS
      <3> HIDE DEF FlowShape, FlowSound
      <3>2. ASSUME flow' = flow, trigger' = [trigger EXCEPT !["api"].enabled = TRUE]
            PROVE  /\ trigger' \in [Flow!Triggers -> [enabled : BOOLEAN, version : 0 .. Len(versions)]]
                   /\ trigger'["schedule"] = trigger["schedule"]
        BY <3>1, <3>2
      <3>3. ASSUME trigger' = Flow!Disabled
            PROVE  /\ trigger' \in [Flow!Triggers -> [enabled : BOOLEAN, version : 0 .. Len(versions)]]
                   /\ ~trigger'["schedule"].enabled
        <4>1. \A k \in Flow!Triggers : trigger'[k] = [enabled |-> FALSE, version |-> trigger[k].version]
          BY <3>1, <3>3 DEF Flow!Disabled
        <4>2. trigger' = [k \in Flow!Triggers |-> trigger'[k]]
          BY <3>3 DEF Flow!Disabled
        <4>3. \A k \in Flow!Triggers : trigger[k].version \in 0 .. Len(versions)
          BY <3>1
        <4>4. \A k \in Flow!Triggers : trigger'[k] \in [enabled : BOOLEAN, version : 0 .. Len(versions)]
          <5> SUFFICES ASSUME NEW k \in Flow!Triggers
                       PROVE  trigger'[k] \in [enabled : BOOLEAN, version : 0 .. Len(versions)]
            OBVIOUS
          <5> HIDE DEF Flow!Triggers
          <5>1. trigger'[k] = [enabled |-> FALSE, version |-> trigger[k].version]
            BY <4>1
          <5>2. trigger[k].version \in 0 .. Len(versions)
            BY <4>3
          <5> QED
            BY <5>1, <5>2
        <4> QED
          BY <4>1, <4>2, <4>4
      <3> QED
        BY <2>2, <3>2, <3>3
    <2>4. FlowShape'
      BY <2>1, <2>2, <2>3
    <2>5. WhatWasRead'
      BY <2>1, <2>2, <2>3 DEF WhatWasRead
    <2>6. Flow!EnabledIsPublished'
      BY <2>1, <2>3 DEF Flow!EnabledIsPublished
    <2> QED
      BY <2>1, <2>4, <2>5, <2>6 DEF Flow!FiresOnce
  <1>9. ASSUME NEW fired \in [version : 1 .. Len(versions), due : 0 .. Latest, open : BOOLEAN],
               runs' = Append(runs, fired), fired.due # 0 => \A i \in DOMAIN runs : runs[i].due # fired.due,
               UNCHANGED <<versions>>
        PROVE  /\ runs' \in Seq([version : Nat, due : 0 .. Latest, open : BOOLEAN])
               /\ \A i \in DOMAIN runs' : runs'[i].version \in 1 .. Len(versions')
               /\ Flow!FiresOnce'
    <2>1. runs \in Seq([version : Nat, due : 0 .. Latest, open : BOOLEAN]) /\ Len(runs) \in Nat
          /\ \A i \in DOMAIN runs : runs[i].version \in 1 .. Len(versions)
      BY DEF WhatWasRead
    <2>2. Flow!FiresOnce
      OBVIOUS
    <2>3. fired \in [version : Nat, due : 0 .. Latest, open : BOOLEAN]
      OBVIOUS
    <2> HIDE DEF FlowShape, FlowSound
    <2>4. /\ runs' \in Seq([version : Nat, due : 0 .. Latest, open : BOOLEAN])
          /\ DOMAIN runs = 1 .. Len(runs) /\ DOMAIN runs' = 1 .. Len(runs) + 1
          /\ \A i \in 1 .. Len(runs) + 1 : runs'[i] = IF i = Len(runs) + 1 THEN fired ELSE runs[i]
      BY <1>9, <2>1, <2>3, Appended
    <2>5. \A i \in DOMAIN runs' : runs'[i].version \in 1 .. Len(versions')
      BY <1>9, <2>1, <2>4
    <2>6. Flow!FiresOnce'
      BY <1>9, <2>1, <2>2, <2>4 DEF Flow!FiresOnce
    <2> QED
      BY <2>4, <2>5, <2>6
  <1>10. ASSUME NEW a \in Members, Flow!QueueRun(a)
        PROVE  FlowSound'
    <2>1. /\ runs' = Append(runs, [version |-> member[a].rev, due |-> 0, open |-> TRUE])
          /\ member' = [member EXCEPT ![a] = [at |-> "idle", text |-> {}, rev |-> 0]]
          /\ UNCHANGED <<flow, versions, trigger, next, clock, timer>>
      BY <1>10 DEF Flow!QueueRun, Flow!Queued
    <2>2. [version |-> member[a].rev, due |-> 0, open |-> TRUE] \in
            [version : 1 .. Len(versions), due : 0 .. Latest, open : BOOLEAN]
      BY <1>10 DEF Flow!QueueRun, WhatWasRead
    <2>3. /\ runs' \in Seq([version : Nat, due : 0 .. Latest, open : BOOLEAN])
          /\ \A i \in DOMAIN runs' : runs'[i].version \in 1 .. Len(versions')
          /\ Flow!FiresOnce'
      BY <2>1, <2>2, <1>9
    <2> QED
      BY <2>1, <2>3 DEF WhatWasRead, Flow!EnabledIsPublished
  <1>11. ASSUME NEW i, Flow!RunEnds(i)
        PROVE  FlowSound'
    <2> DEFINE over == [runs[i] EXCEPT !.open = FALSE]
    <2>1. i \in DOMAIN runs /\ runs' = [runs EXCEPT ![i] = over]
          /\ UNCHANGED <<flow, versions, trigger, next, clock, timer, member>>
      BY <1>11 DEF Flow!RunEnds
    <2>2. runs \in Seq([version : Nat, due : 0 .. Latest, open : BOOLEAN])
      OBVIOUS
    <2>3. FlowShape /\ WhatWasRead /\ Flow!FiresOnce /\ Flow!EnabledIsPublished
      OBVIOUS
    <2> HIDE DEF FlowShape, FlowSound
    <2>4. DOMAIN runs = 1 .. Len(runs) /\ runs[i] \in [version : Nat, due : 0 .. Latest, open : BOOLEAN]
      BY <2>1, <2>2, LenProperties, ElementOfSeq
    <2>5. over \in [version : Nat, due : 0 .. Latest, open : BOOLEAN]
          /\ over.version = runs[i].version /\ over.due = runs[i].due
      BY <2>4
    <2> HIDE DEF over
    <2>6. /\ runs' \in Seq([version : Nat, due : 0 .. Latest, open : BOOLEAN]) /\ Len(runs') = Len(runs)
          /\ \A j \in 1 .. Len(runs) : runs'[j] = IF j = i THEN over ELSE runs[j]
      BY <2>1, <2>2, <2>4, <2>5, ExceptSeq
    <2>7. /\ DOMAIN runs' = DOMAIN runs
          /\ \A j \in DOMAIN runs : runs'[j].version = runs[j].version /\ runs'[j].due = runs[j].due
      BY <2>4, <2>5, <2>6, LenProperties
    <2>8. FlowShape'
      BY <2>1, <2>3, <2>6 DEF FlowShape
    <2>9. WhatWasRead'
      BY <2>1, <2>3, <2>7 DEF WhatWasRead
    <2> QED
      BY <2>1, <2>3, <2>7, <2>8, <2>9 DEF FlowSound, Flow!FiresOnce, Flow!EnabledIsPublished
  <1>12. CASE Flow!Tick \/ UNCHANGED flowVars
    <2>1. UNCHANGED <<flow, versions, trigger, next, runs, timer, member>> /\ clock' \in 1 .. Latest
      BY <1>12 DEF Flow!Tick, flowVars
    <2>2. FlowShape'
      BY <2>1
    <2> HIDE DEF FlowShape
    <2> QED
      BY <2>1, <2>2 DEF WhatWasRead, Flow!FiresOnce, Flow!EnabledIsPublished
  <1>13. CASE Flow!Crash
    <2>1. /\ timer' = [w \in Timers |-> [at |-> "idle", due |-> 0, version |-> 0, after |-> 0]]
          /\ \A a \in Members : member'[a] = member[a] \/ member'[a] = [at |-> "idle", text |-> {}, rev |-> 0]
          /\ member' = [a \in Members |-> member'[a]]
          /\ UNCHANGED <<flow, versions, trigger, next, runs, clock>>
      BY <1>13 DEF Flow!Crash
    <2>2. FlowShape'
      BY <2>1
    <2> HIDE DEF FlowShape
    <2>3. WhatWasRead'
      BY <2>1 DEF WhatWasRead
    <2> QED
      BY <2>1, <2>2, <2>3 DEF Flow!FiresOnce, Flow!EnabledIsPublished
  <1>14. ASSUME NEW w \in Timers, NEW r, timer' = [timer EXCEPT ![w] = r],
               r \in [at : {"idle", "read", "queue", "move", "delay"}, due : 0 .. Latest,
                      version : 0 .. Len(versions), after : 0 .. Latest + 1],
               r.at \in {"read", "queue"} => r.version # 0,
               next' \in 0 .. Latest + 1,
               UNCHANGED <<flow, versions, trigger, runs, clock, member>>
        PROVE  FlowSound'
    BY <1>14 DEF WhatWasRead, Flow!FiresOnce, Flow!EnabledIsPublished
  <1>15. ASSUME NEW w \in Timers, Flow!LookForDue(w)
        PROVE  FlowSound'
    <2> DEFINE r == [at |-> IF next = 0 THEN "move" ELSE "read", due |-> next,
                     version |-> trigger["schedule"].version, after |-> clock + 1]
    <2>1. /\ timer' = [timer EXCEPT ![w] = r] /\ trigger["schedule"].enabled /\ next <= clock
          /\ UNCHANGED <<flow, versions, trigger, next, runs, clock, member>>
      BY <1>15 DEF Flow!LookForDue
    <2>2. r \in [at : {"idle", "read", "queue", "move", "delay"}, due : 0 .. Latest,
                 version : 0 .. Len(versions), after : 0 .. Latest + 1]
      BY <2>1
    <2>3. r.version # 0
      BY <2>1 DEF WhatWasRead
    <2> HIDE DEF r
    <2> QED
      BY <1>14, <2>1, <2>2, <2>3
  <1>16. ASSUME NEW w \in Timers, NEW place \in {"queue", "delay", "move"}, timer[w].at # "idle",
               place = "queue" => timer[w].at = "read", Flow!Goes(w, place),
               UNCHANGED <<flow, versions, trigger, next, runs, clock, member>>
        PROVE  FlowSound'
    <2> DEFINE r == [timer[w] EXCEPT !.at = place]
    <2>1. timer' = [timer EXCEPT ![w] = r]
      BY <1>16 DEF Flow!Goes
    <2>2. r \in [at : {"idle", "read", "queue", "move", "delay"}, due : 0 .. Latest,
                 version : 0 .. Len(versions), after : 0 .. Latest + 1] /\ r.at = place /\ r.version = timer[w].version
      <3>1. timer[w] \in [at : {"idle", "read", "queue", "move", "delay"}, due : 0 .. Latest,
                          version : 0 .. Len(versions), after : 0 .. Latest + 1]
        OBVIOUS
      <3> HIDE DEF FlowShape, FlowSound
      <3> QED
        BY <3>1
    <2>3. place = "queue" => r.version # 0
      BY <1>16, <2>2 DEF WhatWasRead
    <2> HIDE DEF r
    <2> QED
      BY <1>14, <1>16, <2>1, <2>2, <2>3
  <1>17. ASSUME NEW w \in Timers, Flow!ReadFlow(w) \/ Flow!Refused(w)
        PROVE  FlowSound'
    <2>1. CASE Flow!ReadFlow(w)
      BY <1>16, <2>1 DEF Flow!ReadFlow
    <2>2. CASE Flow!Refused(w)
      BY <1>16, <2>2 DEF Flow!Refused
    <2> QED
      BY <1>17, <2>1, <2>2
  <1>18. ASSUME NEW w \in Timers, Flow!QueueDue(w)
        PROVE  FlowSound'
    <2>1. /\ timer[w].at = "queue" /\ timer' = [timer EXCEPT ![w].at = "move"]
          /\ UNCHANGED <<flow, versions, trigger, next, clock, member>>
      BY <1>18 DEF Flow!QueueDue, Flow!Goes
    <2>2. timer' \in [Timers -> [at : {"idle", "read", "queue", "move", "delay"}, due : 0 .. Latest,
                                 version : 0 .. Len(versions), after : 0 .. Latest + 1]]
          /\ \A v \in Timers : timer'[v].at \in {"read", "queue"} => timer'[v].version # 0
      <3>1. WhatWasRead /\ timer \in [Timers -> [at : {"idle", "read", "queue", "move", "delay"}, due : 0 .. Latest,
                                                 version : 0 .. Len(versions), after : 0 .. Latest + 1]]
        OBVIOUS
      <3> HIDE DEF FlowShape, FlowSound
      <3> QED
        BY <2>1, <3>1 DEF WhatWasRead
    <2>3. CASE Flow!QueuedBefore(w)
      <3>1. UNCHANGED runs
        BY <1>18, <2>3 DEF Flow!QueueDue
      <3> QED
        BY <2>1, <2>2, <3>1 DEF WhatWasRead, Flow!FiresOnce, Flow!EnabledIsPublished
    <2>4. CASE ~Flow!QueuedBefore(w)
      <3> DEFINE fired == [version |-> timer[w].version, due |-> timer[w].due, open |-> TRUE]
      <3>1. runs' = Append(runs, fired)
        BY <1>18, <2>4 DEF Flow!QueueDue, Flow!Queued
      <3>2. fired \in [version : 1 .. Len(versions), due : 0 .. Latest, open : BOOLEAN] /\ fired.due = timer[w].due
        BY <2>1 DEF WhatWasRead
      <3>3. \A i \in DOMAIN runs : runs[i].due # timer[w].due
        BY <2>4 DEF Flow!QueuedBefore
      <3> HIDE DEF fired
      <3>4. /\ runs' \in Seq([version : Nat, due : 0 .. Latest, open : BOOLEAN])
            /\ \A i \in DOMAIN runs' : runs'[i].version \in 1 .. Len(versions')
            /\ Flow!FiresOnce'
        BY <1>9, <2>1, <3>1, <3>2, <3>3
      <3> QED
        BY <2>1, <2>2, <3>4 DEF WhatWasRead, Flow!EnabledIsPublished
    <2> QED
      BY <2>3, <2>4
  <1>19. ASSUME NEW w \in Timers, Flow!MoveOn(w) \/ Flow!PutOff(w)
        PROVE  FlowSound'
    <2> DEFINE r == [at |-> "idle", due |-> 0, version |-> 0, after |-> 0]
    <2>1. /\ timer' = [timer EXCEPT ![w] = r] /\ next' \in 0 .. Latest + 1
          /\ UNCHANGED <<flow, versions, trigger, runs, clock, member>>
      BY <1>19 DEF Flow!MoveOn, Flow!MovedTo, Flow!PutOff
    <2>2. r \in [at : {"idle", "read", "queue", "move", "delay"}, due : 0 .. Latest,
                 version : 0 .. Len(versions), after : 0 .. Latest + 1] /\ r.at = "idle"
      OBVIOUS
    <2> HIDE DEF r
    <2> QED
      BY <1>14, <2>1, <2>2
  <1> QED
    BY <1>3, <1>5, <1>6, <1>7, <1>8, <1>10, <1>11, <1>12, <1>13, <1>15, <1>17, <1>18, <1>19
       DEF Flow!Next, Flow!TimerStep

\* Only Save() moves the revision on, over the one its caller read.
LEMMA OverWhatWasRead ==
  ASSUME FlowSound, [Flow!Next]_flowVars
  PROVE  flow'.rev # flow.rev =>
           \E a \in Members : member[a].at \in {"editing", "rollback"} /\ member[a].rev = flow.rev
                              /\ member'[a] # member[a]
  <1> DEFINE SameRev == flow'.rev = flow.rev
             Seen == \E a \in Members : member[a].at \in {"editing", "rollback"} /\ member[a].rev = flow.rev
                                        /\ member'[a] # member[a]
  <1> USE DEF FlowSound, FlowShape, Flow!IdleMember, Flow!Idle, Flow!Reads, Flow!stored
  <1>1. ASSUME NEW a \in Members, NEW text, NEW then \in {"idle", "saved"}, Flow!Save(a, text, then),
               member[a].at \in {"editing", "rollback"}
        PROVE  SameRev \/ Seen
    <2>1. CASE Flow!Current(a)
      <3>1. member' = [member EXCEPT ![a] = [at |-> then, text |-> {}, rev |-> 0]] /\ member[a].rev = flow.rev
        <4> HIDE DEF FlowShape, FlowSound, Flow!IdleMember
        <4> QED
          BY <1>1, <2>1, IdleThen DEF Flow!Save, Flow!Current
      <3>2. member'[a].at = then /\ member'[a] # member[a]
        BY <1>1, <3>1
      <3> QED
        BY <1>1, <3>1, <3>2
    <2>2. CASE ~Flow!Current(a)
      BY <1>1, <2>2 DEF Flow!Save
    <2> QED
      BY <2>1, <2>2
  <1>2. ASSUME NEW a \in Members, Flow!SaveDraft(a) \/ Flow!SaveVersion(a)
        PROVE  SameRev \/ Seen
    BY <1>1, <1>2 DEF Flow!SaveDraft, Flow!SaveVersion
  <1>3. ASSUME NEW a \in Members,
               \/ Flow!OpenDraft(a) \/ Flow!ReadVersion(a) \/ Flow!ReadForPublish(a) \/ Flow!ReadForRun(a)
               \/ Flow!QueueRun(a) \/ Flow!Publish(a)
        PROVE  SameRev
    BY <1>3 DEF Flow!OpenDraft, Flow!ReadVersion, Flow!ReadForPublish, Flow!ReadForRun, Flow!QueueRun, Flow!Publish
  <1>4. CASE \/ Flow!Unpublish \/ Flow!Archive \/ Flow!Crash \/ Flow!IssueToken \/ Flow!Tick
             \/ (\E i \in 1 .. Latest + MaxManual : Flow!RunEnds(i)) \/ UNCHANGED flowVars
    BY <1>4 DEF Flow!Unpublish, Flow!Archive, Flow!Crash, Flow!IssueToken, Flow!Tick, Flow!RunEnds, flowVars
  <1>5. ASSUME NEW w \in Timers, Flow!TimerStep(w) \/ Flow!Refused(w)
        PROVE  SameRev
    BY <1>5 DEF Flow!TimerStep, Flow!LookForDue, Flow!ReadFlow, Flow!QueueDue, Flow!MoveOn, Flow!PutOff, Flow!Refused
  <1> QED
    BY <1>2, <1>3, <1>4, <1>5 DEF Flow!Next

\* A turn leaves its model only for the stand-in of a primary that failed, which is
\* another one unless the slots were repointed meanwhile (ModelSession); a saved draft
\* replaces the one its author had read (save_draft(), rollback()), whoever writes in
\* between, for any number of turns, members and workers.
THEOREM StepsActOnWhatTheyRead == ServicesSpec => ActsOnWhatItRead
  <1> DEFINE ForCause == \A t \in Turns : turn[t].at # "none" /\ turn'[t].at # "none" /\ turn'[t].model # turn[t].model =>
                            turn[t].mode = "auto" /\ turn[t].failed = turn[t].model
             Over == flow'.rev # flow.rev =>
                       \E a \in Members : member[a].at \in {"editing", "rollback"} /\ member[a].rev = flow.rev
                                           /\ member'[a] # member[a]
  <1>1. ServicesSpec => []ForItsFailure
    BY ForItsFailureInit, ForItsFailureNext, RoutingSteps, PTL DEF ServicesSpec
  <1>2. ServicesSpec => []FlowSound
    BY FlowSoundInit, FlowSoundNext, FlowSteps, PTL DEF ServicesSpec
  <1>3. ForItsFailure => Routing!StandInIsAnother
    BY DEF ForItsFailure, Routing!StandInIsAnother
  <1>4. ForItsFailure /\ [ServicesNext]_parts => [ForCause]_routeVars
    BY LeavesForCause, RoutingSteps
  <1>5. FlowSound /\ [ServicesNext]_parts => [Over]_flowVars
    BY OverWhatWasRead, FlowSteps
  <1>6. ServicesSpec => Routing!TurnIsStable
    BY <1>1, <1>3, <1>4, PTL DEF ServicesSpec, Routing!TurnIsStable, Routing!TurnChangesForCause, Routing!routeVars, routeVars
  <1>7. ServicesSpec => Flow!SavesWhatWasSeen
    BY <1>2, <1>5, PTL DEF ServicesSpec, Flow!SavesWhatWasSeen, Flow!versionVars, flowVars
  <1> QED
    BY <1>6, <1>7 DEF ActsOnWhatItRead

-----------------------------------------------------------------------------
(* MessageInbox: a message is handled by one consumer.                       *)

LEMMA InboxSteps ==
  ASSUME [ServicesNext]_parts
  PROVE  [Inbox!Next]_inboxVars
  BY DEF ServicesNext, Rest, parts, inboxVars

InboxShape ==
  /\ msg \in [Messages -> [status : Inbox!Final \cup {"absent", "pending", "retry", "processing"},
                           due : BOOLEAN, lease : {"none", "live", "lapsed"}]]
  /\ cpc \in [Consumers -> Inbox!Final \cup {"none", "loop", "handle", "retry"}]
  /\ cur \in [Consumers -> Messages \cup {Inbox!Nothing}]
  /\ \A c \in Consumers : cur[c] = Inbox!Nothing <=> cpc[c] \in {"none", "loop"}
  /\ handled \in [Messages -> Nat] /\ again \subseteq Messages

\* Unless its reply failed or its lease ended too early, a message is in the hands of
\* one consumer, under a lease; and what had its effects is about to be done, or done.
InOneHand ==
  \A m \in Messages : m \notin again =>
    /\ \A c, d \in Consumers : cur[c] = m /\ cur[d] = m => c = d
    /\ \A c \in Consumers : cur[c] = m => msg[m].status = "processing" /\ msg[m].lease = "live"
    /\ handled[m] > 0 =>
         /\ handled[m] = 1
         /\ \/ msg[m].status = "done"
            \/ msg[m].status = "processing" /\ msg[m].lease = "live"
         /\ \A c \in Consumers : cur[c] = m => cpc[c] = "done"

\* Between the end of one manager and the start of the next nobody looks for messages.
OneAtMost ==
  /\ \A c, d \in Consumers \ stopping : cpc[c] # "none" /\ cpc[d] # "none" => c = d
  /\ sup.at \in {"read", "start"} => \A c \in Consumers \ stopping : cpc[c] = "none"
  /\ \A c \in stopping : c \in Consumers /\ cpc[c] # "none"
  /\ sup = [at |-> sup.at, built |-> sup.built, applied |-> sup.applied]

Handed == InboxShape /\ InOneHand /\ OneAtMost

LEMMA HandedInit == ServicesInit => Handed
  <1> SUFFICES ASSUME Inbox!Init PROVE Handed
    BY DEF ServicesInit
  <1> QED
    BY InboxAssumption DEF Inbox!Init, Inbox!Nothing, Inbox!Final, Handed, InboxShape, InOneHand, OneAtMost

LEMMA HandedNext ==
  ASSUME Handed, [Inbox!Next]_inboxVars
  PROVE  Handed'
  <1> USE InboxAssumption DEF Handed, InboxShape, Inbox!Final, Inbox!Nothing, Inbox!consumer
  <1>1. ASSUME NEW m \in Messages, Inbox!Enqueue(m) \/ Inbox!Ripens(m)
        PROVE  Handed'
    <2>1. CASE Inbox!Enqueue(m)
      <3>1. InboxShape'
        BY <2>1 DEF Inbox!Enqueue
      <3>2. InOneHand'
        BY <2>1 DEF Inbox!Enqueue, InOneHand
      <3> QED
        BY <2>1, <3>1, <3>2 DEF Inbox!Enqueue, OneAtMost
    <2>2. CASE Inbox!Ripens(m)
      <3>1. InboxShape'
        BY <2>2 DEF Inbox!Ripens
      <3>2. InOneHand'
        BY <2>2 DEF Inbox!Ripens, InOneHand
      <3> QED
        BY <2>2, <3>1, <3>2 DEF Inbox!Ripens, OneAtMost
    <2> QED
      BY <1>1, <2>1, <2>2
  <1>2. ASSUME NEW m \in Messages, Inbox!LeaseLapses(m)
        PROVE  Handed'
    <2>1. InboxShape'
      BY <1>2 DEF Inbox!LeaseLapses
    <2>2. InOneHand'
      BY <1>2 DEF Inbox!LeaseLapses, InOneHand
    <2> QED
      BY <1>2, <2>1, <2>2 DEF Inbox!LeaseLapses, OneAtMost
  <1>3. ASSUME NEW c \in Consumers, NEW m \in Messages, Inbox!Claim(c, m)
        PROVE  Handed'
    <2>1. /\ msg' = [msg EXCEPT ![m] = [status |-> "processing", due |-> FALSE, lease |-> "live"]]
          /\ cpc' = [cpc EXCEPT ![c] = "handle"] /\ cur' = [cur EXCEPT ![c] = m]
          /\ cpc[c] = "loop" /\ UNCHANGED <<stopping, handled, again, saved, sup, crashes>>
      BY <1>3 DEF Inbox!Claim
    <2>2. Inbox!Eligible(m)
      BY <1>3 DEF Inbox!Claim
    <2>3. InboxShape'
      BY <2>1
    <2>4. m \notin again => handled[m] = 0 /\ \A d \in Consumers : cur[d] # m
      BY <2>2 DEF Inbox!Eligible, InOneHand
    <2>5. InOneHand'
      BY <2>1, <2>4 DEF InOneHand
    <2>6. OneAtMost'
      BY <2>1 DEF OneAtMost
    <2> QED
      BY <2>3, <2>5, <2>6
  <1>4. ASSUME NEW c \in Consumers, Inbox!Handle(c)
        PROVE  Handed'
    <2> DEFINE m == cur[c]
    <2>1. cpc[c] = "handle" /\ UNCHANGED <<msg, cur, stopping, saved, sup, crashes>>
      BY <1>4 DEF Inbox!Handle
    <2>2. CASE UNCHANGED <<handled, again>> /\ \E o \in {"ignored", "failed", "retry"} : cpc' = [cpc EXCEPT ![c] = o]
      <3>1. InboxShape'
        BY <2>1, <2>2
      <3>2. InOneHand'
        BY <2>1, <2>2 DEF InOneHand
      <3>3. OneAtMost'
        BY <2>1, <2>2 DEF OneAtMost
      <3> QED
        BY <3>1, <3>2, <3>3
    <2>3. ASSUME NEW o \in {"done", "retry"},
                 handled' = [handled EXCEPT ![m] = IF @ < 2 THEN @ + 1 ELSE @],
                 cpc' = [cpc EXCEPT ![c] = o],
                 again' = IF o = "retry" THEN again \cup {m} ELSE again
          PROVE  Handed'
      <3>1. m \in Messages /\ handled[m] \in Nat
        BY <2>1
      <3>2. handled' \in [Messages -> Nat] /\ again' \subseteq Messages
        <4> DEFINE n == IF handled[m] < 2 THEN handled[m] + 1 ELSE handled[m]
        <4>0. n \in Nat
          BY <3>1
        <4>1. handled' = [handled EXCEPT ![m] = n]
          BY <2>3
        <4>2. again' = again \/ again' = again \cup {m}
          BY <2>3
        <4> HIDE DEF m, n
        <4> QED
          BY <3>1, <4>0, <4>1, <4>2
      <3>3. InboxShape'
        BY <2>1, <2>3, <3>2
      <3>4. InOneHand'
        BY <2>1, <2>3, <3>1 DEF InOneHand
      <3>5. OneAtMost'
        BY <2>1, <2>3 DEF OneAtMost
      <3> QED
        BY <3>3, <3>4, <3>5
    <2> QED
      BY <1>4, <2>2, <2>3 DEF Inbox!Handle
  <1>5. ASSUME NEW c \in Consumers, Inbox!Finish(c)
        PROVE  Handed'
    <2> DEFINE m == cur[c]
    <2>1. /\ cpc[c] \in {"done", "ignored", "failed", "retry"}
          /\ msg' = [msg EXCEPT ![m] = [status |-> cpc[c], due |-> FALSE, lease |-> "none"]]
          /\ cpc' = [cpc EXCEPT ![c] = "loop"] /\ cur' = [cur EXCEPT ![c] = 0]
          /\ UNCHANGED <<stopping, handled, again, saved, sup, crashes>>
      BY <1>5 DEF Inbox!Finish, Inbox!Dropped
    <2>2. InboxShape'
      BY <2>1
    <2>3. InOneHand'
      BY <2>1 DEF InOneHand
    <2>4. OneAtMost'
      BY <2>1 DEF OneAtMost
    <2> QED
      BY <2>2, <2>3, <2>4
  <1>6. ASSUME NEW c \in Consumers, Inbox!Exit(c)
        PROVE  Handed'
    <2>1. InboxShape'
      BY <1>6 DEF Inbox!Exit
    <2>2. InOneHand'
      BY <1>6 DEF Inbox!Exit, InOneHand
    <2> QED
      BY <1>6, <2>1, <2>2 DEF Inbox!Exit, OneAtMost
  <1>7. CASE Inbox!SaveConfiguration \/ Inbox!ReadConfiguration \/ Inbox!NoteRevisions \/ UNCHANGED inboxVars
    <2>1. UNCHANGED <<msg, cpc, cur, stopping, handled, again>>
      BY <1>7 DEF Inbox!SaveConfiguration, Inbox!ReadConfiguration, Inbox!NoteRevisions, inboxVars
    <2>2. \/ sup' = sup \/ sup' = [sup EXCEPT !.at = "watch", !.applied = saved]
          \/ sup.at = "read" /\ sup' = [sup EXCEPT !.at = "start", !.built = saved]
      BY <1>7 DEF Inbox!SaveConfiguration, Inbox!ReadConfiguration, Inbox!NoteRevisions, inboxVars
    <2>3. OneAtMost'
      BY <2>1, <2>2 DEF OneAtMost
    <2>4. InOneHand'
      BY <2>1 DEF InOneHand
    <2> QED
      BY <2>1, <2>3, <2>4
  <1>8. CASE Inbox!Start
    <2>1. PICK c \in Consumers : cpc[c] = "none" /\ cpc' = [cpc EXCEPT ![c] = "loop"]
      BY <1>8 DEF Inbox!Start
    <2>2. InboxShape'
      BY <1>8, <2>1 DEF Inbox!Start
    <2>3. InOneHand'
      BY <1>8, <2>1 DEF Inbox!Start, InOneHand
    <2> QED
      BY <1>8, <2>1, <2>2, <2>3 DEF Inbox!Start, OneAtMost
  <1>9. CASE Inbox!Shutdown
    BY <1>9 DEF Inbox!Shutdown, Inbox!Stopped, Inbox!Rebuilt, InOneHand, OneAtMost
  <1>10. CASE Inbox!Crash
    BY <1>10 DEF Inbox!Crash, InOneHand, OneAtMost
  <1>11. ASSUME NEW c \in Consumers, Inbox!ClaimRaises(c) \/ Inbox!FinishRaises(c)
         PROVE  Handed'
    <2>1. UNCHANGED <<msg, handled, again, saved, sup>>
      BY <1>11 DEF Inbox!ClaimRaises, Inbox!FinishRaises
    <2>2. CASE Inbox!Dies(c)
      <3>1. /\ cpc' = [cpc EXCEPT ![c] = "none"] /\ cur' = [cur EXCEPT ![c] = 0] /\ stopping' = stopping \ {c}
        BY <2>2 DEF Inbox!Dies
      <3>2. InboxShape'
        BY <2>1, <3>1
      <3>3. InOneHand'
        BY <2>1, <3>1 DEF InOneHand
      <3>4. OneAtMost'
        BY <2>1, <3>1 DEF OneAtMost
      <3> QED
        BY <3>2, <3>3, <3>4
    <2>3. CASE cpc[c] = "ignored" /\ cpc' = [cpc EXCEPT ![c] = "retry"] /\ UNCHANGED <<cur, stopping>>
      <3>1. InboxShape'
        BY <2>1, <2>3
      <3>2. InOneHand'
        BY <2>1, <2>3 DEF InOneHand
      <3>3. OneAtMost'
        BY <2>1, <2>3 DEF OneAtMost
      <3> QED
        BY <3>1, <3>2, <3>3
    <2> QED
      BY <1>11, <2>2, <2>3 DEF Inbox!ClaimRaises, Inbox!FinishRaises
  <1> QED
    BY <1>1, <1>2, <1>3, <1>4, <1>5, <1>6, <1>7, <1>8, <1>9, <1>10, <1>11 DEF Inbox!Next, Inbox!Supervise

LEMMA HandedByOne == Handed => Inbox!HandledByOne
  <1> SUFFICES ASSUME Handed PROVE Inbox!HandledByOne
    OBVIOUS
  <1>1. Inbox!EffectsRepeatOnlyForCause
    BY DEF Handed, InboxShape, InOneHand, Inbox!EffectsRepeatOnlyForCause
  <1>2. Inbox!OneLivingConsumer
    <2> DEFINE Looking == {c \in Consumers : cpc[c] # "none" /\ c \notin stopping}
    <2>1. Looking = {} \/ \E c \in Looking : Looking = {c}
      BY DEF Handed, OneAtMost
    <2>2. Cardinality(Looking) \in {0, 1}
      BY <2>1, FS_EmptySet, FS_Singleton, Zenon
    <2>3. Cardinality(Looking) <= 1
      BY <2>2
    <2> QED
      BY <2>3, SameCardinality, Zenon DEF Inbox!OneLivingConsumer
  <1> QED
    BY <1>1, <1>2 DEF Inbox!HandledByOne

-----------------------------------------------------------------------------
(* ResultPublication: the answer stands once.                                *)

LEMMA PublicationSteps ==
  ASSUME [ServicesNext]_parts
  PROVE  [Publication!Next]_publishVars
  BY DEF ServicesNext, Rest, parts, publishVars

PublicationShape ==
  /\ result \in [Results -> {"none", "submitting", "running", "succeeded", "failed"}]
  /\ transcript \in [Results \cup Notes -> Nat] /\ extracted \in [Results -> Nat]
  /\ publications \subseteq Results /\ scheduled \subseteq Results
  /\ publisher \in [Publishers -> [at : {"idle", "close", "save", "extract", "mark"}, run : Results \cup {Publication!Free.run}]]

\* Who publishes has a run that ended, and closed its schedule's record before it saved;
\* one thread, the one that saved the answer, asks for the memory, and has not done so yet.
AnsweredOnce ==
  /\ PublicationShape
  /\ \A r \in Results :
       /\ transcript[r] = (IF r \in publications THEN 1 ELSE 0)
       /\ extracted[r] <= transcript[r]
       /\ r \in publications => r \notin scheduled /\ result[r] \in Publication!Terminal
  /\ \A p \in Publishers : publisher[p].at # "idle" =>
       /\ publisher[p].run \in Results /\ result[publisher[p].run] \in Publication!Terminal
       /\ publisher[p].at # "close" => publisher[p].run \notin scheduled
       /\ publisher[p].at \in {"extract", "mark"} => publisher[p].run \in publications
       /\ publisher[p].at = "extract" =>
            /\ extracted[publisher[p].run] = 0
            /\ \A q \in Publishers : publisher[q].at = "extract" /\ publisher[q].run = publisher[p].run => q = p

LEMMA AnsweredOnceInit == ServicesInit => AnsweredOnce
  BY DEF ServicesInit, Publication!Init, Publication!Free, Publication!Items, Publication!Terminal,
         AnsweredOnce, PublicationShape

\* What the publishers do not take part in.
LEMMA RunsKeepAnswers ==
  ASSUME AnsweredOnce, UNCHANGED <<publications, extracted, publisher>>, PublicationShape',
         \A r \in Results : transcript'[r] = transcript[r],
         \A r \in Results : result[r] \in Publication!Terminal => result'[r] = result[r],
         \A r \in Results : r \in scheduled' => r \in scheduled \/ result[r] \notin Publication!Terminal
  PROVE  AnsweredOnce'
  BY DEF AnsweredOnce, PublicationShape

LEMMA AnsweredOnceNext ==
  ASSUME AnsweredOnce, [Publication!Next]_publishVars
  PROVE  AnsweredOnce'
  <1> USE DEF PublicationShape, Publication!Terminal, Publication!conversation
  <1>0. PublicationShape
    BY DEF AnsweredOnce
  <1>1. ASSUME NEW r \in Results,
               \/ Publication!ReadHistory(r) \/ Publication!Submit(r) \/ Publication!Finish(r)
               \/ Publication!Subscribe(r) \/ Publication!Enqueue(r) \/ Publication!NoteQueued(r)
        PROVE  AnsweredOnce'
    <2>1. CASE Publication!ReadHistory(r)
      BY <1>0, <2>1, RunsKeepAnswers DEF Publication!ReadHistory
    <2>2. CASE Publication!Submit(r)
      <3>1. result[r] = "submitting" /\ result' = [result EXCEPT ![r] = "running"]
            /\ UNCHANGED <<transcript, publications, extracted, publisher>>
        BY <2>2 DEF Publication!Submit
      <3>2. scheduled' = scheduled \/ scheduled' = scheduled \cup {r}
        BY <2>2 DEF Publication!Submit
      <3> QED
        BY <1>0, <3>1, <3>2, RunsKeepAnswers
    <2>3. CASE Publication!Finish(r)
      BY <1>0, <2>3, RunsKeepAnswers DEF Publication!Finish
    <2>4. CASE Publication!Subscribe(r) \/ Publication!Enqueue(r) \/ Publication!NoteQueued(r)
      BY <1>0, <2>4, RunsKeepAnswers DEF Publication!Subscribe, Publication!Enqueue, Publication!NoteQueued
    <2> QED
      BY <1>1, <2>1, <2>2, <2>3, <2>4
  <1>2. ASSUME NEW p \in Publishers, NEW r \in Results, Publication!Begin(p, r)
        PROVE  AnsweredOnce'
    BY <1>2 DEF Publication!Begin, Publication!Unpublished, AnsweredOnce
  <1>3. ASSUME NEW p \in Publishers, Publication!CloseScheduleRun(p)
        PROVE  AnsweredOnce'
    BY <1>3 DEF Publication!CloseScheduleRun, AnsweredOnce
  <1>4. ASSUME NEW p \in Publishers, Publication!SaveAgentResult(p)
        PROVE  AnsweredOnce'
    <2> DEFINE r == publisher[p].run
    <2>1. publisher[p].at = "save" /\ UNCHANGED <<result, scheduled, extracted>>
          /\ r \in Results /\ result[r] \in Publication!Terminal /\ r \notin scheduled
      BY <1>4 DEF Publication!SaveAgentResult, AnsweredOnce
    <2>2. CASE r \in publications
      <3>1. UNCHANGED <<publications, transcript>> /\ publisher' = [publisher EXCEPT ![p].at = "mark"]
        BY <1>4, <2>2 DEF Publication!SaveAgentResult, Publication!Newly
      <3> QED
        BY <2>1, <2>2, <3>1 DEF AnsweredOnce
    <2>3. CASE r \notin publications
      <3>1. PICK place \in {"extract", "mark"} : publisher' = [publisher EXCEPT ![p].at = place]
        BY <1>4, <2>3 DEF Publication!SaveAgentResult, Publication!Newly
      <3>2. publications' = publications \cup {r} /\ transcript' = [transcript EXCEPT ![r] = @ + 1]
        BY <1>4, <2>3 DEF Publication!SaveAgentResult, Publication!Newly
      <3>3. transcript[r] = 0 /\ extracted[r] = 0
        BY <2>1, <2>3 DEF AnsweredOnce
      <3>4. PublicationShape'
        BY <1>0, <2>1, <3>1, <3>2
      <3>5. \A q \in Publishers : publisher[q].at = "extract" => publisher[q].run # r
        BY <2>3 DEF AnsweredOnce
      <3> QED
        BY <2>1, <3>1, <3>2, <3>3, <3>4, <3>5 DEF AnsweredOnce
    <2> QED
      BY <2>2, <2>3
  <1>5. ASSUME NEW p \in Publishers, Publication!Extract(p)
        PROVE  AnsweredOnce'
    <2> DEFINE r == publisher[p].run
    <2>1. /\ publisher[p].at = "extract" /\ r \in Results /\ r \in publications /\ extracted[r] = 0
          /\ extracted' = [extracted EXCEPT ![r] = @ + 1]
          /\ publisher' = [publisher EXCEPT ![p].at = "mark"]
          /\ UNCHANGED <<result, transcript, publications, scheduled>>
      BY <1>5 DEF Publication!Extract, AnsweredOnce
    <2>2. \A q \in Publishers : publisher[q].at = "extract" /\ publisher[q].run = r => q = p
      BY <2>1 DEF AnsweredOnce
    <2> QED
      BY <2>1, <2>2 DEF AnsweredOnce
  <1>6. ASSUME NEW p \in Publishers, Publication!MarkPublished(p)
        PROVE  AnsweredOnce'
    <2>1. publications' = publications /\ publisher' = [publisher EXCEPT ![p] = Publication!Free]
          /\ UNCHANGED <<result, transcript, extracted, scheduled>>
      BY <1>6 DEF Publication!MarkPublished, AnsweredOnce
    <2> QED
      BY <2>1 DEF AnsweredOnce, Publication!Free
  <1>7. ASSUME NEW n \in Notes, Publication!RecordOutbound(n)
        PROVE  AnsweredOnce'
    BY <1>0, <1>7, PublicationAssumption, RunsKeepAnswers DEF Publication!RecordOutbound
  <1>8. CASE Publication!ClearContext \/ UNCHANGED publishVars
    BY <1>0, <1>8, RunsKeepAnswers DEF Publication!ClearContext, publishVars
  <1>9. ASSUME NEW P \in SUBSET Publishers, Publication!Lose(P)
        PROVE  AnsweredOnce'
    <2>1. /\ publisher' = [p \in Publishers |-> IF p \in P THEN Publication!Free ELSE publisher[p]]
          /\ UNCHANGED <<result, transcript, publications, extracted, scheduled>>
      BY <1>9 DEF Publication!Lose
    <2> QED
      BY <2>1 DEF AnsweredOnce, Publication!Free
  <1> QED
    BY <1>1, <1>2, <1>3, <1>4, <1>5, <1>6, <1>7, <1>8, <1>9 DEF Publication!Next, Publication!PublisherStep

LEMMA AnsweredIsPublishedOnce == AnsweredOnce => Publication!PublishedOnce
  BY DEF AnsweredOnce, Publication!PublishedOnce

-----------------------------------------------------------------------------
(* WebCrawls: a run is worked by one thread, to its very end.                *)

LEMMA CrawlSteps ==
  ASSUME [ServicesNext]_parts
  PROVE  [Crawl!Next]_crawlVars
  BY DEF ServicesNext, Rest, parts, crawlVars

Lines == [status : Crawl!FrontierStatuses, depth : 0 .. MaxDepth, attempts : Nat]
Places == {"idle", "seed", "next", "fetch", "store", "index", "link", "done", "failed", "conclude", "gone", "stuck"}
AtPage == {"fetch", "store", "index", "link", "done"}
Fetching == [at : Places, run : Crawls, url : Urls, saw : Nat, got : Nat, left : SUBSET Urls]

CrawlShape ==
  /\ site \in [Urls -> Nat] /\ page \in [Urls -> Nat] /\ indexed \in [Urls -> Nat] /\ stops \in Nat
  /\ crawl \in [Crawls -> [status : {"none", "queued", "running"} \cup Crawl!Ended, cancel : BOOLEAN,
                           fetched : BOOLEAN, failed : BOOLEAN]]
  /\ frontier \in [Crawls -> [Urls -> Lines]]
  /\ fetcher \in [Fetchers -> Fetching]

WorkedAlone ==
  /\ \A w \in Fetchers : fetcher[w].at \notin {"idle", "gone"} => crawl[fetcher[w].run].status = "running"
  /\ \A w, v \in Fetchers :
       fetcher[w].at \notin {"idle", "gone"} /\ fetcher[v].at \notin {"idle", "gone"} /\ fetcher[w].run = fetcher[v].run => w = v
  /\ \A r \in Crawls :
       crawl[r].status = "running" => \E w \in Fetchers : fetcher[w].at \notin {"idle", "gone"} /\ fetcher[w].run = r

\* The address under way is the one in the hands of the run's thread, or is left by it.
PageInHand ==
  /\ \A w \in Fetchers : fetcher[w].at \in AtPage => frontier[fetcher[w].run][fetcher[w].url].status = "processing"
  /\ \A r \in Crawls : \A u \in Urls : frontier[r][u].status = "processing" =>
       \/ crawl[r].status \in Crawl!Ended
       \/ \E w \in Fetchers : /\ fetcher[w].run = r
                              /\ fetcher[w].at = "stuck" \/ (fetcher[w].at \in AtPage /\ fetcher[w].url = u)

LinksInDepth ==
  \A w \in Fetchers : fetcher[w].at = "link" /\ fetcher[w].left # {} =>
    frontier[fetcher[w].run][fetcher[w].url].depth < MaxDepth

TriedEnough ==
  \A r \in Crawls : \A u \in Urls :
    /\ frontier[r][u].attempts <= FetchAttempts + stops
    /\ frontier[r][u].status = "queued" => frontier[r][u].attempts < FetchAttempts + stops

HasSeeds(r, S) == S \subseteq Crawl!Known(r) \/ Cardinality(Crawl!Known(r)) = MaxPages

\* The seeds are in the frontier before anything is fetched, as far as there is room.
SeedsFirst ==
  /\ \A r \in Crawls : Cardinality(Crawl!Known(r)) <= MaxPages
  /\ \A w \in Fetchers :
       /\ fetcher[w].at = "seed" => HasSeeds(fetcher[w].run, Seeds \ fetcher[w].left)
       /\ fetcher[w].at \notin {"idle", "gone", "seed", "stuck"} => HasSeeds(fetcher[w].run, Seeds)
  /\ \A r \in Crawls : crawl[r].status = "succeeded" => HasSeeds(r, Seeds)

\* Nothing waits when a run comes to its conclusion.
NothingWaits ==
  /\ \A w \in Fetchers : fetcher[w].at = "conclude" =>
       \A u \in Urls : frontier[fetcher[w].run][u].status # "queued"
  /\ \A r \in Crawls : crawl[r].status = "succeeded" =>
       \A u \in Urls : frontier[r][u].status \notin {"queued", "processing"}

CrawlSound ==
  CrawlShape /\ WorkedAlone /\ PageInHand /\ LinksInDepth /\ TriedEnough /\ SeedsFirst /\ NothingWaits

LEMMA CrawlSoundInit == ServicesInit => CrawlSound
  <1> SUFFICES ASSUME Crawl!Init PROVE CrawlSound
    BY DEF ServicesInit
  <1> USE CrawlAssumption DEF Crawl!Init, Crawl!Resting, Crawl!None
  <1>1. CrawlShape
    BY DEF CrawlShape, Lines, Places, Fetching, Crawl!FrontierStatuses
  <1>2. \A r \in Crawls : Crawl!Known(r) = {}
    BY DEF Crawl!Known
  <1>3. \A r \in Crawls : Cardinality(Crawl!Known(r)) = 0
    BY <1>2, FS_EmptySet
  <1>4. SeedsFirst
    BY <1>3 DEF SeedsFirst
  <1> QED
    BY <1>1, <1>4 DEF CrawlSound, WorkedAlone, PageInHand, AtPage, LinksInDepth, TriedEnough, NothingWaits

LEMMA KnownIsFinite == \A r : IsFiniteSet(Crawl!Known(r)) /\ Cardinality(Crawl!Known(r)) \in Nat
  BY CrawlAssumption, FS_Subset, FS_CardinalityType DEF Crawl!Known

\* A row of the frontier is set.
LEMMA RowSet ==
  ASSUME CrawlShape, NEW r \in Crawls, NEW u \in Urls, NEW line \in Lines,
         frontier' = [frontier EXCEPT ![r][u] = line]
  PROVE  /\ frontier' \in [Crawls -> [Urls -> Lines]]
         /\ \A q \in Crawls : \A v \in Urls :
              frontier'[q][v] = IF q = r /\ v = u THEN line ELSE frontier[q][v]
  BY DEF CrawlShape

LEMMA KnownStays ==
  ASSUME \A q \in Crawls : \A v \in Urls : frontier'[q][v].status = "absent" <=> frontier[q][v].status = "absent"
  PROVE  \A q \in Crawls : Crawl!Known(q)' = Crawl!Known(q)
  BY DEF Crawl!Known
LEMMA SeedsStay ==
  ASSUME SeedsFirst, \A q \in Crawls : Crawl!Known(q)' = Crawl!Known(q),
         \A v \in Fetchers : fetcher'[v].run \in Crawls,
         \A v \in Fetchers : fetcher'[v].at = "seed" => fetcher'[v] = fetcher[v],
         \A v \in Fetchers : fetcher'[v].at \notin {"idle", "gone", "seed", "stuck"} => HasSeeds(fetcher'[v].run, Seeds),
         \A q \in Crawls : crawl'[q].status = "succeeded" => HasSeeds(q, Seeds)
  PROVE  SeedsFirst'
  BY DEF SeedsFirst, HasSeeds

\* The pages under way stay in the same hands, unless their run ends.
LEMMA HandsStay ==
  ASSUME PageInHand,
         \A v \in Fetchers : fetcher[v].run \in Crawls /\ fetcher'[v].run \in Crawls,
         \A v \in Fetchers : fetcher[v].url \in Urls /\ fetcher'[v].url \in Urls,
         \A q \in Crawls : \A u \in Urls :
           frontier'[q][u].status = "processing" <=> frontier[q][u].status = "processing",
         \A q \in Crawls : crawl[q].status \in Crawl!Ended => crawl'[q].status \in Crawl!Ended,
         \A v \in Fetchers : fetcher'[v].at \in AtPage =>
           fetcher[v].at \in AtPage /\ fetcher'[v].run = fetcher[v].run /\ fetcher'[v].url = fetcher[v].url,
         \A v \in Fetchers : fetcher[v].at = "stuck" =>
           fetcher'[v].at = "stuck" /\ fetcher'[v].run = fetcher[v].run,
         \A v \in Fetchers : fetcher[v].at \in AtPage =>
           \/ crawl'[fetcher[v].run].status \in Crawl!Ended
           \/ fetcher'[v].at \in AtPage /\ fetcher'[v].run = fetcher[v].run /\ fetcher'[v].url = fetcher[v].url
  PROVE  PageInHand'
  <1>1. ASSUME NEW v \in Fetchers, fetcher'[v].at \in AtPage
        PROVE  frontier'[fetcher'[v].run][fetcher'[v].url].status = "processing"
    BY <1>1 DEF PageInHand
  <1>2. ASSUME NEW q \in Crawls, NEW u \in Urls, frontier'[q][u].status = "processing"
        PROVE  \/ crawl'[q].status \in Crawl!Ended
               \/ \E v \in Fetchers : /\ fetcher'[v].run = q
                                      /\ fetcher'[v].at = "stuck" \/ (fetcher'[v].at \in AtPage /\ fetcher'[v].url = u)
    <2>1. CASE crawl[q].status \in Crawl!Ended
      BY <2>1
    <2>2. CASE crawl[q].status \notin Crawl!Ended
      <3>1. PICK v \in Fetchers : /\ fetcher[v].run = q
                                  /\ fetcher[v].at = "stuck" \/ (fetcher[v].at \in AtPage /\ fetcher[v].url = u)
        BY <1>2, <2>2 DEF PageInHand
      <3>2. CASE fetcher[v].at = "stuck"
        <4>1. fetcher'[v].at = "stuck" /\ fetcher'[v].run = q
          BY <3>1, <3>2
        <4> QED
          BY <4>1
      <3>3. CASE fetcher[v].at \in AtPage /\ fetcher[v].url = u
        <4>1. \/ crawl'[q].status \in Crawl!Ended
              \/ fetcher'[v].at \in AtPage /\ fetcher'[v].run = q /\ fetcher'[v].url = u
          BY <3>1, <3>3
        <4> QED
          BY <4>1
      <3> QED
        BY <3>1, <3>2, <3>3
    <2> QED
      BY <2>1, <2>2
  <1> QED
    BY <1>1, <1>2 DEF PageInHand

\* A thread goes on in its run and leaves the frontier as it is.
LEMMA GoesOn ==
  ASSUME CrawlSound, NEW w \in Fetchers, NEW f \in Fetching, fetcher' = [fetcher EXCEPT ![w] = f],
         fetcher[w].at \notin {"idle", "gone", "stuck"}, f.run = fetcher[w].run, f.at \notin {"idle", "gone", "seed", "stuck"},
         f.at \in AtPage <=> fetcher[w].at \in AtPage, f.at \in AtPage => f.url = fetcher[w].url,
         fetcher[w].at = "seed" => HasSeeds(f.run, Seeds),
         f.at = "conclude" => \A u \in Urls : frontier[f.run][u].status # "queued",
         f.at = "link" /\ f.left # {} => frontier[f.run][f.url].depth < MaxDepth,
         UNCHANGED <<frontier, stops>>, CrawlShape',
         \A r \in Crawls : crawl'[r].status = crawl[r].status
  PROVE  CrawlSound'
  <1> USE DEF CrawlSound, CrawlShape
  <1>1. \A r \in Crawls : Crawl!Known(r)' = Crawl!Known(r)
    BY KnownStays
  <1>2. \A v \in Fetchers : fetcher'[v] = IF v = w THEN f ELSE fetcher[v]
    OBVIOUS
  <1>3. \A v \in Fetchers : fetcher[v].run \in Crawls
    BY DEF Fetching
  <1> HIDE DEF CrawlShape
  <1>4. WorkedAlone'
    <2>1. \A v \in Fetchers : fetcher'[v].at \notin {"idle", "gone"} => crawl'[fetcher'[v].run].status = "running"
      BY <1>2, <1>3 DEF WorkedAlone
    <2>2. \A x, v \in Fetchers :
            fetcher'[x].at \notin {"idle", "gone"} /\ fetcher'[v].at \notin {"idle", "gone"} /\ fetcher'[x].run = fetcher'[v].run => x = v
      BY <1>2, <1>3 DEF WorkedAlone
    <2>3. \A q \in Crawls :
            crawl'[q].status = "running" => \E v \in Fetchers : fetcher'[v].at \notin {"idle", "gone"} /\ fetcher'[v].run = q
      BY <1>2, <1>3 DEF WorkedAlone
    <2> QED
      BY <2>1, <2>2, <2>3 DEF WorkedAlone
  <1>5. PageInHand'
    <2>1. \A v \in Fetchers : /\ fetcher[v].run \in Crawls /\ fetcher'[v].run \in Crawls
                              /\ fetcher[v].url \in Urls /\ fetcher'[v].url \in Urls
      BY DEF CrawlShape, Fetching
    <2>2. frontier' = frontier /\ \A q \in Crawls : crawl'[q].status = crawl[q].status
      OBVIOUS
    <2>3. \A v \in Fetchers : fetcher'[v].at \in AtPage <=> fetcher[v].at \in AtPage
      BY <1>2
    <2>4. \A v \in Fetchers : fetcher[v].at \in AtPage => fetcher'[v].run = fetcher[v].run /\ fetcher'[v].url = fetcher[v].url
      BY <1>2
    <2>5. \A v \in Fetchers : fetcher[v].at = "stuck" => fetcher'[v] = fetcher[v]
      BY <1>2
    <2> QED
      BY <2>1, <2>2, <2>3, <2>4, <2>5, HandsStay
  <1>6. TriedEnough'
    BY DEF TriedEnough
  <1>7. SeedsFirst'
    <2>1. \A v \in Fetchers : fetcher'[v].run \in Crawls
      BY DEF CrawlShape, Fetching
    <2> QED
      BY <1>1, <1>2, <2>1, SeedsStay DEF SeedsFirst
  <1>8. NothingWaits'
    BY <1>2 DEF NothingWaits
  <1>9. LinksInDepth'
    BY <1>2 DEF LinksInDepth
  <1> QED
    BY <1>4, <1>5, <1>6, <1>7, <1>8, <1>9

\* A thread sets the row of its run's frontier that it has in hand, or takes one in hand.
LEMMA SetsItsRow ==
  ASSUME CrawlSound, NEW w \in Fetchers, NEW f \in Fetching, fetcher' = [fetcher EXCEPT ![w] = f],
         fetcher[w].at \notin {"idle", "gone", "seed", "stuck"}, f.run = fetcher[w].run, f.at \notin {"idle", "gone", "seed", "stuck", "conclude", "link"},
         NEW u \in Urls, NEW line \in Lines, frontier' = [frontier EXCEPT ![f.run][u] = line],
         frontier[f.run][u].status # "absent", line.status # "absent",
         fetcher[w].at \in AtPage => fetcher[w].url = u,
         IF line.status = "processing" THEN f.at \in AtPage /\ f.url = u ELSE f.at \notin AtPage,
         line.attempts <= FetchAttempts + stops, line.status = "queued" => line.attempts < FetchAttempts + stops,
         UNCHANGED stops, CrawlShape',
         \A r \in Crawls : crawl'[r].status = crawl[r].status
  PROVE  CrawlSound'
  <1> USE DEF CrawlSound
  <1>1. \A q \in Crawls : \A v \in Urls : frontier'[q][v] = IF q = f.run /\ v = u THEN line ELSE frontier[q][v]
    BY RowSet DEF Fetching
  <1>2. \A r \in Crawls : Crawl!Known(r)' = Crawl!Known(r)
    BY <1>1, KnownStays
  <1>3. \A v \in Fetchers : fetcher'[v] = IF v = w THEN f ELSE fetcher[v]
    BY DEF CrawlShape
  <1>4. fetcher[w].run \in Crawls /\ \A v \in Fetchers : fetcher[v].run \in Crawls /\ fetcher[v].url \in Urls
    BY DEF CrawlShape, Fetching
  <1> HIDE DEF CrawlShape
  <1>5. WorkedAlone'
    <2>1. \A v \in Fetchers : fetcher'[v].at \notin {"idle", "gone"} => crawl'[fetcher'[v].run].status = "running"
      BY <1>3, <1>4 DEF WorkedAlone
    <2>2. \A x, v \in Fetchers :
            fetcher'[x].at \notin {"idle", "gone"} /\ fetcher'[v].at \notin {"idle", "gone"} /\ fetcher'[x].run = fetcher'[v].run => x = v
      BY <1>3, <1>4 DEF WorkedAlone
    <2>3. \A q \in Crawls :
            crawl'[q].status = "running" => \E v \in Fetchers : fetcher'[v].at \notin {"idle", "gone"} /\ fetcher'[v].run = q
      BY <1>3, <1>4 DEF WorkedAlone
    <2> QED
      BY <2>1, <2>2, <2>3 DEF WorkedAlone
  <1>6. PageInHand'
    BY <1>1, <1>3, <1>4 DEF PageInHand, WorkedAlone, AtPage
  <1>7. TriedEnough'
    BY <1>1 DEF TriedEnough
  <1>8. SeedsFirst'
    <2>1. \A v \in Fetchers : fetcher'[v].run \in Crawls
      BY DEF CrawlShape, Fetching
    <2> QED
      BY <1>2, <1>3, <2>1, SeedsStay DEF SeedsFirst
  <1>9. NothingWaits'
    BY <1>1, <1>3, <1>4 DEF NothingWaits, WorkedAlone
  <1>10. LinksInDepth'
    BY <1>1, <1>3, <1>4 DEF LinksInDepth, WorkedAlone
  <1> QED
    BY <1>5, <1>6, <1>7, <1>8, <1>9, <1>10

\* A thread ends its run, and rests.
LEMMA EndsRun ==
  ASSUME CrawlSound, NEW w \in Fetchers, NEW s \in Crawl!Ended,
         fetcher[w].at \notin Crawl!Away, s = "succeeded" => fetcher[w].at = "conclude",
         Crawl!FinishRun(fetcher[w].run, s), Crawl!Rest(w), UNCHANGED <<site, frontier, page, indexed, stops>>
  PROVE  CrawlSound'
  <1> DEFINE r == fetcher[w].run
  <1> USE DEF CrawlSound
  <1>1. \A q \in Crawls : Crawl!Known(q)' = Crawl!Known(q)
    BY KnownStays
  <1>2. \A v \in Fetchers : fetcher'[v] = IF v = w THEN Crawl!Resting ELSE fetcher[v]
    BY DEF CrawlShape, Crawl!Rest
  <1>3. /\ \A v \in Fetchers : fetcher[v].run \in Crawls
        /\ r \in Crawls /\ \A q \in Crawls : crawl'[q].status = IF q = r THEN s ELSE crawl[q].status
    BY DEF CrawlShape, Fetching, Crawl!FinishRun
  <1>4. CrawlShape'
    <2>1. Crawl!Resting \in Fetching
      BY CrawlAssumption DEF Crawl!Resting, Crawl!None, Fetching, Places
    <2>2. fetcher' \in [Fetchers -> Fetching]
      BY <2>1 DEF CrawlShape, Crawl!Rest
    <2> QED
      BY <1>3, <2>2 DEF CrawlShape, Crawl!FinishRun
  <1>5. /\ Crawl!Resting.at = "idle" /\ s \in Crawl!Ended /\ s \notin {"none", "queued", "running"}
        /\ fetcher[w].at \notin {"idle", "gone", "stuck"}
    BY DEF Crawl!Resting, Crawl!Ended, Crawl!Away
  <1> HIDE DEF CrawlShape
  <1>6. WorkedAlone'
    <2>1. \A v \in Fetchers : fetcher'[v].at \notin {"idle", "gone"} => crawl'[fetcher'[v].run].status = "running"
      BY <1>2, <1>3, <1>5 DEF WorkedAlone
    <2>2. \A x, v \in Fetchers :
            fetcher'[x].at \notin {"idle", "gone"} /\ fetcher'[v].at \notin {"idle", "gone"} /\ fetcher'[x].run = fetcher'[v].run => x = v
      BY <1>2, <1>3, <1>5 DEF WorkedAlone
    <2>3. \A q \in Crawls :
            crawl'[q].status = "running" => \E v \in Fetchers : fetcher'[v].at \notin {"idle", "gone"} /\ fetcher'[v].run = q
      BY <1>2, <1>3, <1>5 DEF WorkedAlone
    <2> QED
      BY <2>1, <2>2, <2>3 DEF WorkedAlone
  <1>7. PageInHand'
    <2>1. \A v \in Fetchers : /\ fetcher[v].run \in Crawls /\ fetcher'[v].run \in Crawls
                              /\ fetcher[v].url \in Urls /\ fetcher'[v].url \in Urls
      BY <1>3, <1>4 DEF CrawlShape, Fetching
    <2>2. \A q \in Crawls : crawl[q].status \in Crawl!Ended => crawl'[q].status \in Crawl!Ended
      BY <1>3
    <2>3. \A v \in Fetchers : v # w => fetcher'[v] = fetcher[v]
      BY <1>2
    <2>4. fetcher'[w].at \notin AtPage /\ crawl'[fetcher[w].run].status \in Crawl!Ended /\ fetcher[w].at # "stuck"
      BY <1>2, <1>3, <1>5 DEF AtPage
    <2> QED
      BY <2>1, <2>2, <2>3, <2>4, HandsStay
  <1>8. TriedEnough'
    BY DEF TriedEnough
  <1>9. SeedsFirst'
    <2>1. \A v \in Fetchers : fetcher'[v].run \in Crawls
      BY <1>4 DEF CrawlShape, Fetching
    <2> QED
      BY <1>1, <1>2, <1>3, <1>5, <2>1, SeedsStay DEF SeedsFirst
  <1>10. NothingWaits'
    <2>1. ASSUME s = "succeeded", NEW u \in Urls PROVE frontier[r][u].status \notin {"queued", "processing"}
      <3>1. fetcher[w].at = "conclude" /\ frontier[r][u].status # "queued"
        BY <2>1 DEF NothingWaits
      <3>2. crawl[r].status = "running" /\ "running" \notin Crawl!Ended
        BY <3>1 DEF WorkedAlone, Crawl!Ended
      <3>3. \A v \in Fetchers : fetcher[v].run = r /\ fetcher[v].at \notin {"idle", "gone"} => v = w
        BY <1>5 DEF WorkedAlone
      <3>4. \A v \in Fetchers : fetcher[v].run = r => fetcher[v].at # "stuck" /\ fetcher[v].at \notin AtPage
        BY <3>1, <3>3 DEF AtPage
      <3> QED
        BY <1>3, <3>1, <3>2, <3>4 DEF PageInHand
    <2> QED
      BY <1>2, <1>3, <1>5, <2>1 DEF NothingWaits
  <1>11. LinksInDepth'
    BY <1>2, <1>5 DEF LinksInDepth
  <1> QED
    BY <1>4, <1>6, <1>7, <1>8, <1>9, <1>10, <1>11
\* An address is added, unless it is known or there is no room.
LEMMA FrontierGrows ==
  ASSUME CrawlShape, NEW r \in Crawls, NEW u \in Urls, NEW depth \in 0 .. MaxDepth,
         \A q \in Crawls : Cardinality(Crawl!Known(q)) <= MaxPages,
         Crawl!AddFrontier(r, u, depth)
  PROVE  /\ frontier' \in [Crawls -> [Urls -> Lines]]
         /\ \A q \in Crawls : \A v \in Urls :
              \/ frontier'[q][v] = frontier[q][v]
              \/ /\ q = r /\ frontier[q][v].status = "absent"
                 /\ frontier'[q][v].status = "queued" /\ frontier'[q][v].attempts = 0
         /\ \A q \in Crawls : Cardinality(Crawl!Known(q))' <= MaxPages
         /\ \A q \in Crawls : \A S \in SUBSET Urls : HasSeeds(q, S) => HasSeeds(q, S)'
         /\ \A S, T \in SUBSET Urls : HasSeeds(r, S) /\ T \subseteq S \cup {u} => HasSeeds(r, T)'
  <1>1. CASE u \in Crawl!Known(r) \/ Crawl!Cardinality(Crawl!Known(r)) >= MaxPages
    <2>1. frontier' = frontier
      BY <1>1 DEF Crawl!AddFrontier
    <2>2. \A q \in Crawls : Crawl!Known(q)' = Crawl!Known(q)
      BY <2>1, KnownStays
    <2>3. u \in Crawl!Known(r) \/ Cardinality(Crawl!Known(r)) = MaxPages
      BY <1>1, SameCardinality, KnownIsFinite, CrawlAssumption
    <2>4. \A q \in Crawls : Cardinality(Crawl!Known(q))' = Cardinality(Crawl!Known(q))
      BY <2>2
    <2>5. \A q \in Crawls : \A S \in SUBSET Urls : HasSeeds(q, S) => HasSeeds(q, S)'
      BY <2>2, <2>4 DEF HasSeeds
    <2>6. \A S, T \in SUBSET Urls : HasSeeds(r, S) /\ T \subseteq S \cup {u} => HasSeeds(r, T)'
      BY <2>2, <2>3, <2>4 DEF HasSeeds
    <2> QED
      BY <2>1, <2>4, <2>5, <2>6 DEF CrawlShape
  <1>2. CASE ~(u \in Crawl!Known(r) \/ Crawl!Cardinality(Crawl!Known(r)) >= MaxPages)
    <2> DEFINE line == [status |-> "queued", depth |-> depth, attempts |-> 0]
    <2>1. frontier' = [frontier EXCEPT ![r][u] = line]
      BY <1>2 DEF Crawl!AddFrontier
    <2>2. line \in Lines
      BY DEF Lines, Crawl!FrontierStatuses
    <2>3. /\ frontier' \in [Crawls -> [Urls -> Lines]]
          /\ \A q \in Crawls : \A v \in Urls : frontier'[q][v] = IF q = r /\ v = u THEN line ELSE frontier[q][v]
      BY <2>1, <2>2, RowSet
    <2>4. frontier[r][u].status = "absent"
      BY <1>2 DEF Crawl!Known
    <2>5. /\ Crawl!Known(r)' = Crawl!Known(r) \cup {u}
          /\ \A q \in Crawls : q # r => Crawl!Known(q)' = Crawl!Known(q)
      BY <2>3 DEF Crawl!Known
    <2>6. Cardinality(Crawl!Known(r) \cup {u}) = Cardinality(Crawl!Known(r)) + 1
      BY <1>2, KnownIsFinite, FS_AddElement
    <2>7. Cardinality(Crawl!Known(r)) < MaxPages
      BY <1>2, SameCardinality, KnownIsFinite, CrawlAssumption
    <2>8. /\ Cardinality(Crawl!Known(r))' = Cardinality(Crawl!Known(r)) + 1
          /\ \A q \in Crawls : q # r => Cardinality(Crawl!Known(q))' = Cardinality(Crawl!Known(q))
      BY <2>5, <2>6
    <2>9. \A q \in Crawls : Cardinality(Crawl!Known(q))' <= MaxPages
      BY <2>7, <2>8, KnownIsFinite, CrawlAssumption
    <2>10. \A q \in Crawls : \A S \in SUBSET Urls : HasSeeds(q, S) => HasSeeds(q, S)'
      <3> SUFFICES ASSUME NEW q \in Crawls, NEW S \in SUBSET Urls, HasSeeds(q, S) PROVE HasSeeds(q, S)'
        OBVIOUS
      <3>1. CASE q = r
        <4>1. S \subseteq Crawl!Known(r)
          BY <2>7, <3>1, KnownIsFinite, CrawlAssumption DEF HasSeeds
        <4>2. S \subseteq Crawl!Known(r)'
          BY <2>5, <4>1
        <4> QED
          BY <3>1, <4>2 DEF HasSeeds
      <3>2. CASE q # r
        BY <2>5, <2>8, <3>2 DEF HasSeeds
      <3> QED
        BY <3>1, <3>2
    <2>11. \A S, T \in SUBSET Urls : HasSeeds(r, S) /\ T \subseteq S \cup {u} => HasSeeds(r, T)'
      <3> SUFFICES ASSUME NEW S \in SUBSET Urls, NEW T \in SUBSET Urls, HasSeeds(r, S), T \subseteq S \cup {u}
                   PROVE  HasSeeds(r, T)'
        OBVIOUS
      <3>1. S \subseteq Crawl!Known(r)
        BY <2>7, KnownIsFinite, CrawlAssumption DEF HasSeeds
      <3>2. T \subseteq Crawl!Known(r)'
        BY <2>5, <3>1
      <3> QED
        BY <3>2 DEF HasSeeds
    <2>12. line.status = "queued" /\ line.attempts = 0
      OBVIOUS
    <2> HIDE DEF line
    <2>13. \A q \in Crawls : \A v \in Urls :
              \/ frontier'[q][v] = frontier[q][v]
              \/ /\ q = r /\ frontier[q][v].status = "absent"
                 /\ frontier'[q][v].status = "queued" /\ frontier'[q][v].attempts = 0
      BY <2>3, <2>4, <2>12
    <2> QED
      BY <2>3, <2>9, <2>10, <2>11, <2>13
  <1> QED
    BY <1>1, <1>2
LEMMA AddsOne ==
  ASSUME CrawlSound, NEW w \in Fetchers, NEW place \in {"seed", "link"}, NEW then \in {"next", "done"},
         NEW depth, fetcher[w].left # {} => depth \in 0 .. MaxDepth,
         then = "next" <=> place = "seed", Crawl!AddOne(w, place, depth, then)
  PROVE  CrawlSound'
  <1> USE DEF CrawlSound
  <1>0. PICK r \in Crawls : r = fetcher[w].run
    BY DEF CrawlShape, Fetching
  <1>1. fetcher[w].at = place /\ UNCHANGED <<site, crawl, page, indexed, stops>>
    BY DEF Crawl!AddOne
  <1>2. r = fetcher[w].run /\ fetcher[w] \in Fetching /\ \A v \in Fetchers : fetcher[v].run \in Crawls /\ fetcher[v].url \in Urls
    BY <1>0 DEF CrawlShape, Fetching
  <1>3. ASSUME fetcher[w].left = {}, Crawl!Go(w, then), UNCHANGED frontier
        PROVE  CrawlSound'
    <2> DEFINE f == [fetcher[w] EXCEPT !.at = then]
    <2>1. fetcher' = [fetcher EXCEPT ![w] = f]
      BY <1>3 DEF Crawl!Go
    <2>2. f \in Fetching /\ f.at = then /\ f.run = r /\ f.url = fetcher[w].url
      BY <1>2 DEF Fetching, Places
    <2> HIDE DEF f
    <2>3. CrawlShape'
      BY <1>1, <1>3, <2>1, <2>2 DEF CrawlShape
    <2>4. place = "seed" => HasSeeds(r, Seeds)
      <3>1. place = "seed" => HasSeeds(r, Seeds \ {})
        BY <1>1, <1>2, <1>3 DEF SeedsFirst
      <3>2. Seeds \ {} = Seeds
        OBVIOUS
      <3> QED
        BY <3>1, <3>2
    <2> QED
      BY <1>1, <1>2, <1>3, <2>1, <2>2, <2>3, <2>4, GoesOn DEF AtPage
  <1>4. ASSUME NEW u \in fetcher[w].left, Crawl!AddFrontier(r, u, depth),
               fetcher' = [fetcher EXCEPT ![w].left = @ \ {u}]
        PROVE  CrawlSound'
    <2> DEFINE f == [fetcher[w] EXCEPT !.left = @ \ {u}]
    <2>1. f \in Fetching /\ f.at = place /\ f.run = r /\ f.url = fetcher[w].url /\ f.left = fetcher[w].left \ {u}
      BY <1>1, <1>2 DEF Fetching
    <2>2. fetcher' \in [Fetchers -> Fetching] /\ \A v \in Fetchers : fetcher'[v] = IF v = w THEN f ELSE fetcher[v]
      BY <1>4, <2>1 DEF CrawlShape
    <2> HIDE DEF f
    <2>3. u \in Urls /\ depth \in 0 .. MaxDepth
      BY <1>2 DEF Fetching
    <2>4. /\ frontier' \in [Crawls -> [Urls -> Lines]]
          /\ \A q \in Crawls : \A v \in Urls :
               \/ frontier'[q][v] = frontier[q][v]
               \/ /\ q = r /\ frontier[q][v].status = "absent"
                  /\ frontier'[q][v].status = "queued" /\ frontier'[q][v].attempts = 0
          /\ \A q \in Crawls : Cardinality(Crawl!Known(q))' <= MaxPages
          /\ \A q \in Crawls : \A S \in SUBSET Urls : HasSeeds(q, S) => HasSeeds(q, S)'
          /\ \A S, T \in SUBSET Urls : HasSeeds(r, S) /\ T \subseteq S \cup {u} => HasSeeds(r, T)'
      BY <1>2, <1>4, <2>3, FrontierGrows DEF SeedsFirst
    <2>5. CrawlShape'
      BY <1>1, <2>2, <2>4 DEF CrawlShape
    <2> HIDE DEF CrawlShape
    <2>6. WorkedAlone'
      BY <1>1, <1>2, <2>1, <2>2 DEF WorkedAlone
    <2>7. PageInHand'
      <3>1. \A v \in Fetchers : /\ fetcher'[v].at = fetcher[v].at /\ fetcher'[v].run = fetcher[v].run
                                /\ fetcher'[v].url = fetcher[v].url
        BY <1>1, <1>2, <2>1, <2>2
      <3>2. \A q \in Crawls : \A v \in Urls :
              frontier'[q][v].status = "processing" <=> frontier[q][v].status = "processing"
        BY <2>4
      <3>3. \A v \in Fetchers : /\ fetcher[v].run \in Crawls /\ fetcher'[v].run \in Crawls
                                /\ fetcher[v].url \in Urls /\ fetcher'[v].url \in Urls
        BY <1>2, <3>1
      <3>4. crawl' = crawl
        BY <1>1
      <3> QED
        BY <3>1, <3>2, <3>3, <3>4, HandsStay
    <2>8. LinksInDepth'
      <3>1. \A v \in Fetchers : fetcher'[v].at = "link" =>
              frontier'[fetcher'[v].run][fetcher'[v].url] = frontier[fetcher[v].run][fetcher[v].url]
        BY <1>1, <1>2, <2>1, <2>2, <2>4 DEF PageInHand, AtPage
      <3>2. \A v \in Fetchers : fetcher'[v].at = "link" /\ fetcher'[v].left # {} =>
              fetcher[v].at = "link" /\ fetcher[v].left # {}
        BY <1>1, <2>1, <2>2
      <3> QED
        BY <3>1, <3>2 DEF LinksInDepth
    <2>9. TriedEnough'
      <3>1. stops \in Nat /\ stops' = stops /\ TriedEnough
        BY <1>1 DEF CrawlShape
      <3> HIDE DEF CrawlSound
      <3>2. FetchAttempts \in Nat \ {0}
        BY CrawlAssumption
      <3> QED
        BY <2>4, <3>1, <3>2 DEF TriedEnough
    <2>10. SeedsFirst'
      <3>1. ASSUME NEW v \in Fetchers, NEW q, q = fetcher'[v].run, fetcher'[v].at \notin {"idle", "gone", "seed", "stuck"}
            PROVE  HasSeeds(q, Seeds)'
        <4>1. fetcher[v].at \notin {"idle", "gone", "seed", "stuck"} /\ q = fetcher[v].run
          BY <1>1, <1>2, <2>1, <2>2, <3>1
        <4>2. q \in Crawls /\ HasSeeds(q, Seeds)
          BY <1>2, <4>1 DEF SeedsFirst
        <4> QED
          BY <2>4, <4>2, CrawlAssumption
      <3>2. \A q \in Crawls : crawl'[q].status = "succeeded" => HasSeeds(q, Seeds)'
        BY <1>1, <2>4, CrawlAssumption DEF SeedsFirst
      <3>3. ASSUME NEW v \in Fetchers, NEW q, q = fetcher'[v].run, fetcher'[v].at = "seed",
                   NEW S, S = Seeds \ fetcher'[v].left
            PROVE  HasSeeds(q, S)'
        <4> DEFINE T == Seeds \ fetcher[v].left
        <4>1. fetcher[v].at = "seed" /\ q = fetcher[v].run
          BY <1>1, <1>2, <2>1, <2>2, <3>3
        <4>2. q \in Crawls /\ HasSeeds(q, T) /\ S \in SUBSET Urls /\ T \in SUBSET Urls
          BY <1>2, <3>3, <4>1, CrawlAssumption DEF SeedsFirst
        <4>3. CASE v = w
          <5>1. q = r /\ S \subseteq T \cup {u}
            BY <2>1, <2>2, <3>3, <4>1, <4>3
          <5> HIDE DEF T
          <5> QED
            BY <2>4, <4>2, <5>1
        <4>4. CASE v # w
          <5>1. S = T
            BY <2>2, <3>3, <4>4
          <5> HIDE DEF T
          <5> QED
            BY <2>4, <4>2, <5>1
        <4> QED
          BY <4>3, <4>4
      <3> QED
        BY <2>4, <3>1, <3>2, <3>3 DEF SeedsFirst
    <2>11. NothingWaits'
      <3>1. \A v \in Fetchers : fetcher'[v].at = "conclude" => /\ fetcher[v].at = "conclude" /\ fetcher[v].run # r
                                                             /\ fetcher'[v].run = fetcher[v].run
        BY <1>1, <1>2, <2>1, <2>2 DEF WorkedAlone
      <3>2. crawl[r].status # "succeeded"
        BY <1>1, <1>2 DEF WorkedAlone
      <3>3. \A q \in Crawls : q # r => \A v \in Urls : frontier'[q][v] = frontier[q][v]
        BY <2>4
      <3> QED
        BY <1>1, <1>2, <3>1, <3>2, <3>3 DEF NothingWaits
    <2> QED
      BY <2>5, <2>6, <2>7, <2>8, <2>9, <2>10, <2>11
  <1> QED
    BY <1>2, <1>3, <1>4 DEF Crawl!AddOne
\* What is noted on a run besides its status.
LEMMA NotedOnRun ==
  ASSUME CrawlShape, NEW r \in Crawls,
         \/ crawl' = crawl \/ crawl' = [crawl EXCEPT ![r].fetched = TRUE]
         \/ crawl' = [crawl EXCEPT ![r].failed = TRUE] \/ crawl' = [crawl EXCEPT ![r].cancel = TRUE]
  PROVE  /\ crawl' \in [Crawls -> [status : {"none", "queued", "running"} \cup Crawl!Ended, cancel : BOOLEAN,
                                   fetched : BOOLEAN, failed : BOOLEAN]]
         /\ \A q \in Crawls : crawl'[q].status = crawl[q].status
  <1> DEFINE Entries == [status : {"none", "queued", "running"} \cup Crawl!Ended, cancel : BOOLEAN,
                         fetched : BOOLEAN, failed : BOOLEAN]
  <1>1. crawl \in [Crawls -> Entries] /\ crawl[r] \in Entries
    BY DEF CrawlShape
  <1>2. ASSUME NEW c \in Entries, c.status = crawl[r].status, crawl' = [crawl EXCEPT ![r] = c]
        PROVE  crawl' \in [Crawls -> Entries] /\ \A q \in Crawls : crawl'[q].status = crawl[q].status
    <2> HIDE DEF Entries
    <2> QED
      BY <1>1, <1>2
  <1>3. CASE crawl' = [crawl EXCEPT ![r].fetched = TRUE]
    <2>1. [crawl[r] EXCEPT !.fetched = TRUE] \in Entries /\ [crawl[r] EXCEPT !.fetched = TRUE].status = crawl[r].status
      BY <1>1
    <2> QED
      BY <1>2, <1>3, <2>1
  <1>4. CASE crawl' = [crawl EXCEPT ![r].failed = TRUE]
    <2>1. [crawl[r] EXCEPT !.failed = TRUE] \in Entries /\ [crawl[r] EXCEPT !.failed = TRUE].status = crawl[r].status
      BY <1>1
    <2> QED
      BY <1>2, <1>4, <2>1
  <1>5. CASE crawl' = [crawl EXCEPT ![r].cancel = TRUE]
    <2>1. [crawl[r] EXCEPT !.cancel = TRUE] \in Entries /\ [crawl[r] EXCEPT !.cancel = TRUE].status = crawl[r].status
      BY <1>1
    <2> QED
      BY <1>2, <1>5, <2>1
  <1> QED
    BY <1>1, <1>3, <1>4, <1>5

LEMMA GoesOnTo ==
  ASSUME CrawlSound, NEW w \in Fetchers, NEW f \in Fetching, NEW r \in Crawls, r = fetcher[w].run,
         fetcher' = [fetcher EXCEPT ![w] = f], f.run = r, f.url = fetcher[w].url,
         fetcher[w].at \notin {"idle", "gone", "seed", "stuck"}, f.at \notin {"idle", "gone", "seed", "stuck"},
         f.at \in AtPage <=> fetcher[w].at \in AtPage,
         f.at = "conclude" => \A v \in Urls : frontier[r][v].status # "queued",
         f.at = "link" /\ f.left # {} => frontier[r][f.url].depth < MaxDepth,
         UNCHANGED <<site, frontier, stops>>, page' \in [Urls -> Nat], indexed' \in [Urls -> Nat],
         \/ crawl' = crawl \/ crawl' = [crawl EXCEPT ![r].fetched = TRUE]
         \/ crawl' = [crawl EXCEPT ![r].failed = TRUE]
  PROVE  CrawlSound'
  <1>1. CrawlShape
    BY DEF CrawlSound
  <1>2. /\ crawl' \in [Crawls -> [status : {"none", "queued", "running"} \cup Crawl!Ended, cancel : BOOLEAN,
                                  fetched : BOOLEAN, failed : BOOLEAN]]
        /\ \A q \in Crawls : crawl'[q].status = crawl[q].status
    BY <1>1, NotedOnRun
  <1>3. CrawlShape'
    BY <1>1, <1>2 DEF CrawlShape
  <1> QED
    BY <1>2, <1>3, GoesOn

LEMMA FinishesRow ==
  ASSUME CrawlSound, NEW w \in Fetchers, NEW r \in Crawls, NEW u \in Urls,
         r = fetcher[w].run, u = fetcher[w].url, fetcher[w].at \in AtPage,
         NEW place \in {"next", "failed"}, NEW s \in {"skipped", "failed", "queued", "done"},
         Crawl!FinishFrontier(w, s), Crawl!Go(w, place),
         s = "queued" => frontier[r][u].attempts < FetchAttempts,
         UNCHANGED <<site, crawl, page, indexed, stops>>
  PROVE  CrawlSound'
  <1> DEFINE f == [fetcher[w] EXCEPT !.at = place]
             line == [frontier[r][u] EXCEPT !.status = s]
  <1>1. CrawlShape
    BY DEF CrawlSound
  <1>2. fetcher[w] \in Fetching /\ frontier[r][u] \in Lines /\ stops \in Nat
    BY <1>1 DEF CrawlShape
  <1>3. fetcher' = [fetcher EXCEPT ![w] = f] /\ frontier' = [frontier EXCEPT ![r][u] = line]
    BY <1>1 DEF CrawlShape, Crawl!FinishFrontier, Crawl!Go
  <1>4. f \in Fetching /\ f.at = place /\ f.run = r /\ f.url = u
    BY <1>2 DEF Fetching, Places
  <1>5. line \in Lines /\ line.status = s /\ line.attempts = frontier[r][u].attempts /\ line.attempts \in Nat
    BY <1>2 DEF Lines, Crawl!FrontierStatuses
  <1> HIDE DEF f, line
  <1>6. frontier' \in [Crawls -> [Urls -> Lines]]
    BY <1>1, <1>3, <1>5, RowSet
  <1>7. CrawlShape'
    BY <1>1, <1>3, <1>4, <1>6 DEF CrawlShape
  <1>8. s = "queued" => line.attempts < FetchAttempts + stops
    BY <1>2, <1>5, CrawlAssumption
  <1>9. line.attempts <= FetchAttempts + stops
    BY <1>5 DEF CrawlSound, TriedEnough
  <1>10. frontier[r][u].status = "processing"
    BY DEF CrawlSound, PageInHand
  <1> QED
    BY <1>3, <1>4, <1>5, <1>7, <1>8, <1>9, <1>10, SetsItsRow DEF AtPage

LEMMA TakenRow ==
  ASSUME NEW entry \in Lines
  PROVE  \E line \in Lines : /\ line = [entry EXCEPT !.status = "processing", !.attempts = @ + 1]
                             /\ line.status = "processing" /\ line.attempts = entry.attempts + 1
  <1>1. PICK n \in Nat : n = entry.attempts + 1
    BY DEF Lines
  <1>2. "processing" \in Crawl!FrontierStatuses
    BY DEF Crawl!FrontierStatuses
  <1> DEFINE line == [entry EXCEPT !.status = "processing", !.attempts = n]
  <1>3. line \in Lines /\ line.status = "processing" /\ line.attempts = n
    BY <1>1, <1>2 DEF Lines
  <1>4. line = [entry EXCEPT !.status = "processing", !.attempts = @ + 1]
    BY <1>1
  <1> HIDE DEF line
  <1> QED
    BY <1>1, <1>3, <1>4

LEMMA TakesRow ==
  ASSUME CrawlSound, NEW w \in Fetchers, NEW r \in Crawls, NEW v \in Urls, NEW f \in Fetching, NEW line \in Lines,
         r = fetcher[w].run, fetcher[w].at = "next", frontier[r][v].status = "queued",
         f.at = "fetch", f.run = r, f.url = v,
         line.status = "processing", line.attempts = frontier[r][v].attempts + 1,
         frontier' = [frontier EXCEPT ![r][v] = line], fetcher' = [fetcher EXCEPT ![w] = f],
         UNCHANGED <<site, crawl, page, indexed, stops>>
  PROVE  CrawlSound'
  <1>1. CrawlShape
    BY DEF CrawlSound
  <1>2. frontier' \in [Crawls -> [Urls -> Lines]]
    BY <1>1, RowSet
  <1>3. CrawlShape'
    BY <1>1, <1>2 DEF CrawlShape
  <1>4. frontier[r][v].attempts < FetchAttempts + stops /\ frontier[r][v].attempts \in Nat /\ stops \in Nat
    BY <1>1 DEF CrawlSound, TriedEnough, Lines, CrawlShape
  <1>5. line.attempts <= FetchAttempts + stops
    BY <1>4, CrawlAssumption
  <1> QED
    BY <1>3, <1>5, SetsItsRow DEF AtPage

Takes(w, r, v) ==
  /\ frontier' = [frontier EXCEPT ![r][v].status = "processing", ![r][v].attempts = @ + 1]
  /\ fetcher' = [fetcher EXCEPT ![w].at = "fetch", ![w].url = v, ![w].saw = page[v]]

LEMMA TakesNext ==
  ASSUME CrawlSound, NEW w \in Fetchers, NEW r \in Crawls, NEW v \in Urls,
         r = fetcher[w].run, fetcher[w].at = "next", frontier[r][v].status = "queued", Takes(w, r, v),
         UNCHANGED <<site, crawl, page, indexed, stops>>
  PROVE  CrawlSound'
  <1> DEFINE f == [fetcher[w] EXCEPT !.at = "fetch", !.url = v, !.saw = page[v]]
  <1>1. CrawlShape
    BY DEF CrawlSound
  <1>2. fetcher[w] \in Fetching /\ frontier[r][v] \in Lines /\ page[v] \in Nat
    BY <1>1 DEF CrawlShape
  <1>3. fetcher' = [fetcher EXCEPT ![w] = f]
    BY <1>1 DEF CrawlShape, Takes
  <1>4. f \in Fetching /\ f.at = "fetch" /\ f.run = r /\ f.url = v
    BY <1>2 DEF Fetching, Places
  <1> HIDE DEF f
  <1>5. PICK line \in Lines : /\ line = [frontier[r][v] EXCEPT !.status = "processing", !.attempts = @ + 1]
                              /\ line.status = "processing" /\ line.attempts = frontier[r][v].attempts + 1
    BY <1>2, TakenRow
  <1>6. frontier' = [frontier EXCEPT ![r][v] = line]
    BY <1>1, <1>5 DEF CrawlShape, Takes
  <1>7. line \in Lines /\ line.status = "processing" /\ line.attempts = frontier[r][v].attempts + 1
    BY <1>5
  <1>8. fetcher[w].at = "next" /\ r = fetcher[w].run
    OBVIOUS
  <1> HIDE DEF CrawlSound
  <1> QED
    BY <1>3, <1>4, <1>6, <1>7, <1>8, TakesRow

\* A thread takes a run from the queue, with none of its addresses under way.
LEMMA ClaimsRun ==
  ASSUME CrawlSound, NEW w \in Fetchers, Crawl!ClaimRun(w)
  PROVE  CrawlSound'
  <1> USE DEF CrawlSound
  <1>1. PICK r \in Crawls :
          /\ fetcher[w].at = "idle" /\ crawl[r].status = "queued" /\ Crawl!FinishRun(r, "running")
          /\ fetcher' = [fetcher EXCEPT ![w].at = "seed", ![w].run = r, ![w].left = Seeds]
          /\ UNCHANGED <<site, frontier, page, indexed, stops>>
    BY DEF Crawl!ClaimRun, Crawl!Claimable
  <1> DEFINE f == [fetcher[w] EXCEPT !.at = "seed", !.run = r, !.left = Seeds]
  <1>2. f \in Fetching /\ f.at = "seed" /\ f.run = r /\ f.left = Seeds
    BY CrawlAssumption DEF CrawlShape, Fetching, Places
  <1>3. \A v \in Fetchers : fetcher'[v] = IF v = w THEN f ELSE fetcher[v]
    BY <1>1 DEF CrawlShape
  <1>4. fetcher' \in [Fetchers -> Fetching]
    BY <1>1, <1>2 DEF CrawlShape
  <1> HIDE DEF f
  <1>5. /\ crawl' \in [Crawls -> [status : {"none", "queued", "running"} \cup Crawl!Ended, cancel : BOOLEAN,
                                  fetched : BOOLEAN, failed : BOOLEAN]]
        /\ \A q \in Crawls : crawl'[q].status = IF q = r THEN "running" ELSE crawl[q].status
    BY <1>1 DEF CrawlShape, Crawl!FinishRun
  <1>6. CrawlShape'
    BY <1>1, <1>4, <1>5 DEF CrawlShape
  <1>7. \A v \in Fetchers : fetcher[v].run \in Crawls /\ fetcher'[v].run \in Crawls
    BY <1>4 DEF CrawlShape, Fetching
  <1> HIDE DEF CrawlShape
  <1>8. \A v \in Fetchers : fetcher[v].at \notin {"idle", "gone"} => fetcher[v].run # r
    BY <1>1 DEF WorkedAlone
  <1>9. WorkedAlone'
    <2>1. \A v \in Fetchers : fetcher'[v].at \notin {"idle", "gone"} => crawl'[fetcher'[v].run].status = "running"
      BY <1>2, <1>3, <1>5, <1>7 DEF WorkedAlone
    <2>2. \A x, v \in Fetchers :
            fetcher'[x].at \notin {"idle", "gone"} /\ fetcher'[v].at \notin {"idle", "gone"} /\ fetcher'[x].run = fetcher'[v].run => x = v
      BY <1>2, <1>3, <1>8 DEF WorkedAlone
    <2>3. ASSUME NEW q \in Crawls, crawl'[q].status = "running"
          PROVE  \E v \in Fetchers : fetcher'[v].at \notin {"idle", "gone"} /\ fetcher'[v].run = q
      <3>1. CASE q = r
        BY <1>2, <1>3, <3>1
      <3>2. CASE q # r
        <4>1. PICK v \in Fetchers : fetcher[v].at \notin {"idle", "gone"} /\ fetcher[v].run = q
          BY <1>5, <2>3, <3>2 DEF WorkedAlone
        <4>2. v # w
          BY <1>1, <4>1
        <4> QED
          BY <1>3, <4>1, <4>2
      <3> QED
        BY <3>1, <3>2
    <2> QED
      BY <2>1, <2>2, <2>3 DEF WorkedAlone
  <1>10. PageInHand'
    <2>1. \A v \in Fetchers : fetcher'[v].at \in AtPage => fetcher'[v] = fetcher[v]
      BY <1>2, <1>3 DEF AtPage
    <2>2. \A v \in Fetchers : fetcher[v].at \in AtPage => fetcher'[v] = fetcher[v]
      BY <1>1, <1>3 DEF AtPage
    <2>3. frontier' = frontier /\ \A q \in Crawls : crawl[q].status \in Crawl!Ended => crawl'[q].status \in Crawl!Ended
      BY <1>1, <1>5 DEF Crawl!Ended
    <2>4. \A v \in Fetchers : fetcher[v].at = "stuck" => fetcher'[v] = fetcher[v]
      BY <1>1, <1>3
    <2>5. \A v \in Fetchers : /\ fetcher[v].run \in Crawls /\ fetcher'[v].run \in Crawls
                              /\ fetcher[v].url \in Urls /\ fetcher'[v].url \in Urls
      BY <1>4, <1>7 DEF CrawlShape, Fetching
    <2> QED
      BY <2>1, <2>2, <2>3, <2>4, <2>5, HandsStay
  <1>11. LinksInDepth'
    BY <1>1, <1>2, <1>3 DEF LinksInDepth
  <1>12. TriedEnough'
    BY <1>1 DEF TriedEnough
  <1>13. SeedsFirst'
    <2>1. \A q \in Crawls : Crawl!Known(q)' = Crawl!Known(q)
      BY <1>1, KnownStays
    <2>2. \A q \in Crawls : Cardinality(Crawl!Known(q))' = Cardinality(Crawl!Known(q))
      BY <2>1
    <2>3. ASSUME NEW v \in Fetchers, NEW q, q = fetcher'[v].run, fetcher'[v].at = "seed",
                 NEW S, S = Seeds \ fetcher'[v].left
          PROVE  HasSeeds(q, S)'
      <3>1. CASE v = w
        BY <1>2, <1>3, <2>3, <3>1 DEF HasSeeds
      <3>2. CASE v # w
        <4>1. q = fetcher[v].run /\ S = Seeds \ fetcher[v].left /\ fetcher[v].at = "seed"
          BY <1>3, <2>3, <3>2
        <4>2. HasSeeds(q, S)
          BY <4>1 DEF SeedsFirst
        <4> QED
          BY <1>7, <2>1, <2>2, <4>1, <4>2 DEF HasSeeds
      <3> QED
        BY <3>1, <3>2
    <2>4. ASSUME NEW v \in Fetchers, NEW q, q = fetcher'[v].run, fetcher'[v].at \notin {"idle", "gone", "seed", "stuck"}
          PROVE  HasSeeds(q, Seeds)'
      <3>1. q = fetcher[v].run /\ fetcher[v].at \notin {"idle", "gone", "seed", "stuck"}
        BY <1>2, <1>3, <2>4
      <3>2. HasSeeds(q, Seeds)
        BY <3>1 DEF SeedsFirst
      <3> QED
        BY <1>7, <2>1, <2>2, <3>1, <3>2 DEF HasSeeds
    <2>5. \A q \in Crawls : crawl'[q].status = "succeeded" => HasSeeds(q, Seeds)'
      BY <1>5, <2>1, <2>2 DEF SeedsFirst, HasSeeds
    <2> QED
      BY <2>2, <2>3, <2>4, <2>5 DEF SeedsFirst
  <1>14. NothingWaits'
    <2>1. \A v \in Fetchers : fetcher'[v].at = "conclude" => fetcher'[v] = fetcher[v]
      BY <1>2, <1>3
    <2>2. \A q \in Crawls : crawl'[q].status = "succeeded" => crawl[q].status = "succeeded"
      BY <1>5
    <2>3. frontier' = frontier
      BY <1>1
    <2> QED
      BY <2>1, <2>2, <2>3 DEF NothingWaits
  <1> QED
    BY <1>6, <1>9, <1>10, <1>11, <1>12, <1>13, <1>14

\* A thread ends, with its run if it has one.
LEMMA EndsThread ==
  ASSUME CrawlSound, NEW w \in Fetchers, Crawl!ThreadEnds(w)
  PROVE  CrawlSound'
  <1> USE DEF CrawlSound
  <1>1. PICK f \in Fetching :
          /\ fetcher' = [fetcher EXCEPT ![w] = f]
          /\ \/ fetcher[w].at = "idle" /\ f.at = "gone"
             \/ fetcher[w].at \notin {"idle", "gone", "stuck"} /\ f.at = "stuck" /\ f.run = fetcher[w].run
    <2>0. fetcher[w] \in Fetching /\ fetcher \in [Fetchers -> Fetching]
      BY DEF CrawlShape
    <2>1. CASE fetcher[w].at = "idle" /\ Crawl!Go(w, "gone")
      <3>1. [fetcher[w] EXCEPT !.at = "gone"] \in Fetching
        BY <2>0 DEF Fetching, Places
      <3> WITNESS [fetcher[w] EXCEPT !.at = "gone"] \in Fetching
      <3> QED
        BY <2>0, <2>1 DEF Crawl!Go, Fetching
    <2>2. CASE /\ fetcher[w].at \notin Crawl!Away
               /\ fetcher' = [fetcher EXCEPT ![w] = [Crawl!Resting EXCEPT !.at = "stuck", !.run = fetcher[w].run]]
      <3>1. [Crawl!Resting EXCEPT !.at = "stuck", !.run = fetcher[w].run] \in Fetching
        BY <2>0, CrawlAssumption DEF Crawl!Resting, Crawl!None, Fetching, Places
      <3> WITNESS [Crawl!Resting EXCEPT !.at = "stuck", !.run = fetcher[w].run] \in Fetching
      <3> QED
        BY <2>0, <2>2, <3>1 DEF Crawl!Resting, Crawl!Away
    <2> QED
      BY <2>1, <2>2 DEF Crawl!ThreadEnds
  <1>2. UNCHANGED <<site, crawl, frontier, page, indexed, stops>>
    BY DEF Crawl!ThreadEnds
  <1>3. \A v \in Fetchers : fetcher'[v] = IF v = w THEN f ELSE fetcher[v]
    BY <1>1 DEF CrawlShape
  <1>4. CrawlShape' /\ \A v \in Fetchers : fetcher[v].run \in Crawls /\ fetcher'[v].run \in Crawls
    <2>1. CrawlShape'
      BY <1>1, <1>2 DEF CrawlShape
    <2> QED
      BY <2>1 DEF CrawlShape, Fetching
  <1>5. \A q \in Crawls : Crawl!Known(q)' = Crawl!Known(q)
    BY <1>2, KnownStays
  <1> HIDE DEF CrawlShape
  <1>6. WorkedAlone'
    <2>1. \A v \in Fetchers : fetcher'[v].at \notin {"idle", "gone"} => crawl'[fetcher'[v].run].status = "running"
      BY <1>1, <1>2, <1>3, <1>4 DEF WorkedAlone
    <2>2. \A x, v \in Fetchers :
            fetcher'[x].at \notin {"idle", "gone"} /\ fetcher'[v].at \notin {"idle", "gone"}
            /\ fetcher'[x].run = fetcher'[v].run => x = v
      BY <1>1, <1>3, <1>4 DEF WorkedAlone
    <2>3. \A q \in Crawls :
            crawl'[q].status = "running" => \E v \in Fetchers : fetcher'[v].at \notin {"idle", "gone"} /\ fetcher'[v].run = q
      BY <1>1, <1>2, <1>3, <1>4 DEF WorkedAlone
    <2> QED
      BY <2>1, <2>2, <2>3 DEF WorkedAlone
  <1>7. PageInHand'
    BY <1>1, <1>2, <1>3 DEF PageInHand, AtPage
  <1>8. LinksInDepth' /\ TriedEnough' /\ NothingWaits'
    BY <1>1, <1>2, <1>3 DEF LinksInDepth, TriedEnough, NothingWaits
  <1>9. SeedsFirst'
    BY <1>1, <1>2, <1>3, <1>4, <1>5, SeedsStay DEF SeedsFirst
  <1> QED
    BY <1>4, <1>6, <1>7, <1>8, <1>9

LEMMA CrawlSoundNext ==
  ASSUME CrawlSound, [Crawl!Next]_crawlVars
  PROVE  CrawlSound'
  <1> USE DEF CrawlSound
  <1>1. ASSUME NEW w \in Fetchers, Crawl!FetcherStep(w)
        PROVE  CrawlSound'
    <2>1. PICK r \in Crawls, u \in Urls : r = fetcher[w].run /\ u = fetcher[w].url
      BY DEF CrawlShape, Fetching
    <2>2. /\ CrawlShape /\ fetcher[w] \in Fetching /\ frontier[r][u] \in Lines /\ page[u] \in Nat /\ site[u] \in Nat
          /\ page \in [Urls -> Nat] /\ indexed \in [Urls -> Nat] /\ stops \in Nat
      BY DEF CrawlShape
    <2>4. CASE Crawl!ClaimRun(w)
      BY <2>4, ClaimsRun
    <2>5. CASE Crawl!AddSeeds(w)
      BY <2>5, AddsOne, CrawlAssumption DEF Crawl!AddSeeds
    <2>6. CASE Crawl!AddLinks(w)
      <3>1. Crawl!AddOne(w, "link", frontier[r][u].depth + 1, "done")
        BY <2>1, <2>6 DEF Crawl!AddLinks, Crawl!Row
      <3>2. fetcher[w].at = "link"
        BY <3>1 DEF Crawl!AddOne
      <3>3. fetcher[w].left # {} => frontier[r][u].depth + 1 \in 0 .. MaxDepth
        BY <2>1, <2>2, <3>2, CrawlAssumption DEF LinksInDepth, Lines
      <3> QED
        BY <3>1, <3>3, AddsOne
    <2>7. CASE Crawl!RunRaises(w)
      BY <2>7, EndsRun DEF Crawl!RunRaises, Crawl!Ended
    <2>8. CASE Crawl!Conclude(w)
      BY <2>8, EndsRun DEF Crawl!Conclude, Crawl!Ended, Crawl!Away
    <2>11. CASE Crawl!NextFrontier(w)
      <3>1. CASE crawl[r].cancel /\ Crawl!FinishRun(r, "canceled") /\ Crawl!Rest(w) /\ UNCHANGED frontier
        BY <2>1, <2>11, <3>1, EndsRun DEF Crawl!NextFrontier, Crawl!Ended, Crawl!Away
      <3>2. CASE {v \in Urls : frontier[r][v].status = "queued"} = {} /\ Crawl!Go(w, "conclude")
                 /\ UNCHANGED <<crawl, frontier>>
        <4> DEFINE f == [fetcher[w] EXCEPT !.at = "conclude"]
        <4>1. fetcher' = [fetcher EXCEPT ![w] = f]
          BY <2>2, <3>2 DEF Crawl!Go, CrawlShape
        <4>2. f \in Fetching /\ f.at = "conclude" /\ f.run = r /\ f.url = u
          BY <2>1, <2>2 DEF Fetching, Places
        <4> HIDE DEF f
        <4> QED
          BY <2>1, <2>2, <2>11, <3>2, <4>1, <4>2, GoesOnTo DEF Crawl!NextFrontier, AtPage
      <3> QED
        BY <2>1, <2>11, <3>1, <3>2, TakesNext DEF Crawl!NextFrontier, Takes
    <2>12. CASE Crawl!Skip(w)
      BY <2>1, <2>12, FinishesRow DEF Crawl!Skip, AtPage
    <2>13. CASE Crawl!MarkUnchanged(w)
      <3> DEFINE f == [fetcher[w] EXCEPT !.at = "done"]
      <3>1. fetcher' = [fetcher EXCEPT ![w] = f]
        BY <2>1, <2>2, <2>13 DEF Crawl!MarkUnchanged, Crawl!Go, CrawlShape
      <3>2. f \in Fetching /\ f.at = "done" /\ f.run = r /\ f.url = u
        BY <2>1, <2>2 DEF Fetching, Places
      <3> HIDE DEF f
      <3> QED
        BY <2>1, <2>2, <2>13, <3>1, <3>2, GoesOnTo DEF Crawl!MarkUnchanged, AtPage
    <2>14. CASE Crawl!Fetch(w)
      <3> DEFINE f == [fetcher[w] EXCEPT !.at = "store", !.got = site[u]]
      <3>1. fetcher' = [fetcher EXCEPT ![w] = f]
        BY <2>1, <2>2, <2>14 DEF Crawl!Fetch, Crawl!Go, CrawlShape
      <3>2. f \in Fetching /\ f.at = "store" /\ f.run = r /\ f.url = u
        BY <2>1, <2>2 DEF Fetching, Places
      <3> HIDE DEF f
      <3> QED
        BY <2>1, <2>2, <2>14, <3>1, <3>2, GoesOnTo DEF Crawl!Fetch, AtPage
    <2>15. CASE Crawl!RetryFrontier(w)
      BY <2>1, <2>15, FinishesRow DEF Crawl!RetryFrontier, Crawl!TriesLeft, Crawl!Row, AtPage
    <2>16. CASE Crawl!PageRaises(w)
      BY <2>1, <2>16, FinishesRow DEF Crawl!PageRaises, AtPage
    <2>17. CASE Crawl!StorePage(w)
      <3>1. CASE fetcher[w].saw = Crawl!None /\ page[u] # Crawl!None
        BY <2>1, <2>17, <3>1, FinishesRow DEF Crawl!StorePage, AtPage
      <3>2. CASE ~(fetcher[w].saw = Crawl!None /\ page[u] # Crawl!None)
        <4> DEFINE f == [fetcher[w] EXCEPT !.at = "index"]
        <4>1. /\ fetcher' = [fetcher EXCEPT ![w] = f] /\ page' = [page EXCEPT ![u] = fetcher[w].got]
              /\ crawl' = [crawl EXCEPT ![r].fetched = TRUE] /\ fetcher[w].at = "store"
              /\ UNCHANGED <<site, frontier, indexed, stops>>
          BY <2>1, <2>2, <2>17, <3>2 DEF Crawl!StorePage, Crawl!Go, CrawlShape
        <4>2. f \in Fetching /\ f.at = "index" /\ f.run = r /\ f.url = u
          BY <2>1, <2>2 DEF Fetching, Places
        <4>3. page' \in [Urls -> Nat]
          BY <2>2, <4>1 DEF Fetching
        <4> HIDE DEF f
        <4> QED
          BY <2>1, <2>2, <4>1, <4>2, <4>3, GoesOnTo DEF AtPage
      <3> QED
        BY <3>1, <3>2
    <2>18. CASE Crawl!Index(w)
      <3> DEFINE left == IF frontier[r][u].depth < MaxDepth THEN Links[u] ELSE {}
                 f == [fetcher[w] EXCEPT !.at = "link", !.left = left]
      <3>1. fetcher' = [fetcher EXCEPT ![w] = f] /\ UNCHANGED <<site, crawl, frontier, page, stops>>
        BY <2>1, <2>2, <2>18 DEF Crawl!Index, Crawl!Row, CrawlShape
      <3>2. left \in SUBSET Urls /\ (left # {} => frontier[r][u].depth < MaxDepth)
        BY CrawlAssumption
      <3> HIDE DEF left
      <3>3. f \in Fetching /\ f.at = "link" /\ f.run = r /\ f.url = u /\ f.left = left
        BY <2>1, <2>2, <3>2 DEF Fetching, Places
      <3> HIDE DEF f
      <3>4. PICK v \in {indexed[u], fetcher[w].got} : indexed' = [indexed EXCEPT ![u] = v]
        BY <2>1, <2>18 DEF Crawl!Index
      <3>5. v \in Nat
        BY <2>2, <3>4 DEF Fetching
      <3>6. indexed' \in [Urls -> Nat]
        BY <2>2, <3>4, <3>5
      <3>7. fetcher[w].at = "index"
        BY <2>18 DEF Crawl!Index
      <3> QED
        BY <2>1, <2>2, <3>1, <3>2, <3>3, <3>6, <3>7, GoesOnTo DEF AtPage
    <2>19. CASE Crawl!FinishPage(w)
      BY <2>1, <2>19, FinishesRow DEF Crawl!FinishPage, AtPage
    <2>20. CASE Crawl!PageFailed(w)
      <3> DEFINE f == [fetcher[w] EXCEPT !.at = "next"]
      <3>1. fetcher' = [fetcher EXCEPT ![w] = f]
        BY <2>1, <2>2, <2>20 DEF Crawl!PageFailed, Crawl!Go, CrawlShape
      <3>2. f \in Fetching /\ f.at = "next" /\ f.run = r /\ f.url = u
        BY <2>1, <2>2 DEF Fetching, Places
      <3> HIDE DEF f
      <3> QED
        BY <2>1, <2>2, <2>20, <3>1, <3>2, GoesOnTo DEF Crawl!PageFailed, AtPage
    <2> QED
      BY <1>1, <2>4, <2>5, <2>6, <2>7, <2>8, <2>11, <2>12, <2>13, <2>14, <2>15, <2>16, <2>17, <2>18, <2>19, <2>20
         DEF Crawl!FetcherStep
  <1>2. ASSUME NEW r \in Crawls, Crawl!CancelRun(r) \/ \E trigger0 \in {"manual", "schedule"} : Crawl!Enqueue(r, trigger0)
        PROVE  CrawlSound'
    <2>1. PICK s \in {"queued", "running", "canceled"} :
            /\ s = "running" <=> crawl[r].status = "running"
            /\ crawl[r].status \in {"none", "queued", "running"}
            /\ \/ crawl' = [crawl EXCEPT ![r].status = s]
               \/ crawl' = [crawl EXCEPT ![r].cancel = TRUE, ![r].status = s]
            /\ UNCHANGED <<site, frontier, page, indexed, fetcher, stops>>
      <3>1. CASE Crawl!CancelRun(r)
        BY <3>1 DEF Crawl!CancelRun, CrawlShape
      <3>2. CASE \E trigger0 \in {"manual", "schedule"} : Crawl!Enqueue(r, trigger0)
        BY <3>2 DEF Crawl!Enqueue
      <3> QED
        BY <1>2, <3>1, <3>2
    <2>2. /\ crawl' \in [Crawls -> [status : {"none", "queued", "running"} \cup Crawl!Ended, cancel : BOOLEAN,
                                    fetched : BOOLEAN, failed : BOOLEAN]]
          /\ \A q \in Crawls : crawl'[q].status = IF q = r THEN s ELSE crawl[q].status
      <3> DEFINE Entries == [status : {"none", "queued", "running"} \cup Crawl!Ended, cancel : BOOLEAN,
                             fetched : BOOLEAN, failed : BOOLEAN]
      <3>1. crawl \in [Crawls -> Entries] /\ crawl[r] \in Entries
        BY DEF CrawlShape
      <3>2. ASSUME NEW c \in Entries, c.status = s, crawl' = [crawl EXCEPT ![r] = c]
            PROVE  crawl' \in [Crawls -> Entries] /\ \A q \in Crawls : crawl'[q].status = IF q = r THEN s ELSE crawl[q].status
        <4> HIDE DEF Entries
        <4> QED
          BY <3>1, <3>2
      <3>3. CASE crawl' = [crawl EXCEPT ![r].status = s]
        <4>1. [crawl[r] EXCEPT !.status = s] \in Entries /\ [crawl[r] EXCEPT !.status = s].status = s
          BY <3>1 DEF Crawl!Ended
        <4> QED
          BY <3>2, <3>3, <4>1
      <3>4. CASE crawl' = [crawl EXCEPT ![r].cancel = TRUE, ![r].status = s]
        <4> DEFINE b == [crawl[r] EXCEPT !.cancel = TRUE]
                   c == [b EXCEPT !.status = s]
        <4>1. b \in Entries
          BY <3>1
        <4>2. c \in Entries /\ c.status = s
          <5> HIDE DEF b
          <5> QED
            BY <4>1 DEF Crawl!Ended
        <4>3. crawl' = [crawl EXCEPT ![r] = c]
          BY <3>1, <3>4
        <4> HIDE DEF c, CrawlSound
        <4> QED
          BY <3>2, <4>2, <4>3
      <3> QED
        BY <2>1, <3>3, <3>4
    <2>3. CrawlShape' /\ \A v \in Fetchers : fetcher[v].run \in Crawls
      BY <2>1, <2>2 DEF CrawlShape, Fetching
    <2> HIDE DEF CrawlShape
    <2>4. \A q \in Crawls : /\ crawl'[q].status = "running" <=> crawl[q].status = "running"
                            /\ crawl'[q].status = "succeeded" => crawl[q].status = "succeeded"
                            /\ crawl[q].status \in Crawl!Ended => crawl'[q].status \in Crawl!Ended
      BY <2>1, <2>2 DEF Crawl!Ended
    <2>5. WorkedAlone'
      BY <2>1, <2>3, <2>4 DEF WorkedAlone
    <2>6. SeedsFirst'
      <3>1. \A q \in Crawls : Crawl!Known(q)' = Crawl!Known(q)
        BY <2>1, KnownStays
      <3> QED
        BY <2>1, <2>3, <2>4, <3>1, SeedsStay DEF SeedsFirst
    <2> QED
      BY <2>1, <2>3, <2>4, <2>5, <2>6 DEF PageInHand, LinksInDepth, TriedEnough, NothingWaits
  <1>3. ASSUME UNCHANGED <<crawl, frontier, page, indexed, fetcher, stops>>, site' \in [Urls -> Nat]
        PROVE  CrawlSound'
    <2>1. CrawlShape' /\ \A v \in Fetchers : fetcher[v].run \in Crawls
      BY <1>3 DEF CrawlShape, Fetching
    <2> HIDE DEF CrawlShape
    <2>2. SeedsFirst'
      <3>1. \A q \in Crawls : Crawl!Known(q)' = Crawl!Known(q)
        BY <1>3, KnownStays
      <3> QED
        BY <1>3, <2>1, <3>1, SeedsStay DEF SeedsFirst
    <2> QED
      BY <1>3, <2>1, <2>2 DEF WorkedAlone, PageInHand, LinksInDepth, TriedEnough, NothingWaits
  <1>4. ASSUME NEW u \in Urls, Crawl!Edit(u)
        PROVE  CrawlSound'
    BY <1>3, <1>4 DEF Crawl!Edit, CrawlShape
  <1>5. CASE UNCHANGED crawlVars
    BY <1>3, <1>5 DEF crawlVars, CrawlShape
  <1>6. CASE Crawl!Restart
    <2>1. /\ \A q \in Crawls : \A v \in Urls :
               frontier'[q][v] = IF frontier[q][v].status = "processing"
                                 THEN [frontier[q][v] EXCEPT !.status = "queued"] ELSE frontier[q][v]
          /\ frontier' = [q \in Crawls |-> [v \in Urls |-> frontier'[q][v]]]
      <3>1. \A q \in Crawls : \A v \in Urls : frontier[q][v] \in Lines
        BY DEF CrawlShape
      <3>2. frontier' = [q \in Crawls |-> [v \in Urls |->
              [frontier[q][v] EXCEPT !.status = IF @ = "processing" THEN "queued" ELSE @]]]
        BY <1>6 DEF Crawl!Restart, Crawl!RecoveredFrontier
      <3> QED
        BY <3>1, <3>2 DEF Lines
    <2>2. \A q \in Crawls : \A v \in Urls : frontier[q][v] \in Lines /\ frontier[q][v].attempts \in Nat
      BY DEF CrawlShape, Lines
    <2>3. frontier' \in [Crawls -> [Urls -> Lines]]
      <3>1. ASSUME NEW q \in Crawls, NEW v \in Urls PROVE frontier'[q][v] \in Lines
        <4>1. CASE frontier[q][v].status = "processing"
          <5>1. frontier'[q][v] = [frontier[q][v] EXCEPT !.status = "queued"]
            BY <2>1, <4>1
          <5>2. "queued" \in Crawl!FrontierStatuses /\ frontier[q][v] \in Lines
            BY <2>2 DEF Crawl!FrontierStatuses
          <5> QED
            BY <5>1, <5>2 DEF Lines
        <4>2. CASE frontier[q][v].status # "processing"
          BY <2>1, <2>2, <4>2
        <4> QED
          BY <4>1, <4>2
      <3> QED
        BY <2>1, <3>1
    <2>4. /\ crawl' \in [Crawls -> [status : {"none", "queued", "running"} \cup Crawl!Ended, cancel : BOOLEAN,
                                    fetched : BOOLEAN, failed : BOOLEAN]]
          /\ \A q \in Crawls : crawl'[q].status = IF crawl[q].status = "running" THEN "queued" ELSE crawl[q].status
      BY <1>6 DEF Crawl!Restart, CrawlShape, Crawl!Ended
    <2>5. /\ fetcher' = [v \in Fetchers |-> Crawl!Resting] /\ Crawl!Resting.at = "idle" /\ Crawl!Resting \in Fetching
          /\ stops \in Nat /\ stops' = stops + 1 /\ UNCHANGED <<site, page, indexed>>
      BY <1>6, CrawlAssumption DEF Crawl!Restart, Crawl!Resting, Crawl!None, Fetching, Places, CrawlShape
    <2>6. CrawlShape' /\ \A v \in Fetchers : fetcher'[v].at = "idle" /\ fetcher'[v].run \in Crawls
      BY <2>3, <2>4, <2>5 DEF CrawlShape, Fetching
    <2> HIDE DEF CrawlShape
    <2>7. WorkedAlone'
      BY <2>4, <2>6 DEF WorkedAlone
    <2>8. ASSUME NEW q \in Crawls, NEW v \in Urls
          PROVE  frontier'[q][v].status # "processing" /\ frontier'[q][v].attempts = frontier[q][v].attempts
      <3>1. frontier[q][v] \in Lines
        BY <2>2
      <3>2. CASE frontier[q][v].status = "processing"
        <4>1. frontier'[q][v] = [frontier[q][v] EXCEPT !.status = "queued"]
          BY <2>1, <3>2
        <4> HIDE DEF CrawlSound
        <4> QED
          BY <3>1, <4>1 DEF Lines
      <3>3. CASE frontier[q][v].status # "processing"
        BY <2>1, <3>3
      <3> QED
        BY <3>2, <3>3
    <2>9. PageInHand' /\ LinksInDepth'
      BY <2>6, <2>8 DEF PageInHand, LinksInDepth, AtPage
    <2>10. TriedEnough'
      BY <2>2, <2>5, <2>8, CrawlAssumption DEF TriedEnough
    <2>11. SeedsFirst'
      <3>1. \A q \in Crawls : Crawl!Known(q)' = Crawl!Known(q)
        BY <2>1, <2>2, KnownStays DEF Lines
      <3> QED
        BY <2>4, <2>6, <3>1, SeedsStay DEF SeedsFirst
    <2>12. NothingWaits'
      BY <2>1, <2>4, <2>6, <2>8 DEF NothingWaits
    <2> QED
      BY <2>6, <2>7, <2>9, <2>10, <2>11, <2>12
  <1>7. ASSUME NEW w \in Fetchers, Crawl!ThreadEnds(w)
        PROVE  CrawlSound'
    BY <1>7, EndsThread
  <1> QED
    BY <1>1, <1>2, <1>4, <1>5, <1>6, <1>7 DEF Crawl!Next

LEMMA SoundIsWorkedByOne == CrawlSound => Crawl!WorkedByOne /\ Crawl!SuccessIsComplete
  <1> SUFFICES ASSUME CrawlSound PROVE Crawl!WorkedByOne /\ Crawl!SuccessIsComplete
    OBVIOUS
  <1>1. Crawl!WorkedByOne
    <2> SUFFICES ASSUME NEW r \in Crawls
                 PROVE  Crawl!Cardinality({w \in Fetchers : fetcher[w].at \notin {"idle", "gone"} /\ fetcher[w].run = r})
                          = IF crawl[r].status = "running" THEN 1 ELSE 0
      BY DEF Crawl!WorkedByOne
    <2> DEFINE Hands == {w \in Fetchers : fetcher[w].at \notin {"idle", "gone"} /\ fetcher[w].run = r}
    <2>1. CASE crawl[r].status = "running"
      <3>1. \E w \in Fetchers : Hands = {w}
        BY <2>1 DEF CrawlSound, WorkedAlone
      <3> QED
        BY <2>1, <3>1, SameCardinality, FS_Singleton
    <2>2. CASE crawl[r].status # "running"
      <3>1. Hands = {}
        BY <2>2 DEF CrawlSound, WorkedAlone
      <3> QED
        BY <2>2, <3>1, SameCardinality, FS_EmptySet
    <2> QED
      BY <2>1, <2>2
  <1>2. \A r \in Crawls : Crawl!Cardinality(Crawl!Known(r)) <= MaxPages
    BY SameCardinality DEF CrawlSound, SeedsFirst
  <1>3. \A r \in Crawls : \A u \in Urls : frontier[r][u].attempts <= FetchAttempts + stops
    BY DEF CrawlSound, TriedEnough
  <1>4. \A r \in Crawls : crawl[r].status = "succeeded" =>
          \A u \in Crawl!Known(r) : frontier[r][u].status \in {"done", "failed", "skipped"}
    BY DEF CrawlSound, NothingWaits, CrawlShape, Lines, Crawl!FrontierStatuses, Crawl!Known
  <1>5. \A r \in Crawls : crawl[r].status = "succeeded" =>
          Seeds \subseteq Crawl!Known(r) \/ Crawl!Cardinality(Crawl!Known(r)) = MaxPages
    BY SameCardinality DEF CrawlSound, SeedsFirst, HasSeeds
  <1> QED
    BY <1>1, <1>2, <1>3, <1>4, <1>5 DEF Crawl!SuccessIsComplete

-----------------------------------------------------------------------------
\* A message is in one hand, an answer stands once, a crawl is worked by one thread to
\* its very end and a due time starts one run, whoever crashes, lapses or acts late
\* (claim(), save_agent_result(), claim_run(), recover(), enqueue_run()).
THEOREM EverythingIsHandledOnce == ServicesSpec => []HandledOnce
  <1>1. ServicesSpec => []Handed
    BY HandedInit, HandedNext, InboxSteps, PTL DEF ServicesSpec
  <1>2. ServicesSpec => []AnsweredOnce
    BY AnsweredOnceInit, AnsweredOnceNext, PublicationSteps, PTL DEF ServicesSpec
  <1>3. ServicesSpec => []CrawlSound
    BY CrawlSoundInit, CrawlSoundNext, CrawlSteps, PTL DEF ServicesSpec
  <1>4. ServicesSpec => []FlowSound
    BY FlowSoundInit, FlowSoundNext, FlowSteps, PTL DEF ServicesSpec
  <1>5. Handed /\ AnsweredOnce /\ CrawlSound /\ FlowSound => HandledOnce
    BY HandedByOne, AnsweredIsPublishedOnce, SoundIsWorkedByOne DEF FlowSound, HandledOnce
  <1> QED
    BY <1>1, <1>2, <1>3, <1>4, <1>5, PTL
=============================================================================
