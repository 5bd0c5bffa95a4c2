--------------------------- MODULE TodoReminders ---------------------------
(***************************************************************************)
(* The reminder of one todo: the user's changes (SqliteTodoStore in        *)
(* plugins/todo.py), the job that claims reminders that are due and hands  *)
(* them to the outbox (TodoPlugin, NotificationOutboxStore), and the       *)
(* outbox that reports back (_sync_source() in services/notification.py).  *)
(*                                                                         *)
(* Of an outbox row only this matters: it is open for a while, may report  *)
(* failures, and is sent at last (see NotificationOutbox).  A reminder     *)
(* cannot be given up: only images are.                                    *)
(***************************************************************************)
EXTENDS Naturals

CONSTANTS
  Horizon,     \* bound: the times a reminder may be set to are 1 .. Horizon
  MaxFaults    \* bound: process crashes, and writes the database refuses

Times == 1 .. Horizon
None == 0

VARIABLES
  now,
  todo,     \* the row in todos: status, reminder_at, is_one_off
  event,    \* the row in todo_reminder_events: due_at and delivery_status
  outbox,   \* notification_outbox by source key: the time the reminder was due
  job,      \* the due_at the background job has claimed and not handed over, or None
  down,     \* the process died and has not started again
  faults

vars == <<now, todo, event, outbox, job, down, faults>>

Init ==
  /\ now = 0 /\ job = None /\ down = FALSE /\ faults = 0
  /\ todo \in [status : {"pending"}, due : {None}, oneOff : {FALSE}]
  /\ event = [due |-> None, status |-> "none"]
  /\ outbox = [t \in Times |-> "absent"]

-----------------------------------------------------------------------------
(* The user.  execute(): apply_action(), _save(), _sync_reminder_events().    *)

\* The event follows the todo: a new or renewed reminder is pending again, one
\* that is no more wanted is cancelled unless it went out.
Synced(item) ==
  IF item.status = "pending" /\ item.due # None
  THEN IF event.due # item.due \/ event.status = "cancelled"
       THEN [due |-> item.due, status |-> "pending"] ELSE event
  ELSE IF event.status \in {"pending", "sending"} THEN [event EXCEPT !.status = "cancelled"]
  ELSE event

Changed(item) ==
  /\ ~down /\ todo' = item /\ event' = Synced(item)
  /\ <<todo', event'>> # <<todo, event>>
  /\ UNCHANGED <<now, outbox, job, down, faults>>

\* edit: a reminder is set to a time to come, or cleared; without a word about
\* it, the first reminder makes the todo a one-off and clearing it unmakes it.
EditReminder(due) ==
  /\ todo.status = "pending" /\ due \in {None} \cup {t \in Times : t > now}
  /\ Changed([todo EXCEPT !.due = due,
       !.oneOff = IF todo.due = None /\ due # None THEN TRUE
                  ELSE IF todo.due # None /\ due = None THEN FALSE ELSE @])

EditOneOff == Changed([todo EXCEPT !.oneOff = ~@])

\* The title, or another todo of the tenant: all are saved and synchronised.
EditOther == Changed(todo)

Complete == Changed([todo EXCEPT !.status = "completed", !.due = None])

Restore == todo.status = "completed" /\ Changed([todo EXCEPT !.status = "pending"])

-----------------------------------------------------------------------------
(* The job "due_reminders".                                                  *)

\* claim_due_reminders()
IsDueJustNow == event.due = now                                             \* mutant
IsDue == event.due <= now

ClaimDueReminders ==
  /\ ~down /\ job = None
  /\ event.status = "pending" /\ IsDue
  /\ todo.status = "pending" /\ todo.due = event.due
  /\ event' = [event EXCEPT !.status = "sending"] /\ job' = event.due
  /\ UNCHANGED <<now, todo, outbox, down, faults>>

\* enqueue_todo_reminder(): the reminder must still be the one that was claimed.
StillWanted(due) ==
  /\ event.due = due /\ event.status \in {"pending", "sending"}
  /\ todo.status = "pending" /\ todo.due = due

EnqueueTodoReminder ==
  /\ job # None /\ StillWanted(job)
  /\ outbox' = [outbox EXCEPT ![job] = IF @ = "absent" THEN "open" ELSE @]
  /\ event' = [event EXCEPT !.status = "sending"] /\ job' = None
  /\ UNCHANGED <<now, todo, down, faults>>

GivenBackRetry == [event EXCEPT !.status = "retry"]                         \* mutant
GivenBack == IF event.status = "sending" THEN [event EXCEPT !.status = "pending"] ELSE event

\* It raises, for this or for another reason: finish_reminder(False).
FinishReminder ==
  /\ job # None /\ job' = None
  /\ IF StillWanted(job) THEN faults < MaxFaults /\ faults' = faults + 1 ELSE UNCHANGED faults
  /\ event' = GivenBack
  /\ UNCHANGED <<now, todo, outbox, down>>

-----------------------------------------------------------------------------
(* The outbox.  _sync_source() knows the todo by its number only.            *)

Sent(t) ==
  /\ ~down /\ outbox[t] = "open" /\ outbox' = [outbox EXCEPT ![t] = "sent"]
  /\ event' = [event EXCEPT !.status = "sent"]
  /\ todo' = IF todo.status = "pending" /\ todo.oneOff
             THEN [todo EXCEPT !.status = "completed", !.due = None] ELSE todo
  /\ UNCHANGED <<now, job, down, faults>>

NotSentYet(t) ==
  /\ ~down /\ outbox[t] = "open" /\ event.status # "sending"
  /\ event' = [event EXCEPT !.status = "sending"]
  /\ UNCHANGED <<now, todo, outbox, job, down, faults>>

-----------------------------------------------------------------------------
Tick == now < Horizon /\ now' = now + 1 /\ UNCHANGED <<todo, event, outbox, job, down, faults>>

Crash ==
  /\ ~down /\ faults < MaxFaults /\ faults' = faults + 1
  /\ down' = TRUE /\ job' = None /\ UNCHANGED <<now, todo, event, outbox>>

\* recover_inflight_reminders(): what no open row of the outbox stands for.
RecoveredNone == event                                                      \* mutant
Recovered ==
  IF event.status = "sending" /\ \A t \in Times : outbox[t] # "open"
  THEN [event EXCEPT !.status = "pending"] ELSE event

Start ==
  /\ down /\ down' = FALSE
  /\ event' = Recovered
  /\ UNCHANGED <<now, todo, outbox, job, faults>>

User == (\E due \in Times \cup {None} : EditReminder(due)) \/ EditOneOff \/ EditOther \/ Complete \/ Restore

Next ==
  \/ User \/ ClaimDueReminders \/ EnqueueTodoReminder \/ FinishReminder
  \/ (\E t \in Times : Sent(t) \/ NotSentYet(t))
  \/ Tick \/ Crash \/ Start

\* The job runs every 30 s and hands over what it has claimed, the process is
\* started again, time passes, and what is in the outbox is sent at last.
Fairness ==
  /\ WF_vars(ClaimDueReminders) /\ WF_vars(EnqueueTodoReminder \/ FinishReminder)
  /\ WF_vars(Tick) /\ WF_vars(Start)
  /\ \A t \in Times : WF_vars(Sent(t))

Spec == Init /\ [][Next]_vars
FairSpec == Spec /\ Fairness

-----------------------------------------------------------------------------
ReminderTypeOK ==
  /\ now \in 0 .. Horizon /\ faults \in 0 .. MaxFaults /\ down \in BOOLEAN
  /\ todo \in [status : {"pending", "completed"}, due : Times \cup {None}, oneOff : BOOLEAN]
  /\ event \in [due : Times \cup {None},
                status : {"none", "pending", "sending", "sent", "cancelled"}]
  /\ outbox \in [Times -> {"absent", "open", "sent"}]
  /\ job \in Times \cup {None}

\* A reminder that is called "sending" is on its way: the job has it, the outbox
\* has it, or the next start finds it (recover_inflight_reminders()).
SendingIsUnderWay ==
  event.status = "sending" => \/ job # None \/ down
                              \/ \E t \in Times : outbox[t] = "open"

\* The delivery of an earlier reminder of the todo was taken for the one due at t, which
\* then does not go out (_sync_source() knows the todo only).
TakenForSent(t) == event.status = "sent" /\ \E u \in Times \ {t} : outbox[u] = "sent"

\* A reminder that is pending goes out for the time it is set to, is called off or set to
\* another time, through crashes and failures and whatever the user changes, unless an
\* earlier one that was still in the outbox is taken for it (claim_due_reminders()).
ReminderSettles ==
  \A t \in Times : event.due = t /\ event.status \in {"pending", "sending"} ~>
                     outbox[t] = "sent" \/ event.status = "cancelled" \/ event.due # t \/ TakenForSent(t)

\* "The list shows the state of delivery as it is": a reminder that is listed as
\* sent was sent.
ListedAsSentWasSent == event.status = "sent" => outbox[event.due] = "sent"
=============================================================================
