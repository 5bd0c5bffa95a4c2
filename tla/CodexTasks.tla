----------------------------- MODULE CodexTasks -----------------------------
(***************************************************************************)
(* Background tasks of the Codex plugin (plugins/codex_tasks.py): the rows *)
(* of a tenant's tasks, the slots that bound how many turns run, and the   *)
(* threads that begin and run a turn, beside those that cancel, close and  *)
(* answer the requests of a session.  What a turn does is external.        *)
(***************************************************************************)
EXTENDS Naturals, FiniteSets

CONSTANTS
  Tasks,     \* bound: task ids, in the order they are given
  Callers,   \* bound: requests to begin a turn, each with the thread that runs it
  MaxSlots,  \* max_concurrent_tasks
  MaxErrors, \* bound: writes the database refuses to one process
  MaxStops   \* bound: stops of the process

VARIABLES
  task,         \* the rows' status
  free,         \* _slots
  caller,       \* each thread: its place, its task, how its turn ended
  active,       \* _active: the thread whose handle the task has, or Nobody
  asked,        \* cancellations between the look at the row and the mark
  marked,       \* _cancelled
  blocked,      \* _blocked_interactions
  interrupted,  \* threads on whose handle interrupt() was called; if that raises, the error goes to
                \* who cancels, and nothing else changes
  closed,       \* _closed
  errors,
  stopped       \* how often the process did

codexVars == <<task, free, caller, active, asked, marked, blocked, interrupted, closed, errors, stopped>>
flags == <<active, asked, marked, blocked, interrupted, closed, errors, stopped>>

Active == {"queued", "running"}
Terminal == {"completed", "failed", "interrupted"}
Nobody == "nobody"
New == 0
Waiting == [at |-> "idle", task |-> New, end |-> "completed"]
\* The places between acquire() and release(), and the one no release() follows.
Holding == {"start", "row", "register", "reopen", "queued", "turn", "run", "cleanup", "finish"}

Init ==
  /\ task = [t \in Tasks |-> "none"] /\ free = MaxSlots
  /\ caller = [c \in Callers |-> Waiting] /\ active = [t \in Tasks |-> Nobody]
  /\ asked = {} /\ marked = {} /\ blocked = {} /\ interrupted = {}
  /\ closed = FALSE /\ errors = 0 /\ stopped = 0

Go(c, at) == caller' = [caller EXCEPT ![c].at = at]
Leave(c) == caller' = [caller EXCEPT ![c] = Waiting]

-----------------------------------------------------------------------------
(* create_task() and continue_task().                                        *)

ReadForContinue(c, t) ==
  /\ caller[c].at = "idle" /\ task[t] \in Terminal
  /\ caller' = [caller EXCEPT ![c].at = "read", ![c].task = t]
  /\ UNCHANGED <<task, free, flags>>

\* Without a free slot the request is refused.
Acquire(c) ==
  /\ caller[c].at \in {"idle", "read"}
  /\ \/ free > 0 /\ free' = free - 1 /\ Go(c, "start")
     \/ free = 0 /\ caller[c].at = "read" /\ Leave(c) /\ UNCHANGED free
  /\ UNCHANGED <<task, flags>>

StartSession(c) ==
  /\ caller[c].at = "start" /\ Go(c, "row") /\ UNCHANGED <<task, free, flags>>

\* The task is the session's thread: a new one, or the one that goes on.
WriteRow(c) ==
  /\ caller[c].at = "row"
  /\ \E t \in Tasks :
       /\ IF caller[c].task = New THEN task[t] = "none" /\ (\A s \in Tasks : s < t => task[s] # "none")
                                  ELSE t = caller[c].task
       /\ task' = [task EXCEPT ![t] = "queued"]
       /\ caller' = [caller EXCEPT ![c].at = IF caller[c].task = New THEN "register" ELSE "reopen", ![c].task = t]
  /\ UNCHANGED <<free, flags>>

\* Whatever raises on the way closes the session and gives the slot back; of the
\* closed plugin the executor takes no turn either.
Raise(c) ==
  /\ caller[c].at \in {"start", "row"} \/ (closed /\ caller[c].at \in {"register", "reopen", "queued"})
  /\ free' = free + 1 /\ Leave(c) /\ UNCHANGED <<task, flags>>

\* Only the task that goes on loses its marks.
Register(c) ==
  LET Old == IF caller[c].at = "reopen" THEN {caller[c].task} ELSE {} IN
  /\ caller[c].at \in {"register", "reopen"} /\ ~closed /\ Go(c, "queued")
  /\ marked' = marked \ Old /\ blocked' = blocked \ Old
  /\ UNCHANGED <<task, free, active, asked, interrupted, closed, errors, stopped>>

-----------------------------------------------------------------------------
(* _execute_turn().                                                          *)

MarkRunning(c) ==
  /\ caller[c].at = "queued" /\ task' = [task EXCEPT ![caller[c].task] = "running"]
  /\ Go(c, "turn") /\ UNCHANGED <<free, flags>>

\* The write stands outside of the try: the thread ends with its slot.
MarkRunningRaises(c) ==
  /\ caller[c].at = "queued" /\ errors < MaxErrors /\ errors' = errors + 1
  /\ Go(c, "lost") /\ UNCHANGED <<task, free, active, asked, marked, blocked, interrupted, closed, stopped>>

NoneTold(c) == {}                                                          \* mutant
ToldAtOnce(c) == {c} \cap {d \in Callers : caller[d].task \in marked}

TakeHandle(c) ==
  /\ caller[c].at = "turn" /\ Go(c, "run")
  /\ active' = [active EXCEPT ![caller[c].task] = c]
  /\ interrupted' = interrupted \cup ToldAtOnce(c)
  /\ UNCHANGED <<task, free, asked, marked, blocked, closed, errors, stopped>>

\* A turn that cannot be begun, or raises, or comes back; the marks outweigh
\* what it says of itself.
Judged(t, raw) ==
  IF t \in blocked THEN "failed" ELSE IF t \in marked THEN "interrupted" ELSE raw

TurnRaises(c) ==
  LET t == caller[c].task IN
  /\ caller[c].at \in {"turn", "run"}
  /\ caller' = [caller EXCEPT ![c].at = "cleanup", ![c].end = IF t \in marked THEN "interrupted" ELSE "failed"]
  /\ UNCHANGED <<task, free, flags>>

TurnEnds(c) ==
  /\ caller[c].at = "run"
  /\ \E raw \in Terminal :
       caller' = [caller EXCEPT ![c].at = "cleanup", ![c].end = Judged(caller[c].task, raw)]
  /\ UNCHANGED <<task, free, flags>>

Cleanup(c) ==
  LET t == caller[c].task IN
  /\ caller[c].at = "cleanup" /\ Go(c, "finish")
  /\ active' = [active EXCEPT ![t] = Nobody]
  /\ marked' = marked \ {t} /\ blocked' = blocked \ {t} /\ interrupted' = interrupted \ {c}
  /\ UNCHANGED <<task, free, asked, closed, errors, stopped>>

KeptWhenRaising(c, raises) == IF raises THEN free ELSE free + 1            \* mutant
FreedBy(c, raises) == free + 1

Finish(c) ==
  /\ caller[c].at = "finish"
  /\ \/ task' = [task EXCEPT ![caller[c].task] = caller[c].end] /\ free' = FreedBy(c, FALSE) /\ UNCHANGED errors
     \/ errors < MaxErrors /\ errors' = errors + 1 /\ free' = FreedBy(c, TRUE) /\ UNCHANGED task
  /\ Leave(c)
  /\ UNCHANGED <<active, asked, marked, blocked, interrupted, closed, stopped>>

-----------------------------------------------------------------------------
(* What happens to a turn from outside.                                      *)

\* cancel_task() reads the row, then marks the task and tells its handle.
CancelRead(t) ==
  /\ task[t] \in Active /\ t \notin asked /\ asked' = asked \cup {t}
  /\ UNCHANGED <<task, free, caller, active, marked, blocked, interrupted, closed, errors, stopped>>

CancelMark(t) ==
  /\ t \in asked /\ asked' = asked \ {t} /\ marked' = marked \cup {t}
  /\ interrupted' = interrupted \cup ({active[t]} \ {Nobody})
  /\ UNCHANGED <<task, free, caller, active, blocked, closed, errors, stopped>>

\* The session asks for a permission: it gets none, and the turn is told to stop.
HandleServerRequest(c) ==
  LET t == caller[c].task IN
  /\ caller[c].at \in {"turn", "run"} /\ blocked' = blocked \cup {t}
  /\ interrupted' = interrupted \cup ({active[t]} \ {Nobody})
  /\ UNCHANGED <<task, free, caller, active, asked, marked, closed, errors, stopped>>

Close ==
  LET Running == {t \in Tasks : active[t] # Nobody} IN
  /\ ~closed /\ closed' = TRUE
  /\ marked' = marked \cup Running /\ interrupted' = interrupted \cup {active[t] : t \in Running}
  /\ UNCHANGED <<task, free, caller, active, asked, blocked, errors, stopped>>

\* The first look into a tenant's store after a restart gives up what was under way.
ForgottenRows == task                                                      \* mutant
InterruptedRows == [t \in Tasks |-> IF task[t] \in Active THEN "interrupted" ELSE task[t]]

Restart ==
  /\ stopped < MaxStops /\ stopped' = stopped + 1 /\ errors' = 0
  /\ task' = InterruptedRows /\ free' = MaxSlots
  /\ caller' = [c \in Callers |-> Waiting] /\ active' = [t \in Tasks |-> Nobody]
  /\ asked' = {} /\ marked' = {} /\ blocked' = {} /\ interrupted' = {} /\ closed' = FALSE

TurnStep(c) ==
  \/ StartSession(c) \/ WriteRow(c) \/ Raise(c) \/ Register(c) \/ MarkRunning(c) \/ MarkRunningRaises(c)
  \/ TakeHandle(c) \/ TurnRaises(c) \/ TurnEnds(c) \/ Cleanup(c) \/ Finish(c)

Next ==
  \/ \E c \in Callers : \/ (\E t \in Tasks : ReadForContinue(c, t)) \/ Acquire(c)
                        \/ TurnStep(c) \/ HandleServerRequest(c)
  \/ \E t \in Tasks : CancelRead(t) \/ CancelMark(t)
  \/ Close \/ Restart

\* Sessions answer: a turn comes back in the end, by itself or because it is told to.
Fairness == \A c \in Callers : WF_codexVars(TurnStep(c))

Spec == Init /\ [][Next]_codexVars
FairSpec == Spec /\ Fairness

-----------------------------------------------------------------------------
CodexTypeOK ==
  /\ task \in [Tasks -> Active \cup Terminal \cup {"none"}] /\ free \in 0 .. MaxSlots
  /\ caller \in [Callers -> [at : Holding \cup {"idle", "read", "lost"}, task : Tasks \cup {New}, end : Terminal]]
  /\ active \in [Tasks -> Callers \cup {Nobody}]
  /\ asked \subseteq Tasks /\ marked \subseteq Tasks /\ blocked \subseteq Tasks /\ interrupted \subseteq Callers
  /\ closed \in BOOLEAN /\ errors \in 0 .. MaxErrors /\ stopped \in 0 .. MaxStops

\* No slot is lost but with a thread that could not write that it runs.
SlotsAddUp == free + Cardinality({c \in Callers : caller[c].at \in Holding \cup {"lost"}}) = MaxSlots

\* A task that is listed as active has a turn under way, or the plugin was closed
\* under it, or the database refused this process a write (create_task(), _execute_turn(), the store).
ActiveIsWorkedOn ==
  \A t \in Tasks : task[t] \in Active =>
    closed \/ errors > 0 \/ \E c \in Callers : caller[c].task = t /\ caller[c].at \in Holding \ {"start", "row"}

\* The turn whose handle a task has on record is told of the task's mark: whichever
\* comes first, the handle or the cancellation, finds the other (_execute_turn(),
\* cancel_task()).
MarkedIsTold ==
  \A t \in Tasks : t \in marked /\ active[t] # Nobody => active[t] \in interrupted

\* With one slot no turn runs on untold; with more, two turns of a task share one place
\* for their handles, and the end of the first takes the handle of the other away.
EveryTurnIsTold ==
  \A c \in Callers : caller[c].at = "run" /\ caller[c].task \in marked => c \in interrupted

TasksAreAccountedFor == SlotsAddUp /\ ActiveIsWorkedOn /\ MarkedIsTold

\* A task that is active ends, on record.
TaskEnds == \A t \in Tasks : task[t] \in Active ~> task[t] \in Terminal \/ closed \/ errors > 0

\* "The task is still running, wait for its end or cancel it first": one turn of a task at a time.
OneTurnPerTask ==
  \A c, d \in Callers : caller[c].at = "run" /\ caller[d].at = "run" /\ caller[c].task = caller[d].task => c = d

\* A cancellation that was accepted is not forgotten before the turn has ended (it is
\* when the task is queued again and the mark is set before the turn is registered).
CancelIsHeard ==
  [][\A t \in Tasks : t \in marked /\ t \notin marked'
       => stopped' > stopped \/ task[t] \in Terminal \/ \E c \in Callers : caller[c].task = t /\ caller[c].at = "cleanup"]_codexVars
=============================================================================
