------------------------- MODULE AgentCoordination -------------------------
(***************************************************************************)
(* A multi-agent run: a parent run whose steps (_coordinate() in           *)
(* services/agent_runs.py) plan tasks, submit a child run for each task    *)
(* whose prerequisites succeeded, wait for the children, plan once more    *)
(* when one fails, and sum up.  Parent and children are rows of one table  *)
(* with no pointer between their workers: they meet in the rows, in the    *)
(* recursive cancellation and in wake_parent(), which requests on a child  *)
(* and the check-in of a child that ended call AFTER their own transaction.*)
(*                                                                         *)
(* The parent is claimed, renewed and checked in as in AgentRuns.  Of a    *)
(* child there is only what RunLifecycle shows of it.  The parent works on *)
(* a copy of its state; each read of a child is a step of its own.         *)
(***************************************************************************)
EXTENDS TaskPlans, Naturals, FiniteSets

CONSTANTS
  Tasks,            \* the task names the planning model may use
  Children,         \* child run ids, a bound on how many are submitted
  Workers,          \* worker threads
  StallingWorkers,  \* workers whose heartbeat may come late although they live
  MaxAnswers,       \* bound: times a user's answer sets a waiting child going again
  MaxCrashes        \* bound: process crashes

None == "none"
Parent == "parent"

ASSUME ConstantsAssumption ==
  /\ MaxAnswers \in Nat /\ MaxCrashes \in Nat
  /\ StallingWorkers \subseteq Workers
  /\ \A x \in Workers \cup Children : x \notin {"none", "dead", "parent"}

VARIABLES
  parent,     \* the parent's row: status, state_json, cancel_requested, lease
  child,      \* the children's rows; label is the task_id in their state
  pc,         \* where each worker stands in a step of the parent
  loc,        \* its copy of the parent's state
  seen,       \* what it has read of the tasks' children in this step
  todo,       \* the siblings it has yet to cancel, or the task it submits
  out,        \* the status it will check in
  waking,     \* children whose change is committed and wake_parent() still to come
  resuming,   \* a resume request that read the parent and found no awaited child
  answers, crashes

vars == <<parent, child, pc, loc, seen, todo, out, waking, resuming, answers, crashes>>
worker == <<pc, loc, seen, todo, out>>

TERMINAL == {"succeeded", "failed", "cancelled"}
WAITING == {"waiting_approval", "waiting_input", "paused"}
Statuses == TERMINAL \cup WAITING \cup {"absent", "queued", "running"}

\* What _validate_tasks() lets through (TaskGraph).
Plans == {p \in Candidates(Tasks) : Orderable(p)}
NoPlan == [t \in {} |-> {}]
NoChildren == [t \in Tasks |-> None]
Unseen == [t \in Tasks |-> "unseen"]

\* A child's task_id, prefixed "replan:" for the tasks of the second plan.
Labels == BOOLEAN \X Tasks
Label(s, t) == <<s.replanned, t>>

States == [phase : {"plan", "replan", "children", "model", "verify", "finalize"},
           replanned : BOOLEAN, plan : Plans \cup {NoPlan},
           of : [Tasks -> Children \cup {None}], waitingOn : Children \cup {None}]
NewState == [phase |-> "plan", replanned |-> FALSE, plan |-> NoPlan, of |-> NoChildren,
             waitingOn |-> None]
NoChild == [status |-> "absent", cancel |-> FALSE, label |-> <<FALSE, None>>]

TaskNames(s) == DOMAIN s.plan
Exists(c) == child[c].status # "absent"
Owned(c) == child[c].status = "running"       \* a child has an owner while it runs

\* The parent has been submitted.
Init ==
  /\ parent = [status |-> "queued", st |-> NewState, cancel |-> FALSE, owner |-> None, lease |-> "none"]
  /\ child = [c \in Children |-> NoChild]
  /\ pc = [w \in Workers |-> "idle"]
  /\ loc = [w \in Workers |-> NewState]
  /\ seen = [w \in Workers |-> Unseen]
  /\ todo = [w \in Workers |-> {}]
  /\ out = [w \in Workers |-> None]
  /\ waking = {} /\ resuming = FALSE /\ answers = 0 /\ crashes = 0

-----------------------------------------------------------------------------
(* Requests on the parent, and wake_parent(). *)

\* cancel(): the rows of the whole tree in one transaction.
Stopping(row, owned) ==
  IF row.status \in TERMINAL \cup {"absent"} THEN row
  ELSE [row EXCEPT !.cancel = TRUE, !.status = IF owned THEN @ ELSE "cancelled"]
StoppedAlone == child                                                      \* mutant
StoppedChildren == [c \in Children |-> Stopping(child[c], Owned(c))]

CancelParent ==
  /\ parent' = Stopping(parent, parent.owner # None)
  /\ child' = StoppedChildren
  /\ UNCHANGED <<worker, waking, resuming, answers, crashes>>

\* resume() of the parent acts on the child its state says it waits for
\* (ChildAnswered); only when there is none does it act on the parent.
ResumeRead ==
  /\ parent.st.waitingOn = None /\ parent.status \in {"paused", "waiting_input"}
  /\ resuming' = TRUE
  /\ UNCHANGED <<parent, child, worker, waking, answers, crashes>>
ResumeWrite ==
  /\ resuming
  /\ resuming' = FALSE
  /\ parent' = IF parent.status \in {"paused", "waiting_input"}
               THEN [parent EXCEPT !.status = "queued"] ELSE parent
  /\ UNCHANGED <<child, worker, waking, answers, crashes>>

WokenAlways == [parent EXCEPT !.status = IF parent.cancel THEN @ ELSE "queued"]  \* mutant
Woken ==
  IF parent.status \in WAITING /\ ~parent.cancel
  THEN [parent EXCEPT !.status = "queued"] ELSE parent

WakeParent(c) ==
  /\ c \in waking
  /\ waking' = waking \ {c}
  /\ parent' = Woken
  /\ UNCHANGED <<child, worker, resuming, answers, crashes>>

-----------------------------------------------------------------------------
(* The children, as RunLifecycle has them. *)

ChildClaimed(c) ==
  /\ child[c].status = "queued"
  /\ child' = [child EXCEPT ![c].status = "running"]
  /\ UNCHANGED <<parent, worker, waking, resuming, answers, crashes>>

\* Only a child that has ended wakes its parent.
ChildCheckedIn(c, status) ==
  LET now == IF child[c].cancel THEN "cancelled" ELSE status IN
  /\ child[c].status = "running"
  /\ child' = [child EXCEPT ![c].status = now]
  /\ waking' = IF now \in TERMINAL THEN waking \cup {c} ELSE waking
  /\ UNCHANGED <<parent, worker, resuming, answers, crashes>>

\* An approval, an input or a resumption; asked of the child or of the parent
\* that waits for it.  A reconciliation wakes nobody.
ChildAnswered(c) ==
  /\ answers < MaxAnswers /\ answers' = answers + 1
  /\ child[c].status \in WAITING
  /\ child' = [child EXCEPT ![c].status = "queued"]
  /\ \/ waking' = waking \cup {c}
     \/ child[c].status = "paused" /\ UNCHANGED waking
  /\ UNCHANGED <<parent, worker, resuming, crashes>>

\* expire_approvals() wakes the parent in its own transaction; for a lapsed
\* script input wake_parent() comes afterwards.
ChildGivesUp(c) ==
  /\ child[c].status \in {"waiting_approval", "waiting_input"}
  /\ child' = [child EXCEPT ![c].status = "paused"]
  /\ IF child[c].status = "waiting_approval"
     THEN parent' = Woken /\ UNCHANGED waking
     ELSE waking' = waking \cup {c} /\ UNCHANGED parent
  /\ UNCHANGED <<worker, resuming, answers, crashes>>

\* expire_approvals() does so too for a request whose child is not checked in yet.
ChildRequestLapses(c) ==
  /\ child[c].status = "running" /\ parent' = Woken
  /\ UNCHANGED <<child, worker, waking, resuming, answers, crashes>>

CancelChild(c) ==
  /\ Exists(c)
  /\ child' = [child EXCEPT ![c] = Stopping(@, Owned(c))]
  /\ waking' = waking \cup {c}
  /\ UNCHANGED <<parent, worker, resuming, answers, crashes>>

-----------------------------------------------------------------------------
(* Claiming the parent, and checking it in. *)

ClaimableQueued == parent.status = "queued"                                \* mutant
Claimable == parent.status = "queued" \/ (parent.status = "running" /\ parent.lease = "lapsed")

Claim(w) ==
  /\ pc[w] = "idle" /\ Claimable
  /\ parent' = [parent EXCEPT !.status = "running", !.owner = w, !.lease = "live"]
  /\ pc' = [pc EXCEPT ![w] = "begin"]
  /\ loc' = [loc EXCEPT ![w] = parent.st]
  /\ UNCHANGED <<seen, todo, out, child, waking, resuming, answers, crashes>>

Heartbeat(w) ==
  /\ pc[w] \notin {"idle", "commit"}
  /\ parent.owner = w /\ parent.lease = "lapsed"
  /\ parent' = [parent EXCEPT !.lease = "live"]
  /\ UNCHANGED <<child, worker, waking, resuming, answers, crashes>>

LeaseLapses ==
  /\ parent.lease = "live" /\ parent.owner \in StallingWorkers \cup {"dead"}
  /\ parent' = [parent EXCEPT !.lease = "lapsed"]
  /\ UNCHANGED <<child, worker, waking, resuming, answers, crashes>>

Checkpoint(w) ==
  /\ pc[w] = "commit"
  /\ parent' = IF parent.owner # w THEN parent
               ELSE [parent EXCEPT !.st = loc[w], !.owner = None, !.lease = "none",
                      !.status = IF parent.cancel THEN "cancelled" ELSE out[w]]
  /\ pc' = [pc EXCEPT ![w] = "idle"]
  /\ loc' = [loc EXCEPT ![w] = NewState]
  /\ out' = [out EXCEPT ![w] = None]
  /\ UNCHANGED <<seen, todo, child, waking, resuming, answers, crashes>>

\* A new process has new owner ids and knows of no wake_parent() to come.
Crash ==
  /\ crashes < MaxCrashes /\ crashes' = crashes + 1
  /\ parent' = IF parent.owner = None THEN parent ELSE [parent EXCEPT !.owner = "dead"]
  /\ pc' = [w \in Workers |-> "idle"]
  /\ loc' = [w \in Workers |-> NewState]
  /\ seen' = [w \in Workers |-> Unseen]
  /\ todo' = [w \in Workers |-> {}]
  /\ out' = [w \in Workers |-> None]
  /\ waking' = {} /\ resuming' = FALSE
  /\ UNCHANGED <<child, answers>>

-----------------------------------------------------------------------------
(* _coordinate(): one step of the parent. *)

Others == <<parent, child, waking, resuming, answers, crashes>>
Finish(w, s, status) ==
  /\ loc' = [loc EXCEPT ![w] = s]
  /\ out' = [out EXCEPT ![w] = status]
  /\ pc' = [pc EXCEPT ![w] = "commit"]
  /\ seen' = [seen EXCEPT ![w] = Unseen]
  /\ todo' = [todo EXCEPT ![w] = {}]

Replan(s) == [s EXCEPT !.phase = "replan", !.replanned = TRUE]

\* stopped(): seen once, before the step.
Stop(w) == pc[w] = "begin" /\ parent.cancel /\ Finish(w, loc[w], "cancelled") /\ UNCHANGED Others

\* The model is out of order, its plan or its summary is unusable, a grant is
\* gone, submit() refuses: an exception leaves what was done in the copy.
Blocked(w) == pc[w] \notin {"idle", "commit"} /\ Finish(w, loc[w], "paused") /\ UNCHANGED Others

Plan(w) ==
  /\ pc[w] = "begin" /\ ~parent.cancel /\ loc[w].phase \in {"plan", "replan"}
  /\ \E p \in Plans :
       Finish(w, [loc[w] EXCEPT !.phase = "children", !.plan = p, !.of = NoChildren], "queued")
  /\ UNCHANGED Others

\* The completion check of the summary: done, or one more plan.
Verify(w) ==
  /\ pc[w] = "begin" /\ ~parent.cancel /\ loc[w].phase = "verify"
  /\ \/ Finish(w, [loc[w] EXCEPT !.phase = "finalize"], "queued")
     \/ ~loc[w].replanned /\ Finish(w, Replan(loc[w]), "queued")
     \/ loc[w].replanned /\ Finish(w, [loc[w] EXCEPT !.phase = "model"], "paused")
  /\ UNCHANGED Others

Finalize(w) ==
  /\ pc[w] = "begin" /\ ~parent.cancel /\ loc[w].phase = "finalize"
  /\ Finish(w, loc[w], "succeeded") /\ UNCHANGED Others

\* Otherwise the step looks at the children of the plan, one after the other.
BeginLook(w) ==
  /\ pc[w] = "begin" /\ ~parent.cancel /\ loc[w].phase \in {"children", "model"}
  /\ pc' = [pc EXCEPT ![w] = "look"]
  /\ loc' = [loc EXCEPT ![w].waitingOn = None]
  /\ UNCHANGED <<seen, todo, out>> /\ UNCHANGED Others

Unread(w) == {t \in TaskNames(loc[w]) : loc[w].of[t] # None /\ seen[w][t] = "unseen"}

Look(w, t) ==
  LET s == loc[w]  status == child[s.of[t]].status IN
  /\ pc[w] = "look" /\ t \in Unread(w)
  /\ \/ /\ status \notin {"failed", "cancelled"}
        /\ seen' = [seen EXCEPT ![w][t] = status]
        /\ UNCHANGED <<pc, loc, todo, out>>
     \/ status \in {"failed", "cancelled"} /\ s.replanned /\ Finish(w, s, "paused")
     \/ /\ status \in {"failed", "cancelled"} /\ ~s.replanned
        /\ todo' = [todo EXCEPT ![w] = {c \in Children : Exists(c) /\ child[c].status \notin TERMINAL}]
        /\ pc' = [pc EXCEPT ![w] = "siblings"]
        /\ UNCHANGED <<seen, loc, out>>
  /\ UNCHANGED Others

\* One failed: stop the siblings it saw unfinished, each in a transaction of
\* its own, and plan anew.
CancelSibling(w, c) ==
  /\ pc[w] = "siblings" /\ c \in todo[w]
  /\ todo' = [todo EXCEPT ![w] = @ \ {c}]
  /\ child' = [child EXCEPT ![c] = Stopping(@, Owned(c))]
  /\ UNCHANGED <<pc, loc, seen, out, parent, waking, resuming, answers, crashes>>
SiblingsToStop(w) == todo[w]
GiveUpPlan(w) ==
  /\ pc[w] = "siblings" /\ SiblingsToStop(w) = {}
  /\ Finish(w, Replan(loc[w]), "queued") /\ UNCHANGED Others

LookedAtAll(w) ==
  /\ pc[w] = "look" /\ Unread(w) = {}
  /\ pc' = [pc EXCEPT ![w] = "spawn"]
  /\ UNCHANGED <<loc, seen, todo, out>> /\ UNCHANGED Others

Completed(w) == {t \in TaskNames(loc[w]) : seen[w][t] = "succeeded"}
DueAtOnce(w) == {t \in TaskNames(loc[w]) : loc[w].of[t] = None}             \* mutant
Due(w) ==
  {t \in TaskNames(loc[w]) : loc[w].of[t] = None /\ loc[w].plan[t] \subseteq Completed(w)}

\* children(): one that was submitted for this task before a crash is taken.
SubmittedNever(s, t) == {}                                                 \* mutant
Submitted(s, t) == {c \in Children : Exists(c) /\ child[c].label = Label(s, t)}
FindChild(w, t) ==
  LET found == Submitted(loc[w], t) IN
  /\ pc[w] = "spawn" /\ t \in Due(w)
  /\ IF found # {}
     THEN /\ \E c \in found : loc' = [loc EXCEPT ![w].of[t] = c]
          /\ UNCHANGED <<pc, todo>>
     ELSE /\ pc' = [pc EXCEPT ![w] = "submit"] /\ todo' = [todo EXCEPT ![w] = {t}]
          /\ UNCHANGED loc
  /\ UNCHANGED <<seen, out>> /\ UNCHANGED Others

\* create(): not under a parent that ended or is to stop.
MayHaveChildAnyway == parent.status \notin TERMINAL                        \* mutant
MayHaveChild == ~parent.cancel /\ parent.status \notin TERMINAL
SubmitChild(w, c) ==
  /\ pc[w] = "submit" /\ child[c] = NoChild /\ MayHaveChild
  /\ \E t \in todo[w] :
       /\ child' = [child EXCEPT ![c].status = "queued", ![c].label = Label(loc[w], t)]
       /\ loc' = [loc EXCEPT ![w].of[t] = c]
  /\ pc' = [pc EXCEPT ![w] = "spawn"]
  /\ todo' = [todo EXCEPT ![w] = {}]
  /\ UNCHANGED <<seen, out, parent, waking, resuming, answers, crashes>>

\* All due tasks have their child: wait for one that waits, look again later,
\* or sum up.
Summarisable(w) == Completed(w) # {}                                       \* mutant
AllCompleted(w) == Completed(w) = TaskNames(loc[w])
AwaitedTask(s, t) == t                                                     \* mutant
Awaited(s, t) == s.of[t]
EndLook(w) ==
  LET waits == {t \in TaskNames(loc[w]) : seen[w][t] \in WAITING} IN
  /\ pc[w] = "spawn" /\ Due(w) = {}
  /\ \/ \E t \in waits : Finish(w, [loc[w] EXCEPT !.waitingOn = Awaited(loc[w], t)], seen[w][t])
     \/ waits = {} /\ ~AllCompleted(w) /\ Finish(w, loc[w], "queued")
     \/ waits = {} /\ AllCompleted(w) /\ Finish(w, [loc[w] EXCEPT !.phase = "verify"], "queued")
  /\ UNCHANGED Others

WorkerStep(w) ==
  \/ Stop(w) \/ Plan(w) \/ Verify(w) \/ Finalize(w) \/ BeginLook(w) \/ LookedAtAll(w)
  \/ (\E t \in Tasks : Look(w, t) \/ FindChild(w, t)) \/ GiveUpPlan(w)
  \/ (\E c \in Children : CancelSibling(w, c) \/ SubmitChild(w, c))
  \/ EndLook(w) \/ Blocked(w) \/ Checkpoint(w)

ChildStep(c) ==
  \/ ChildClaimed(c) \/ ChildAnswered(c) \/ ChildGivesUp(c) \/ ChildRequestLapses(c)
  \/ CancelChild(c)
  \/ \E status \in {"queued"} \cup WAITING \cup TERMINAL : ChildCheckedIn(c, status)

Next ==
  \/ CancelParent \/ ResumeRead \/ ResumeWrite
  \/ (\E c \in Children : ChildStep(c) \/ WakeParent(c))
  \/ (\E w \in Workers : WorkerStep(w) \/ Claim(w) \/ Heartbeat(w))
  \/ LeaseLapses \/ Crash

\* Threads run and a dead owner's lease runs out; a run that is due is claimed
\* in its turn; and a child that runs again and again settles, as AgentRuns has it.
Fairness ==
  /\ \A w \in Workers : WF_vars(WorkerStep(w))
  /\ WF_vars(\E w \in Workers : Claim(w))
  /\ WF_vars(parent.owner = "dead" /\ LeaseLapses)
  /\ \A c \in Children :
       /\ WF_vars(WakeParent(c)) /\ WF_vars(ChildClaimed(c))
       /\ SF_vars(\E status \in WAITING \cup TERMINAL : ChildCheckedIn(c, status))

Spec == Init /\ [][Next]_vars
FairSpec == Spec /\ Fairness

-----------------------------------------------------------------------------
(* What the coordination promises. *)

\* The rows and the workers' copies have their types.
TypeOK ==
  /\ parent \in [status : Statuses, st : States, cancel : BOOLEAN,
                 owner : Workers \cup {None, "dead"}, lease : {"none", "live", "lapsed"}]
  /\ child \in [Children -> [status : Statuses, cancel : BOOLEAN,
                             label : Labels \cup {<<FALSE, None>>}]]
  /\ pc \in [Workers -> {"idle", "begin", "look", "siblings", "spawn", "submit", "commit"}]
  /\ loc \in [Workers -> States]
  /\ seen \in [Workers -> [Tasks -> Statuses \cup {"unseen"}]]
  /\ todo \in [Workers -> SUBSET (Tasks \cup Children)]
  /\ out \in [Workers -> Statuses \cup {None}]
  /\ waking \in SUBSET Children /\ resuming \in BOOLEAN
  /\ answers \in 0 .. MaxAnswers /\ crashes \in 0 .. MaxCrashes

AtRest(c) == child[c].status \in TERMINAL \cup {"absent"}

\* Stopping a run stops its whole tree: no child escapes by being submitted
\* while the tree is being cancelled (cancel(), create()).
NoOrphans == parent.cancel => \A c \in Children : child[c].cancel \/ AtRest(c)

\* A parent that succeeded leaves no child at work behind that nobody asked to
\* stop, whichever plan the child belongs to (_coordinate()).
NoChildOutlivesParent ==
  parent.status = "succeeded" => \A c \in Children : child[c].cancel \/ AtRest(c)

\* A task is carried out by one child, also when the step that submitted it was
\* lost in a crash (children(), task_id).
OneChildPerTask ==
  \A c, d \in Children : Exists(c) /\ Exists(d) /\ child[c].label = child[d].label => c = d

\* A task starts after all its prerequisites succeeded.
DependenciesFirst ==
  \A t \in TaskNames(parent.st) : parent.st.of[t] # None =>
    \A d \in parent.st.plan[t] :
      parent.st.of[d] # None /\ child[parent.st.of[d]].status = "succeeded"

\* No summary rests on part of the plan: "不会将部分结果记为任务成功".
SummaryIsComplete ==
  parent.st.phase \in {"verify", "finalize"} =>
    \A t \in TaskNames(parent.st) :
      parent.st.of[t] # None /\ child[parent.st.of[t]].status = "succeeded"

\* Parent and children keep to the lifecycle of a run, whatever one does to
\* the other's row (wake_parent(), the recursive cancel()).
Row(r) == IF r = Parent THEN parent ELSE child[r]
Family == Children \cup {Parent}
Lifecycle == INSTANCE RunLifecycle WITH Runs <- Family,
  status <- [r \in Family |-> Row(r).status],
  cancel <- [r \in Family |-> Row(r).cancel]
KeepsLifecycle == [][Lifecycle!Next]_vars

\* A parent that waits for a child waits for one that is still to come to an
\* end: whoever resumes the parent is sent to that child.
AwaitedChildIsUnfinished ==
  parent.status \in WAITING /\ parent.st.waitingOn # None =>
    child[parent.st.waitingOn].status \notin TERMINAL \/ parent.st.waitingOn \in waking

\* A parent does not poll for ever: it finishes, or stops to wait for somebody
\* (wake_parent()).  With a stopped parent the whole tree comes to rest (cancel()).
TreeSettles ==
  parent.status \in {"queued", "running"} \/ parent.cancel
    ~> IF parent.cancel THEN parent.status \in TERMINAL /\ \A c \in Children : AtRest(c)
       ELSE parent.status \in TERMINAL \cup WAITING
=============================================================================
