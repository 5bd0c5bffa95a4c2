---------------------- MODULE AgentCoordination_proofs ----------------------
(***************************************************************************)
(* Theorems about AgentCoordination, for every set of tasks, children and  *)
(* workers, with late heartbeats and any number of crashes and answers.    *)
(***************************************************************************)
EXTENDS AgentCoordination, TLAPS

Ended == TERMINAL \cup {"absent"}
ChildRows == [status : Statuses, cancel : BOOLEAN, label : Labels \cup {<<FALSE, None>>}]
ChildTyped == child \in [Children -> ChildRows]

\* How a child's row may change: what has ended is left alone, and who was
\* asked to stop stays asked.  A row that is not there yet may be created.
Kept(c) == \/ child'[c] = child[c]
           \/ child[c].status \notin Ended /\ (child[c].cancel => child'[c].cancel)
ChildrenKept == \A c \in Children : Kept(c) \/ child[c].status = "absent"

LEMMA StoppingTyped ==
  ASSUME NEW row \in ChildRows, NEW owned \in BOOLEAN
  PROVE  /\ Stopping(row, owned) \in ChildRows
         /\ row.status \in Ended => Stopping(row, owned) = row
         /\ row.status \notin Ended => Stopping(row, owned).cancel
         /\ row.cancel => Stopping(row, owned).cancel
  BY DEF Stopping, ChildRows, Statuses, TERMINAL, Ended

\* A child's row is written by one of these.
ChildMove(c) ==
  \/ ChildClaimed(c) \/ ChildAnswered(c) \/ ChildGivesUp(c) \/ CancelChild(c)
  \/ (\E status \in {"queued"} \cup WAITING \cup TERMINAL : ChildCheckedIn(c, status))
  \/ \E w \in Workers : CancelSibling(w, c)

LEMMA ChildMoveKeeps ==
  ASSUME ChildTyped, NEW c \in Children, ChildMove(c)
  PROVE  ChildTyped' /\ \A d \in Children : Kept(d)
  <1> USE DEF ChildTyped, Kept
  <1>1. child[c] \in ChildRows
    OBVIOUS
  <1>2. ASSUME NEW status \in Statuses, child[c].status \notin Ended,
               child' = [child EXCEPT ![c].status = status]
        PROVE  ChildTyped' /\ \A d \in Children : Kept(d)
    BY <1>1, <1>2 DEF ChildRows
  <1>3. ASSUME child' = [child EXCEPT ![c] = Stopping(@, Owned(c))]
        PROVE  ChildTyped' /\ \A d \in Children : Kept(d)
    <2>1. Owned(c) \in BOOLEAN
      BY DEF Owned
    <2>2. /\ child'[c] = Stopping(child[c], Owned(c)) /\ child'[c] \in ChildRows
          /\ \A d \in Children \ {c} : child'[d] = child[d]
      BY <1>1, <1>3, <2>1, StoppingTyped
    <2>3. ChildTyped'
      BY <1>3, <2>2
    <2> QED
      BY <1>1, <2>1, <2>2, <2>3, StoppingTyped
  <1>4. CASE ChildClaimed(c) \/ ChildAnswered(c) \/ ChildGivesUp(c)
    BY <1>2, <1>4 DEF ChildClaimed, ChildAnswered, ChildGivesUp, Statuses, WAITING, Ended, TERMINAL
  <1>5. ASSUME NEW status \in {"queued"} \cup WAITING \cup TERMINAL, ChildCheckedIn(c, status)
        PROVE  ChildTyped' /\ \A d \in Children : Kept(d)
    BY <1>2, <1>5 DEF ChildCheckedIn, Statuses, WAITING, Ended, TERMINAL
  <1> QED
    BY <1>3, <1>4, <1>5 DEF ChildMove, CancelChild, CancelSibling

\* The other steps that write children, or none of them.
LEMMA Cases ==
  ASSUME [Next]_vars
  PROVE  \/ child' = child
         \/ CancelParent
         \/ \E c \in Children : ChildMove(c) \/ \E w \in Workers : SubmitChild(w, c)
  BY DEF Next, ChildStep, WorkerStep, ChildMove, ResumeRead, ResumeWrite, WakeParent, ChildRequestLapses,
         Claim, Heartbeat, LeaseLapses, Crash, Stop, Blocked, Plan, Verify, Finalize, BeginLook, Look,
         GiveUpPlan, LookedAtAll, FindChild, EndLook, Checkpoint, Others, vars

-----------------------------------------------------------------------------
(* Type correctness.  TypeOK is not inductive: what a worker checks in must *)
(* be a status by then, and what it is about to submit, a task.             *)

ParentRows == [status : Statuses, st : States, cancel : BOOLEAN,
               owner : Workers \cup {None, "dead"}, lease : {"none", "live", "lapsed"}]
Places == {"idle", "begin", "look", "siblings", "spawn", "submit", "commit"}

WorkerTyped ==
  /\ pc \in [Workers -> Places] /\ loc \in [Workers -> States]
  /\ seen \in [Workers -> [Tasks -> Statuses \cup {"unseen"}]]
  /\ todo \in [Workers -> SUBSET (Tasks \cup Children)]
  /\ out \in [Workers -> Statuses \cup {None}]
  /\ \A w \in Workers : pc[w] = "commit" => out[w] \in Statuses
  /\ \A w \in Workers : pc[w] = "submit" => todo[w] \subseteq Tasks
RestTyped ==
  /\ waking \subseteq Children /\ resuming \in BOOLEAN
  /\ answers \in 0 .. MaxAnswers /\ crashes \in 0 .. MaxCrashes
Typed == parent \in ParentRows /\ ChildTyped /\ WorkerTyped /\ RestTyped

\* The tasks of a plan are tasks.
LEMMA PlanFacts ==
  ASSUME NEW s \in States
  PROVE  TaskNames(s) \subseteq Tasks
  <1>1. s.plan \in Plans \cup {NoPlan}
    BY DEF States
  <1>2. CASE s.plan = NoPlan
    BY <1>2 DEF NoPlan, TaskNames
  <1>3. CASE s.plan \in Plans
    BY <1>3 DEF Plans, Candidates, TaskNames
  <1> QED
    BY <1>1, <1>2, <1>3

LEMMA FinishTyped ==
  ASSUME WorkerTyped, NEW w \in Workers, NEW s \in States, NEW status \in Statuses, Finish(w, s, status)
  PROVE  WorkerTyped'
  BY DEF WorkerTyped, Finish, Places, Unseen

LEMMA InitTyped == Init => Typed
  <1> SUFFICES ASSUME Init PROVE Typed
    OBVIOUS
  <1>1. NewState \in States
    BY DEF NewState, States, NoChildren
  <1>2. parent \in ParentRows
    BY <1>1 DEF Init, ParentRows, Statuses
  <1>3. ChildTyped
    BY DEF Init, ChildTyped, ChildRows, NoChild, Statuses, TERMINAL
  <1>4. WorkerTyped
    BY <1>1 DEF Init, WorkerTyped, Places, Unseen
  <1>5. RestTyped
    <2>1. waking = {} /\ resuming = FALSE /\ answers = 0 /\ crashes = 0
      BY DEF Init
    <2>2. MaxAnswers \in Nat /\ MaxCrashes \in Nat
      BY ConstantsAssumption
    <2>3. answers \in 0 .. MaxAnswers /\ crashes \in 0 .. MaxCrashes
      BY <2>1, <2>2
    <2>4. waking \subseteq Children
      BY <2>1
    <2> QED
      BY <2>1, <2>3, <2>4 DEF RestTyped
  <1> QED
    BY <1>2, <1>3, <1>4, <1>5 DEF Typed

LEMMA WokenTyped ==
  ASSUME parent \in ParentRows
  PROVE  Woken \in ParentRows /\ Woken.cancel = parent.cancel /\ Woken.st = parent.st
         /\ Woken.owner = parent.owner /\ (Woken = parent \/ Woken.status = "queued")
  BY DEF ParentRows, Woken, Statuses

\* The parent's row, and how a step may change the two things of it that other
\* steps rely on: its state changes by a check-in, its cancellation by cancel().
ParentKept ==
  /\ parent'.cancel = parent.cancel \/ CancelParent
  /\ parent'.st = parent.st \/ \E w \in Workers : Checkpoint(w) /\ parent'.st = loc[w]

LEMMA ParentTyped ==
  ASSUME Typed, [Next]_vars
  PROVE  parent' \in ParentRows /\ ParentKept
  <1> USE DEF Typed, ParentKept
  <1>1. ASSUME NEW row \in ParentRows, parent' = row, row.cancel = parent.cancel, row.st = parent.st
        PROVE  parent' \in ParentRows /\ ParentKept
    BY <1>1
  <1>2. CASE parent' = parent
    BY <1>1, <1>2
  <1>3. CASE CancelParent
    <2>1. parent' \in ParentRows /\ parent'.st = parent.st
      BY <1>3 DEF CancelParent, Stopping, ParentRows, Statuses, TERMINAL
    <2> QED
      BY <1>3, <2>1
  <1>4. CASE ResumeWrite
    <2>1. parent.st \in States /\ [parent EXCEPT !.status = "queued"] \in ParentRows
      BY DEF ParentRows, Statuses
    <2> QED
      BY <1>1, <1>2, <1>4, <2>1 DEF ResumeWrite, ParentRows
  <1>5. CASE parent' = Woken
    BY <1>1, <1>5, WokenTyped
  <1>6. ASSUME NEW w \in Workers, Claim(w) PROVE parent' \in ParentRows /\ ParentKept
    BY <1>6 DEF Claim, ParentRows, Statuses
  <1>7. CASE LeaseLapses \/ \E w \in Workers : Heartbeat(w)
    BY <1>7 DEF LeaseLapses, Heartbeat, ParentRows
  <1>8. CASE Crash
    BY <1>8 DEF Crash, ParentRows
  <1>9. ASSUME NEW w \in Workers, Checkpoint(w) PROVE parent' \in ParentRows /\ ParentKept
    <2>1. loc[w] \in States /\ out[w] \in Statuses
      BY <1>9 DEF Checkpoint, WorkerTyped
    <2> QED
      BY <1>9, <2>1 DEF Checkpoint, ParentRows, Statuses, TERMINAL
  <1>10. ASSUME NEW w \in Workers, WorkerStep(w), ~Checkpoint(w) PROVE parent' = parent
    BY <1>10 DEF WorkerStep, Stop, Blocked, Plan, Verify, Finalize, BeginLook, Look, CancelSibling,
       GiveUpPlan, LookedAtAll, FindChild, SubmitChild, EndLook, Others
  <1>11. ASSUME NEW c \in Children, ChildStep(c) PROVE parent' = parent \/ parent' = Woken
    BY <1>11 DEF ChildStep, ChildClaimed, ChildAnswered, ChildGivesUp, ChildRequestLapses, CancelChild,
       ChildCheckedIn
  <1> QED
    BY <1>2, <1>3, <1>4, <1>5, <1>6, <1>7, <1>8, <1>9, <1>10, <1>11
    DEF Next, ResumeRead, WakeParent, vars

LEMMA SubmitTyped ==
  ASSUME Typed, NEW w \in Workers, NEW c \in Children, SubmitChild(w, c)
  PROVE  ChildTyped' /\ ChildrenKept
  <1>1. PICK t \in todo[w] : child' = [child EXCEPT ![c].status = "queued", ![c].label = Label(loc[w], t)]
    BY DEF SubmitChild
  <1>2. Label(loc[w], t) \in Labels /\ child[c].status = "absent"
    BY DEF Typed, WorkerTyped, SubmitChild, Label, Labels, States, NoChild
  <1> QED
    BY <1>1, <1>2 DEF Typed, ChildTyped, ChildRows, ChildrenKept, Kept, Statuses

LEMMA ChildrenTyped ==
  ASSUME Typed, [Next]_vars
  PROVE  ChildTyped' /\ ChildrenKept
  <1>1. CASE child' = child
    BY <1>1 DEF Typed, ChildTyped, ChildrenKept, Kept
  <1>2. CASE CancelParent
    <2>1. \A c \in Children : Owned(c) \in BOOLEAN /\ child[c] \in ChildRows
      BY DEF Owned, Typed, ChildTyped
    <2>2. \A c \in Children : child'[c] = Stopping(child[c], Owned(c))
      BY <1>2 DEF CancelParent, StoppedChildren
    <2>3. ChildTyped'
      BY <1>2, <2>1, StoppingTyped DEF CancelParent, StoppedChildren, ChildTyped
    <2> QED
      BY <2>1, <2>2, <2>3, StoppingTyped DEF ChildrenKept, Kept
  <1> QED
    BY <1>1, <1>2, Cases, ChildMoveKeeps, SubmitTyped DEF Typed, ChildrenKept

LEMMA WorkersTyped ==
  ASSUME Typed, [Next]_vars
  PROVE  WorkerTyped'
  <1> USE DEF Typed
  <1>1. CASE UNCHANGED worker
    BY <1>1 DEF worker, WorkerTyped
  <1>2. CASE Crash
    <2>1. NewState \in States
      BY DEF NewState, States, NoChildren
    <2> QED
      BY <1>2, <2>1 DEF Crash, WorkerTyped, Places, Unseen
  <1>3. ASSUME NEW w \in Workers, Claim(w) PROVE WorkerTyped'
    BY <1>3 DEF Claim, WorkerTyped, Places, ParentRows
  <1>4. ASSUME NEW w \in Workers, WorkerStep(w) PROVE WorkerTyped'
    <2>1. loc[w] \in States /\ TaskNames(loc[w]) \subseteq Tasks
      BY PlanFacts DEF WorkerTyped
    <2>2. CASE \E s \in States, status \in Statuses : Finish(w, s, status)
      BY <2>2, FinishTyped
    <2>3. CASE Stop(w) \/ Blocked(w) \/ Finalize(w)
      BY <2>1, <2>2, <2>3 DEF Stop, Blocked, Finalize, Statuses, TERMINAL, WAITING
    <2>4. CASE Plan(w)
      <3>1. PICK p \in Plans :
              Finish(w, [loc[w] EXCEPT !.phase = "children", !.plan = p, !.of = NoChildren], "queued")
        BY <2>4 DEF Plan
      <3>2. [loc[w] EXCEPT !.phase = "children", !.plan = p, !.of = NoChildren] \in States
        BY <2>1 DEF States, NoChildren
      <3> QED
        BY <2>2, <3>1, <3>2 DEF Statuses
    <2>5. CASE Verify(w) \/ GiveUpPlan(w)
      <3>1. \A phase \in {"finalize", "model"} : [loc[w] EXCEPT !.phase = phase] \in States
        BY <2>1 DEF States
      <3>2. Replan(loc[w]) \in States
        BY <2>1 DEF States, Replan
      <3> QED
        BY <2>2, <2>5, <3>1, <3>2 DEF Verify, GiveUpPlan, Statuses, WAITING
    <2>6. CASE BeginLook(w) \/ LookedAtAll(w)
      <3>1. [loc[w] EXCEPT !.waitingOn = None] \in States
        BY <2>1 DEF States
      <3> QED
        BY <2>6, <3>1 DEF BeginLook, LookedAtAll, WorkerTyped, Places
    <2>7. ASSUME NEW t \in Tasks, Look(w, t) PROVE WorkerTyped'
      <3>1. loc[w].of[t] \in Children
        BY <2>1, <2>7 DEF Look, Unread, States
      <3>2. child[loc[w].of[t]].status \in Statuses
        BY <3>1 DEF ChildTyped, ChildRows
      <3>3. CASE Finish(w, loc[w], "paused")
        BY <2>1, <2>2, <3>3 DEF Statuses, WAITING
      <3>4. CASE /\ seen' = [seen EXCEPT ![w][t] = child[loc[w].of[t]].status]
                 /\ UNCHANGED <<pc, loc, todo, out>>
        BY <3>2, <3>4 DEF WorkerTyped
      <3>5. CASE /\ pc' = [pc EXCEPT ![w] = "siblings"] /\ UNCHANGED <<seen, loc, out>>
                 /\ \E S \in SUBSET Children : todo' = [todo EXCEPT ![w] = S]
        BY <3>5 DEF WorkerTyped, Places
      <3> QED
        BY <2>7, <3>3, <3>4, <3>5 DEF Look
    <2>8. ASSUME NEW t \in Tasks, FindChild(w, t) PROVE WorkerTyped'
      <3>1. ASSUME NEW c \in Children PROVE [loc[w] EXCEPT !.of[t] = c] \in States
        BY <2>1 DEF States
      <3>2. CASE /\ pc' = [pc EXCEPT ![w] = "submit"] /\ todo' = [todo EXCEPT ![w] = {t}]
                 /\ UNCHANGED <<loc, seen, out>>
        BY <3>2 DEF WorkerTyped, Places
      <3>3. ASSUME NEW c \in Children, loc' = [loc EXCEPT ![w].of[t] = c], UNCHANGED <<pc, todo, seen, out>>
            PROVE  WorkerTyped'
        BY <3>1, <3>3 DEF WorkerTyped
      <3> QED
        BY <2>8, <3>2, <3>3 DEF FindChild, Submitted
    <2>9. ASSUME NEW c \in Children, SubmitChild(w, c) PROVE WorkerTyped'
      <3>1. PICK t \in todo[w] : loc' = [loc EXCEPT ![w].of[t] = c]
        BY <2>9 DEF SubmitChild
      <3>2. t \in Tasks
        BY <2>9 DEF SubmitChild, WorkerTyped
      <3>3. [loc[w] EXCEPT !.of[t] = c] \in States
        BY <2>1, <3>2 DEF States
      <3> QED
        BY <2>9, <3>1, <3>3 DEF SubmitChild, WorkerTyped, Places
    <2>10. ASSUME NEW c \in Children, CancelSibling(w, c) PROVE WorkerTyped'
      BY <2>10 DEF CancelSibling, WorkerTyped
    <2>11. CASE EndLook(w)
      <3>1. ASSUME NEW t \in TaskNames(loc[w])
            PROVE  [loc[w] EXCEPT !.waitingOn = Awaited(loc[w], t)] \in States
        BY <2>1 DEF States, Awaited
      <3>2. [loc[w] EXCEPT !.phase = "verify"] \in States
        BY <2>1 DEF States
      <3> QED
        BY <2>1, <2>2, <2>11, <3>1, <3>2 DEF EndLook, Statuses
    <2>12. CASE Checkpoint(w)
      <3>1. NewState \in States
        BY DEF NewState, States, NoChildren
      <3> QED
        BY <2>12, <3>1 DEF Checkpoint, WorkerTyped, Places
    <2> QED
      BY <1>4, <2>3, <2>4, <2>5, <2>6, <2>7, <2>8, <2>9, <2>10, <2>11, <2>12 DEF WorkerStep
  <1>5. ASSUME NEW c \in Children, ChildStep(c) \/ WakeParent(c) PROVE UNCHANGED worker
    BY <1>5 DEF ChildStep, ChildClaimed, ChildAnswered, ChildGivesUp, ChildRequestLapses, CancelChild,
       ChildCheckedIn, WakeParent
  <1> QED
    BY <1>1, <1>2, <1>3, <1>4, <1>5
    DEF Next, CancelParent, ResumeRead, ResumeWrite, Heartbeat, LeaseLapses, vars, worker

LEMMA TypedNext ==
  ASSUME Typed, [Next]_vars
  PROVE  Typed'
  <1>1. RestTyped'
    <2>1. MaxAnswers \in Nat /\ MaxCrashes \in Nat
      BY ConstantsAssumption
    <2>2. ASSUME NEW w \in Workers, WorkerStep(w) \/ Claim(w) \/ Heartbeat(w)
          PROVE  UNCHANGED <<waking, resuming, answers, crashes>>
      BY <2>2 DEF WorkerStep, Claim, Heartbeat, Stop, Blocked, Plan, Verify, Finalize, BeginLook, Look,
         CancelSibling, GiveUpPlan, LookedAtAll, FindChild, SubmitChild, EndLook, Checkpoint, Others
    <2>3. ASSUME NEW c \in Children, ChildStep(c) \/ WakeParent(c) PROVE RestTyped'
      BY <2>1, <2>3 DEF ChildStep, ChildClaimed, ChildAnswered, ChildGivesUp, ChildRequestLapses, CancelChild,
         ChildCheckedIn, WakeParent, Typed, RestTyped
    <2>4. CASE CancelParent \/ LeaseLapses \/ ResumeWrite \/ ResumeRead
      <3>1. UNCHANGED <<waking, answers, crashes>> /\ resuming' \in BOOLEAN
        BY <2>4 DEF CancelParent, LeaseLapses, ResumeWrite, ResumeRead, Typed, RestTyped
      <3> QED
        BY <3>1 DEF Typed, RestTyped
    <2>5. CASE Crash
      <3>1. waking' = {} /\ resuming' = FALSE /\ answers' = answers /\ crashes' \in 0 .. MaxCrashes
        BY <2>1, <2>5 DEF Crash, Typed, RestTyped
      <3> QED
        BY <3>1 DEF Typed, RestTyped
    <2> QED
      BY <2>1, <2>2, <2>3, <2>4, <2>5 DEF Next, vars, Typed, RestTyped
  <1> QED
    BY <1>1, ParentTyped, ChildrenTyped, WorkersTyped DEF Typed

\* The rows and the workers' copies keep their types, for all constants.
THEOREM CoordinationTypeCorrect == Spec => []TypeOK
  <1>1. Typed => TypeOK
    BY DEF Typed, TypeOK, ParentRows, ChildTyped, ChildRows, WorkerTyped, Places, RestTyped
  <1> QED
    BY <1>1, InitTyped, TypedNext, PTL DEF Spec

-----------------------------------------------------------------------------
(* Cancelling a tree. *)

\* However late a child is submitted, none escapes the cancellation of its tree
\* (cancel(), create()).
THEOREM NobodyIsOrphaned == Spec => []NoOrphans
  <1>1. Typed /\ NoOrphans /\ [Next]_vars => NoOrphans'
    <2> SUFFICES ASSUME Typed, NoOrphans, [Next]_vars, parent'.cancel, NEW c \in Children
                 PROVE  child'[c].cancel \/ child'[c].status \in Ended
      BY DEF NoOrphans, AtRest, Ended
    <2> USE DEF Typed
    <2>1. child[c] \in ChildRows /\ Owned(c) \in BOOLEAN
      BY DEF ChildTyped, Owned
    <2>2. CASE CancelParent
      <3>1. child'[c] = Stopping(child[c], Owned(c))
        BY <2>2 DEF CancelParent, StoppedChildren
      <3> QED
        BY <2>1, <3>1, StoppingTyped
    <2>3. CASE ~CancelParent
      <3>1. parent.cancel
        BY <2>3, ParentTyped DEF ParentKept
      <3>2. child[c].cancel \/ child[c].status \in Ended
        BY <3>1 DEF NoOrphans, AtRest, Ended
      <3>3. ASSUME NEW w \in Workers, NEW d \in Children PROVE ~SubmitChild(w, d)
        BY <3>1 DEF SubmitChild, MayHaveChild
      <3>4. CASE child' = child
        BY <3>2, <3>4
      <3>5. ASSUME NEW d \in Children, ChildMove(d) PROVE child'[c].cancel \/ child'[c].status \in Ended
        BY <3>2, <3>5, ChildMoveKeeps DEF Kept
      <3> QED
        BY <2>3, <3>3, <3>4, <3>5, Cases
    <2> QED
      BY <2>2, <2>3
  <1>2. Init => NoOrphans
    BY DEF Init, NoOrphans
  <1> QED
    BY <1>1, <1>2, InitTyped, TypedNext, PTL DEF Spec
-----------------------------------------------------------------------------
(* The order of the tasks.  The strengthening: the invariant holds of every *)
(* worker's copy too, what a worker has seen to succeed has succeeded, and  *)
(* a worker about to submit a task has seen all its prerequisites.          *)

Achieved(s, t, rows) == s.of[t] # None /\ rows[s.of[t]].status = "succeeded"
InOrder(s, rows) ==
  /\ \A t \in TaskNames(s) : s.of[t] # None => \A d \in s.plan[t] : Achieved(s, d, rows)
  /\ s.phase \in {"verify", "finalize"} => \A t \in TaskNames(s) : Achieved(s, t, rows)

Looking == {"look", "siblings", "spawn", "submit"}
SeenTrue(w) ==
  /\ pc[w] \notin Looking => seen[w] = Unseen
  /\ \A t \in TaskNames(loc[w]) : seen[w][t] = "succeeded" => Achieved(loc[w], t, child)
SubmitDue(w) == pc[w] = "submit" => todo[w] \subseteq Due(w)
Sound(w) == InOrder(loc[w], child) /\ SeenTrue(w) /\ SubmitDue(w)

\* The prerequisites of a task are tasks, and so are the tasks of a plan.
LEMMA StateFacts ==
  ASSUME NEW s \in States
  PROVE  /\ TaskNames(s) \subseteq Tasks /\ \A t \in TaskNames(s) : s.plan[t] \subseteq Tasks
         /\ s.of \in [Tasks -> Children \cup {None}]
  <1>1. s.plan \in Plans \cup {NoPlan} /\ s.of \in [Tasks -> Children \cup {None}]
    BY DEF States
  <1>2. CASE s.plan = NoPlan
    BY <1>1, <1>2 DEF NoPlan, TaskNames
  <1>3. CASE s.plan \in Plans
    BY <1>1, <1>3 DEF Plans, Candidates, TaskNames
  <1> QED
    BY <1>1, <1>2, <1>3

\* What was achieved stays achieved.
LEMMA AchievedStays ==
  ASSUME ChildrenKept, NEW s \in States, NEW t \in Tasks, Achieved(s, t, child)
  PROVE  Achieved(s, t, child')
  <1>1. s.of[t] \in Children
    BY StateFacts DEF Achieved
  <1> QED
    BY <1>1 DEF Achieved, ChildrenKept, Kept, Ended, TERMINAL

LEMMA InOrderStays ==
  ASSUME ChildrenKept, NEW s \in States, InOrder(s, child)
  PROVE  InOrder(s, child')
  BY StateFacts, AchievedStays DEF InOrder

LEMMA OthersSound ==
  ASSUME Typed, ChildrenKept, NEW w \in Workers, Sound(w),
         pc'[w] = pc[w], loc'[w] = loc[w], seen'[w] = seen[w], todo'[w] = todo[w]
  PROVE  Sound(w)'
  <1>1. loc[w] \in States /\ TaskNames(loc[w]) \subseteq Tasks
    BY StateFacts DEF Typed, WorkerTyped
  <1>2. InOrder(loc[w], child)'
    BY <1>1, InOrderStays DEF Sound
  <1>3. TaskNames(loc[w])' = TaskNames(loc[w]) /\ Due(w)' = Due(w)
    BY DEF TaskNames, Due, Completed
  <1>4. SeenTrue(w)'
    BY <1>1, <1>3, AchievedStays DEF Sound, SeenTrue
  <1>5. SubmitDue(w)'
    BY <1>3 DEF Sound, SubmitDue
  <1> QED
    BY <1>2, <1>4, <1>5 DEF Sound

\* A step ends with a state in order: nothing is remembered of what was seen.
LEMMA FinishSound ==
  ASSUME Typed, ChildrenKept, NEW w \in Workers, NEW s \in States, NEW status,
         Finish(w, s, status), InOrder(s, child)
  PROVE  Sound(w)'
  <1>1. loc'[w] = s /\ pc'[w] = "commit" /\ seen'[w] = Unseen
    BY DEF Finish, Typed, WorkerTyped
  <1>2. InOrder(loc[w], child)'
    BY <1>1, InOrderStays
  <1>3. SeenTrue(w)'
    BY <1>1, StateFacts DEF SeenTrue, Looking, Unseen, TaskNames
  <1> QED
    BY <1>1, <1>2, <1>3 DEF Sound, SubmitDue

\* A due task gets its child: all that it waits for has succeeded.
LEMMA NewChildSound ==
  ASSUME Typed, ChildrenKept, NEW w \in Workers, Sound(w), NEW t \in Due(w), NEW c \in Children,
         loc' = [loc EXCEPT ![w].of[t] = c], seen'[w] = seen[w], pc[w] \in Looking, pc'[w] = "spawn"
  PROVE  Sound(w)'
  <1> DEFINE s == loc[w]
             n == loc'[w]
  <1>1. /\ s \in States /\ TaskNames(s) \subseteq Tasks /\ s.of \in [Tasks -> Children \cup {None}]
        /\ \A x \in TaskNames(s) : s.plan[x] \subseteq Tasks
    BY StateFacts DEF Typed, WorkerTyped
  <1>2. t \in TaskNames(s) /\ s.of[t] = None
    BY DEF Due
  <1>3. \A d \in s.plan[t] : d \in TaskNames(s) /\ Achieved(s, d, child)
    BY DEF Due, Completed, Sound, SeenTrue
  <1>4. n = [s EXCEPT !.of = [s.of EXCEPT ![t] = c]]
    BY <1>1 DEF Typed, WorkerTyped, States
  <1>5. /\ n.plan = s.plan /\ n.phase = s.phase /\ TaskNames(n) = TaskNames(s)
        /\ \A x \in Tasks : n.of[x] = IF x = t THEN c ELSE s.of[x]
    BY <1>1, <1>4 DEF States, TaskNames
  <1>6. \A x \in Tasks : Achieved(s, x, child) => Achieved(n, x, child')
    <2> SUFFICES ASSUME NEW x \in Tasks, Achieved(s, x, child) PROVE Achieved(n, x, child')
      OBVIOUS
    <2>1. x # t /\ Achieved(s, x, child')
      BY <1>1, <1>2, AchievedStays DEF Achieved
    <2> QED
      BY <1>5, <2>1 DEF Achieved
  <1> HIDE DEF n
  <1>7. InOrder(n, child')
    BY <1>1, <1>2, <1>3, <1>5, <1>6 DEF Sound, InOrder
  <1>8. \A x \in TaskNames(n) : seen[w][x] = "succeeded" => Achieved(n, x, child')
    BY <1>1, <1>5, <1>6 DEF Sound, SeenTrue
  <1> QED
    BY <1>7, <1>8 DEF n, Sound, SeenTrue, SubmitDue, Looking

\* A step of a worker leaves the other workers' variables alone.
LEMMA OneWorker ==
  ASSUME Typed, NEW w \in Workers, WorkerStep(w) \/ Claim(w)
  PROVE  \A v \in Workers \ {w} :
           pc'[v] = pc[v] /\ loc'[v] = loc[v] /\ seen'[v] = seen[v] /\ todo'[v] = todo[v]
  BY DEF Typed, WorkerTyped, WorkerStep, Claim, Stop, Blocked, Plan, Verify, Finalize, BeginLook, Look,
     CancelSibling, GiveUpPlan, LookedAtAll, FindChild, SubmitChild, EndLook, Checkpoint, Finish, worker

LEMMA StepSound ==
  ASSUME Typed, ChildrenKept, NEW w \in Workers, Sound(w), WorkerStep(w)
  PROVE  Sound(w)'
  <1> DEFINE s == loc[w]
  <1> USE DEF Typed
  <1>1. /\ s \in States /\ TaskNames(s) \subseteq Tasks /\ s.of \in [Tasks -> Children \cup {None}]
        /\ InOrder(s, child)
    BY StateFacts DEF WorkerTyped, Sound
  <1>2. ASSUME NEW n \in States, NEW status, Finish(w, n, status), n.plan = s.plan, n.of = s.of,
               n.phase \in {s.phase, "replan", "model"} \/ (s.phase = "verify" /\ n.phase = "finalize")
        PROVE  Sound(w)'
    <2>1. InOrder(n, child)
      BY <1>1, <1>2 DEF InOrder, TaskNames, Achieved
    <2> QED
      BY <1>2, <2>1, FinishSound
  <1>3. CASE Stop(w) \/ Blocked(w) \/ Finalize(w)
    BY <1>1, <1>2, <1>3 DEF Stop, Blocked, Finalize
  <1>4. CASE Plan(w)
    <2>1. PICK p \in Plans :
            Finish(w, [s EXCEPT !.phase = "children", !.plan = p, !.of = NoChildren], "queued")
      BY <1>4 DEF Plan
    <2> DEFINE n == [s EXCEPT !.phase = "children", !.plan = p, !.of = NoChildren]
    <2>2. n \in States /\ n.of = NoChildren /\ n.phase = "children"
      BY <1>1 DEF States, NoChildren
    <2> HIDE DEF n
    <2>3. \A t \in TaskNames(n) : n.of[t] = None
      BY <2>2, StateFacts DEF NoChildren
    <2>4. InOrder(n, child)
      BY <2>2, <2>3 DEF InOrder
    <2> QED
      BY <2>1, <2>2, <2>4, FinishSound DEF n
  <1>5. CASE Verify(w) \/ GiveUpPlan(w)
    <2>1. \A phase \in {"finalize", "model", "replan"} :
            LET n == [s EXCEPT !.phase = phase] IN
            n \in States /\ n.plan = s.plan /\ n.of = s.of /\ n.phase = phase
      BY <1>1 DEF States
    <2>2. /\ Replan(s) \in States /\ Replan(s).plan = s.plan /\ Replan(s).of = s.of
          /\ Replan(s).phase = "replan"
      BY <1>1 DEF States, Replan
    <2>3. CASE GiveUpPlan(w)
      BY <1>2, <2>2, <2>3 DEF GiveUpPlan
    <2>4. CASE Verify(w)
      BY <1>2, <2>1, <2>2, <2>4 DEF Verify
    <2> QED
      BY <1>5, <2>3, <2>4
  <1>6. CASE BeginLook(w)
    <2> DEFINE n == [s EXCEPT !.waitingOn = None]
    <2>1. n \in States /\ n.plan = s.plan /\ n.of = s.of /\ n.phase = s.phase
      BY <1>1 DEF States
    <2>2. /\ pc'[w] = "look" /\ loc'[w] = n /\ seen'[w] = Unseen /\ child' = child
          /\ pc[w] = "begin"
      BY <1>6 DEF BeginLook, Others, WorkerTyped, Sound, SeenTrue, Looking
    <2> HIDE DEF n
    <2>3. InOrder(n, child)
      BY <1>1, <2>1 DEF InOrder, TaskNames, Achieved
    <2>4. \A t \in TaskNames(n) : Unseen[t] # "succeeded"
      BY <1>1, <2>1 DEF Unseen, TaskNames
    <2> QED
      BY <2>2, <2>3, <2>4 DEF Sound, SeenTrue, SubmitDue, Looking
  <1>7. ASSUME NEW t \in Tasks, Look(w, t) PROVE Sound(w)'
    <2>1. s.of[t] # None /\ child' = child /\ pc[w] = "look"
      BY <1>7 DEF Look, Unread, Others
    <2>2. CASE \E status : Finish(w, s, status)
      BY <1>1, <1>2, <2>2
    <2>3. CASE /\ seen' = [seen EXCEPT ![w][t] = child[s.of[t]].status]
               /\ UNCHANGED <<pc, loc, todo, out>>
      <3>1. \A x \in Tasks : seen'[w][x] = IF x = t THEN child[s.of[t]].status ELSE seen[w][x]
        BY <2>3 DEF WorkerTyped
      <3>2. \A x \in TaskNames(s) : seen'[w][x] = "succeeded" => Achieved(s, x, child)
        BY <1>1, <2>1, <3>1 DEF Achieved, Sound, SeenTrue
      <3> QED
        BY <2>1, <2>3, <3>2 DEF Sound, SeenTrue, SubmitDue, Looking
    <2>4. CASE pc'[w] = "siblings" /\ UNCHANGED <<seen, loc, out>>
      BY <2>1, <2>4 DEF Sound, SeenTrue, SubmitDue, Looking
    <2> QED
      BY <1>7, <2>2, <2>3, <2>4 DEF Look, WorkerTyped
  <1>8. ASSUME NEW t \in Tasks, FindChild(w, t) PROVE Sound(w)'
    <2>1. t \in Due(w) /\ pc[w] = "spawn" /\ child' = child /\ seen' = seen
      BY <1>8 DEF FindChild, Others
    <2>2. CASE pc' = [pc EXCEPT ![w] = "submit"] /\ todo' = [todo EXCEPT ![w] = {t}] /\ loc' = loc
      <3>1. pc'[w] = "submit" /\ todo'[w] = {t} /\ Due(w)' = Due(w)
        BY <2>1, <2>2 DEF WorkerTyped, Due, Completed
      <3> QED
        BY <2>1, <2>2, <3>1 DEF Sound, SeenTrue, SubmitDue, Looking
    <2>3. ASSUME NEW c \in Children, loc' = [loc EXCEPT ![w].of[t] = c], pc' = pc PROVE Sound(w)'
      BY <2>1, <2>3, NewChildSound DEF Looking
    <2> QED
      BY <1>8, <2>2, <2>3 DEF FindChild, Submitted
  <1>9. ASSUME NEW c \in Children, SubmitChild(w, c) PROVE Sound(w)'
    <2>1. PICK t \in todo[w] : loc' = [loc EXCEPT ![w].of[t] = c]
      BY <1>9 DEF SubmitChild
    <2>2. t \in Due(w) /\ pc[w] = "submit" /\ pc'[w] = "spawn" /\ seen'[w] = seen[w]
      BY <1>9, <2>1 DEF SubmitChild, Sound, SubmitDue, WorkerTyped
    <2> QED
      BY <2>1, <2>2, NewChildSound DEF Looking
  <1>10. CASE LookedAtAll(w)
    BY <1>10 DEF LookedAtAll, Others, WorkerTyped, Sound, SeenTrue, SubmitDue, Looking
  <1>11. ASSUME NEW c \in Children, CancelSibling(w, c) PROVE Sound(w)'
    <2>1. pc'[w] = "siblings" /\ loc' = loc /\ seen' = seen /\ pc[w] = "siblings"
      BY <1>11 DEF CancelSibling
    <2>2. InOrder(loc[w], child)'
      BY <1>1, <2>1, InOrderStays
    <2>3. SeenTrue(w)'
      BY <1>1, <2>1, AchievedStays DEF Sound, SeenTrue, Looking
    <2> QED
      BY <2>1, <2>2, <2>3 DEF Sound, SubmitDue
  <1>12. CASE EndLook(w)
    <2>1. ASSUME NEW t \in TaskNames(s), NEW status,
                 Finish(w, [s EXCEPT !.waitingOn = Awaited(s, t)], status)
          PROVE  Sound(w)'
      <3>1. LET n == [s EXCEPT !.waitingOn = Awaited(s, t)] IN
            n \in States /\ n.plan = s.plan /\ n.of = s.of /\ n.phase = s.phase
        BY <1>1 DEF States, Awaited
      <3> QED
        BY <1>2, <2>1, <3>1
    <2>2. CASE Finish(w, s, "queued")
      BY <1>1, <1>2, <2>2
    <2>3. CASE AllCompleted(w) /\ Finish(w, [s EXCEPT !.phase = "verify"], "queued")
      <3> DEFINE n == [s EXCEPT !.phase = "verify"]
      <3>1. n \in States /\ n.plan = s.plan /\ n.of = s.of
        BY <1>1 DEF States
      <3>2. \A t \in TaskNames(s) : Achieved(s, t, child)
        BY <2>3 DEF AllCompleted, Completed, Sound, SeenTrue
      <3> HIDE DEF n
      <3>3. InOrder(n, child)
        BY <1>1, <3>1, <3>2 DEF InOrder, TaskNames, Achieved
      <3> QED
        BY <2>3, <3>1, <3>3, FinishSound DEF n
    <2> QED
      BY <1>12, <2>1, <2>2, <2>3 DEF EndLook
  <1>13. CASE Checkpoint(w)
    <2>1. pc'[w] = "idle" /\ loc'[w] = NewState /\ seen'[w] = Unseen
      BY <1>13 DEF Checkpoint, WorkerTyped, Sound, SeenTrue, Looking
    <2>2. TaskNames(NewState) = {} /\ NewState.phase = "plan"
      BY DEF TaskNames, NewState, NoPlan
    <2> QED
      BY <2>1, <2>2 DEF Sound, SeenTrue, SubmitDue, InOrder, Looking
  <1> QED
    BY <1>3, <1>4, <1>5, <1>6, <1>7, <1>8, <1>9, <1>10, <1>11, <1>12, <1>13 DEF WorkerStep, Stop, Blocked

Ordered == InOrder(parent.st, child) /\ \A w \in Workers : Sound(w)

LEMMA OrderedInit == Init => Ordered
  <1> SUFFICES ASSUME Init PROVE Ordered
    OBVIOUS
  <1>1. TaskNames(NewState) = {} /\ NewState.phase = "plan"
    BY DEF TaskNames, NewState, NoPlan
  <1>2. parent.st = NewState /\ \A w \in Workers : pc[w] = "idle" /\ loc[w] = NewState /\ seen[w] = Unseen
    BY DEF Init
  <1> QED
    BY <1>1, <1>2 DEF Ordered, Sound, SeenTrue, SubmitDue, InOrder, Looking

LEMMA OrderedNext ==
  ASSUME Typed, Ordered, [Next]_vars
  PROVE  Ordered'
  <1>1. ChildrenKept /\ ParentKept /\ parent.st \in States
    BY ChildrenTyped, ParentTyped DEF Typed, ParentRows
  <1>2. InOrder(parent.st, child)'
    <2>1. CASE parent'.st = parent.st
      BY <1>1, <2>1, InOrderStays DEF Ordered
    <2>2. ASSUME NEW w \in Workers, parent'.st = loc[w] PROVE InOrder(parent.st, child)'
      BY <1>1, <2>2, InOrderStays DEF Ordered, Sound, Typed, WorkerTyped
    <2> QED
      BY <1>1, <2>1, <2>2 DEF ParentKept
  <1>3. ASSUME NEW w \in Workers PROVE Sound(w)'
    <2>1. CASE WorkerStep(w)
      BY <1>1, <2>1, StepSound DEF Ordered
    <2>2. CASE Claim(w)
      <3>1. /\ pc'[w] = "begin" /\ loc'[w] = parent.st /\ seen'[w] = Unseen /\ child' = child
        BY <2>2 DEF Claim, Typed, WorkerTyped, Ordered, Sound, SeenTrue, Looking
      <3>2. \A t \in TaskNames(parent.st) : Unseen[t] # "succeeded"
        BY <1>1, StateFacts DEF Unseen
      <3> QED
        BY <3>1, <3>2 DEF Ordered, Sound, SeenTrue, SubmitDue, Looking
    <2>3. CASE Crash
      <3>1. pc'[w] = "idle" /\ loc'[w] = NewState /\ seen'[w] = Unseen
        BY <2>3 DEF Crash
      <3>2. TaskNames(NewState) = {} /\ NewState.phase = "plan"
        BY DEF TaskNames, NewState, NoPlan
      <3> QED
        BY <3>1, <3>2 DEF Sound, SeenTrue, SubmitDue, InOrder, Looking
    <2>4. CASE UNCHANGED worker
      BY <1>1, <2>4, OthersSound DEF worker, Ordered
    <2>5. ASSUME NEW v \in Workers \ {w}, WorkerStep(v) \/ Claim(v) PROVE Sound(w)'
      BY <1>1, <2>5, OneWorker, OthersSound DEF Ordered
    <2>6. ASSUME NEW c \in Children, ChildStep(c) \/ WakeParent(c) PROVE UNCHANGED worker
      BY <2>6 DEF ChildStep, ChildClaimed, ChildAnswered, ChildGivesUp, ChildRequestLapses, CancelChild,
         ChildCheckedIn, WakeParent
    <2> QED
      BY <2>1, <2>2, <2>3, <2>4, <2>5, <2>6
      DEF Next, CancelParent, ResumeRead, ResumeWrite, Heartbeat, LeaseLapses, vars, worker
  <1> QED
    BY <1>2, <1>3 DEF Ordered

\* A task is started after all its prerequisites succeeded, whatever crashes, late
\* heartbeats, cancellations and second plans come between (_coordinate()).
THEOREM TasksRunInOrder == Spec => []DependenciesFirst
  <1>1. Ordered => DependenciesFirst
    BY DEF Ordered, InOrder, Achieved, DependenciesFirst
  <1> QED
    BY <1>1, InitTyped, TypedNext, OrderedInit, OrderedNext, PTL DEF Spec

\* No summary is made, checked or returned as the answer while a task of the plan has
\* not succeeded (_coordinate()).
THEOREM SummariesAreComplete == Spec => []SummaryIsComplete
  <1>1. Ordered => SummaryIsComplete
    BY DEF Ordered, InOrder, Achieved, SummaryIsComplete
  <1> QED
    BY <1>1, InitTyped, TypedNext, OrderedInit, OrderedNext, PTL DEF Spec

-----------------------------------------------------------------------------
(* The lifecycle.  The strengthening: the parent has an owner just while it *)
(* runs, who was asked to stop runs or has ended, and no worker checks in a *)
(* parent as running or as one that never was.                              *)

CanStop(row) == row.cancel => row.status \in {"running"} \cup TERMINAL
Results == {"queued"} \cup WAITING \cup TERMINAL
Alive ==
  /\ CanStop(parent) /\ \A c \in Children : CanStop(child[c])
  /\ parent.owner # None <=> parent.status = "running"
  /\ parent.status # "absent"
  /\ \A w \in Workers : pc[w] = "commit" => out[w] \in Results

\* One step of a row's lifecycle, or none.
Turns(old, new) ==
  \/ new.status = old.status /\ new.cancel = old.cancel
  \/ old.status = "absent" /\ new.status = "queued" /\ ~new.cancel
  \/ old.status = "queued" /\ new.status = "running" /\ new.cancel = old.cancel
  \/ /\ old.status = "running" /\ new.cancel = old.cancel
     /\ new.status \in IF old.cancel THEN {"cancelled"} ELSE Results
  \/ old.status \in WAITING /\ ~old.cancel /\ new.status = "queued" /\ new.cancel = old.cancel
  \/ old.status \in {"waiting_approval", "waiting_input"} /\ new.status = "paused" /\ new.cancel = old.cancel
  \/ /\ old.status \notin TERMINAL \cup {"absent"} /\ new.cancel
     /\ new.status = IF old.status = "running" THEN "running" ELSE "cancelled"

\* A child's row, changed by a step that is not the parent's cancellation or
\* the submission of a child.
LEMMA ChildMoveTurns ==
  ASSUME ChildTyped, \A x \in Children : CanStop(child[x]), NEW c \in Children, ChildMove(c)
  PROVE  \A d \in Children : Turns(child[d], child'[d]) /\ CanStop(child'[d])
  <1> USE DEF ChildTyped
  <1>1. child[c] \in ChildRows /\ CanStop(child[c])
    OBVIOUS
  <1>2. ASSUME NEW row, child' = [child EXCEPT ![c] = row], Turns(child[c], row), CanStop(row)
        PROVE  \A d \in Children : Turns(child[d], child'[d]) /\ CanStop(child'[d])
    <2> SUFFICES ASSUME NEW d \in Children PROVE Turns(child[d], child'[d]) /\ CanStop(child'[d])
      OBVIOUS
    <2>1. CASE d = c
      <3>1. child'[d] = row
        BY <1>2, <2>1
      <3> QED
        BY <1>2, <2>1, <3>1
    <2>2. CASE d # c
      <3>1. child'[d] = child[d]
        BY <1>2, <2>2
      <3> QED
        BY <3>1 DEF Turns
    <2> QED
      BY <2>1, <2>2
  <1>3. ASSUME NEW status \in Statuses, child' = [child EXCEPT ![c].status = status],
               Turns(child[c], [child[c] EXCEPT !.status = status]),
               CanStop([child[c] EXCEPT !.status = status])
        PROVE  \A d \in Children : Turns(child[d], child'[d]) /\ CanStop(child'[d])
    <2> DEFINE row == [child[c] EXCEPT !.status = status]
    <2>1. child' = [child EXCEPT ![c] = row]
      BY <1>3
    <2> QED
      BY <1>2, <1>3, <2>1
  <1>4. CASE ChildClaimed(c)
    BY <1>1, <1>3, <1>4 DEF ChildClaimed, ChildRows, Statuses, Turns, CanStop
  <1>5. CASE ChildAnswered(c)
    <2>1. ~child[c].cancel
      BY <1>1, <1>5 DEF ChildAnswered, CanStop, WAITING, TERMINAL
    <2> QED
      BY <1>1, <1>3, <1>5, <2>1 DEF ChildAnswered, ChildRows, Statuses, Turns, CanStop
  <1>6. CASE ChildGivesUp(c)
    <2>1. ~child[c].cancel
      BY <1>1, <1>6 DEF ChildGivesUp, CanStop, TERMINAL
    <2> QED
      BY <1>1, <1>3, <1>6, <2>1 DEF ChildGivesUp, ChildRows, Statuses, WAITING, Turns, CanStop
  <1>7. ASSUME NEW status \in {"queued"} \cup WAITING \cup TERMINAL, ChildCheckedIn(c, status)
        PROVE  \A d \in Children : Turns(child[d], child'[d]) /\ CanStop(child'[d])
    <2> DEFINE now == IF child[c].cancel THEN "cancelled" ELSE status
    <2>1. /\ now \in Results /\ (child[c].cancel => now = "cancelled") /\ now \in Statuses
          /\ child' = [child EXCEPT ![c].status = now] /\ child[c].status = "running"
      BY <1>1, <1>7 DEF ChildCheckedIn, Results, Statuses, TERMINAL
    <2> HIDE DEF now
    <2> QED
      BY <1>1, <1>3, <2>1 DEF ChildRows, Turns, CanStop, TERMINAL
  <1>8. ASSUME child' = [child EXCEPT ![c] = Stopping(@, Owned(c))]
        PROVE  \A d \in Children : Turns(child[d], child'[d]) /\ CanStop(child'[d])
    <2>1. /\ Turns(child[c], Stopping(child[c], Owned(c)))
          /\ CanStop(Stopping(child[c], Owned(c)))
      BY <1>1 DEF ChildRows, Turns, Stopping, Owned, CanStop, TERMINAL
    <2> QED
      BY <1>2, <1>8, <2>1
  <1> QED
    BY <1>4, <1>5, <1>6, <1>7, <1>8 DEF ChildMove, CancelChild, CancelSibling

LEMMA ChildrenTurn ==
  ASSUME Typed, Alive, [Next]_vars
  PROVE  \A c \in Children : Turns(child[c], child'[c]) /\ CanStop(child'[c])
  <1>1. ChildTyped /\ \A c \in Children : CanStop(child[c]) /\ child[c] \in ChildRows
    BY DEF Typed, ChildTyped, Alive
  <1>2. CASE child' = child
    BY <1>1, <1>2 DEF Turns
  <1>3. CASE CancelParent
    <2>1. \A c \in Children : child'[c] = Stopping(child[c], Owned(c))
      BY <1>3 DEF CancelParent, StoppedChildren
    <2> QED
      BY <1>1, <2>1 DEF ChildRows, Turns, Stopping, Owned, CanStop, TERMINAL
  <1>4. ASSUME NEW c \in Children, ChildMove(c)
        PROVE  \A d \in Children : Turns(child[d], child'[d]) /\ CanStop(child'[d])
    BY <1>1, <1>4, ChildMoveTurns
  <1>5. ASSUME NEW c \in Children, NEW w \in Workers, SubmitChild(w, c)
        PROVE  \A d \in Children : Turns(child[d], child'[d]) /\ CanStop(child'[d])
    <2>1. PICK t \in todo[w] : child' = [child EXCEPT ![c].status = "queued", ![c].label = Label(loc[w], t)]
      BY <1>5 DEF SubmitChild
    <2>2. child[c].status = "absent" /\ ~child[c].cancel
      BY <1>5 DEF SubmitChild, NoChild
    <2>3. child'[c].status = "queued" /\ ~child'[c].cancel /\ \A d \in Children \ {c} : child'[d] = child[d]
      BY <1>1, <2>1, <2>2 DEF ChildTyped, ChildRows
    <2> QED
      BY <1>1, <2>2, <2>3 DEF Turns, CanStop
  <1> QED
    BY <1>2, <1>3, <1>4, <1>5, Cases

LEMMA ParentTurns ==
  ASSUME Typed, Alive, [Next]_vars
  PROVE  /\ Turns(parent, parent') /\ CanStop(parent')
         /\ parent'.owner # None <=> parent'.status = "running"
         /\ parent'.status # "absent"
  <1> DEFINE Goal == /\ Turns(parent, parent') /\ CanStop(parent')
                     /\ parent'.owner # None <=> parent'.status = "running"
                     /\ parent'.status # "absent"
  <1> SUFFICES Goal
    OBVIOUS
  <1>0. /\ parent \in ParentRows /\ CanStop(parent) /\ parent.status # "absent"
        /\ parent.owner # None <=> parent.status = "running"
        /\ \A w \in Workers : pc[w] = "commit" => out[w] \in Results
        /\ None \notin Workers /\ "dead" # None
    BY ConstantsAssumption DEF Typed, Alive, None
  <1>1. CASE parent' = parent
    BY <1>0, <1>1 DEF Turns
  <1>2. CASE CancelParent
    BY <1>0, <1>2 DEF CancelParent, Stopping, ParentRows, Turns, CanStop, TERMINAL
  <1>3. ASSUME parent.status \in WAITING, parent' = [parent EXCEPT !.status = "queued"] PROVE Goal
    <2>1. ~parent.cancel
      BY <1>0, <1>3 DEF CanStop, WAITING, TERMINAL, ParentRows
    <2>2. parent'.status = "queued" /\ parent'.cancel = parent.cancel /\ parent'.owner = parent.owner
      BY <1>0, <1>3 DEF ParentRows
    <2> QED
      BY <1>0, <1>3, <2>1, <2>2 DEF Turns, CanStop, WAITING
  <1>4. CASE ResumeWrite
    BY <1>1, <1>3, <1>4 DEF ResumeWrite, WAITING
  <1>5. CASE parent' = Woken
    BY <1>1, <1>3, <1>5 DEF Woken
  <1>6. ASSUME NEW w \in Workers, Claim(w) PROVE Goal
    <2>1. parent'.status = "running" /\ parent'.cancel = parent.cancel /\ parent'.owner = w
      BY <1>0, <1>6 DEF Claim, ParentRows
    <2>2. parent.status \in {"queued", "running"}
      BY <1>6 DEF Claim, Claimable
    <2> QED
      BY <1>0, <2>1, <2>2 DEF Turns, CanStop, TERMINAL
  <1>7. CASE LeaseLapses \/ \E w \in Workers : Heartbeat(w)
    <2>1. parent'.status = parent.status /\ parent'.cancel = parent.cancel /\ parent'.owner = parent.owner
      BY <1>0, <1>7 DEF LeaseLapses, Heartbeat, ParentRows
    <2> QED
      BY <1>0, <2>1 DEF Turns, CanStop
  <1>8. CASE Crash
    <2>1. /\ parent'.status = parent.status /\ parent'.cancel = parent.cancel
          /\ parent'.owner = IF parent.owner = None THEN None ELSE "dead"
      BY <1>0, <1>8 DEF Crash, ParentRows
    <2> QED
      BY <1>0, <2>1 DEF Turns, CanStop
  <1>9. ASSUME NEW w \in Workers, Checkpoint(w), parent.owner = w PROVE Goal
    <2>1. /\ parent'.status = (IF parent.cancel THEN "cancelled" ELSE out[w])
          /\ parent'.cancel = parent.cancel /\ parent'.owner = None
      BY <1>0, <1>9 DEF Checkpoint, ParentRows
    <2>2. out[w] \in Results /\ parent.status = "running"
      BY <1>0, <1>9 DEF Checkpoint
    <2>3. parent'.status \in Results /\ (parent.cancel => parent'.status = "cancelled")
      BY <2>1, <2>2 DEF Results, TERMINAL
    <2>4. parent'.status # "running" /\ parent'.status # "absent"
      BY <2>3 DEF Results, TERMINAL, WAITING
    <2> QED
      BY <1>0, <2>1, <2>2, <2>3, <2>4 DEF Turns, CanStop, TERMINAL
  <1>10. ASSUME NEW w \in Workers, Checkpoint(w), parent.owner # w PROVE Goal
    BY <1>1, <1>10 DEF Checkpoint
  <1>11. ASSUME NEW w \in Workers, WorkerStep(w), ~Checkpoint(w) PROVE parent' = parent
    BY <1>11 DEF WorkerStep, Stop, Blocked, Plan, Verify, Finalize, BeginLook, Look, CancelSibling,
       GiveUpPlan, LookedAtAll, FindChild, SubmitChild, EndLook, Others
  <1>12. ASSUME NEW c \in Children, ChildStep(c) PROVE parent' = parent \/ parent' = Woken
    BY <1>12 DEF ChildStep, ChildClaimed, ChildAnswered, ChildGivesUp, ChildRequestLapses, CancelChild,
       ChildCheckedIn
  <1> HIDE DEF Goal
  <1> QED
    BY <1>1, <1>2, <1>4, <1>5, <1>6, <1>7, <1>8, <1>9, <1>10, <1>11, <1>12
    DEF Next, ResumeRead, WakeParent, vars

LEMMA OutTurns ==
  ASSUME Typed, Alive, [Next]_vars
  PROVE  \A w \in Workers : pc'[w] = "commit" => out'[w] \in Results
  <1> SUFFICES ASSUME NEW w \in Workers PROVE pc'[w] = "commit" => out'[w] \in Results
    OBVIOUS
  <1>0. /\ pc \in [Workers -> Places] /\ out \in [Workers -> Statuses \cup {None}]
        /\ \A v \in Workers : pc[v] = "commit" => out[v] \in Results
    BY DEF Typed, WorkerTyped, Alive
  <1>1. CASE UNCHANGED <<pc, out>>
    BY <1>0, <1>1
  <1>2. ASSUME NEW v \in Workers, NEW s, NEW status \in Results, Finish(v, s, status)
        PROVE  pc'[w] = "commit" => out'[w] \in Results
    BY <1>0, <1>2 DEF Finish
  <1>3. ASSUME NEW v \in Workers, NEW place \in Places \ {"commit"}, pc' = [pc EXCEPT ![v] = place],
               out' = out \/ out' = [out EXCEPT ![v] = None]
        PROVE  pc'[w] = "commit" => out'[w] \in Results
    BY <1>0, <1>3
  <1>4. ASSUME NEW v \in Workers, WorkerStep(v)
        PROVE  pc'[w] = "commit" => out'[w] \in Results
    <2> USE DEF Results, TERMINAL, WAITING
    <2>1. CASE Stop(v) \/ Blocked(v) \/ Finalize(v) \/ Plan(v) \/ Verify(v) \/ GiveUpPlan(v)
      BY <1>2, <2>1 DEF Stop, Blocked, Finalize, Plan, Verify, GiveUpPlan
    <2>2. CASE BeginLook(v) \/ LookedAtAll(v) \/ Checkpoint(v) \/ \E c \in Children : SubmitChild(v, c)
      BY <1>3, <2>2 DEF BeginLook, LookedAtAll, Checkpoint, SubmitChild, Places
    <2>3. CASE \E c \in Children : CancelSibling(v, c)
      BY <1>1, <2>3 DEF CancelSibling
    <2>4. ASSUME NEW t \in Tasks, FindChild(v, t) PROVE pc'[w] = "commit" => out'[w] \in Results
      BY <1>1, <1>3, <2>4 DEF FindChild, Places
    <2>5. ASSUME NEW t \in Tasks, Look(v, t) PROVE pc'[w] = "commit" => out'[w] \in Results
      BY <1>1, <1>2, <1>3, <2>5 DEF Look, Places
    <2>6. CASE EndLook(v)
      BY <1>2, <2>6 DEF EndLook
    <2> QED
      BY <1>4, <2>1, <2>2, <2>3, <2>4, <2>5, <2>6 DEF WorkerStep
  <1>5. ASSUME NEW v \in Workers, Claim(v) PROVE pc'[w] = "commit" => out'[w] \in Results
    BY <1>3, <1>5 DEF Claim, Places
  <1>6. CASE Crash
    BY <1>6 DEF Crash
  <1>7. ASSUME NEW c \in Children, ChildStep(c) \/ WakeParent(c) PROVE UNCHANGED worker
    BY <1>7 DEF ChildStep, ChildClaimed, ChildAnswered, ChildGivesUp, ChildRequestLapses, CancelChild,
       ChildCheckedIn, WakeParent
  <1> QED
    BY <1>1, <1>4, <1>5, <1>6, <1>7
    DEF Next, CancelParent, ResumeRead, ResumeWrite, Heartbeat, LeaseLapses, vars, worker

LEMMA AliveNext ==
  ASSUME Typed, Alive, [Next]_vars
  PROVE  Alive'
  BY ChildrenTurn, ParentTurns, OutTurns DEF Alive

LEMMA AliveInit == Init => Alive
  BY DEF Init, Alive, CanStop, NoChild, None

\* Whatever is done to parent and children from the other's side, by a cancellation
\* of the tree, a wake-up or a stale check-in, each row keeps to the lifecycle of a
\* run (cancel(), wake_parent(), checkpoint(), create()).
THEOREM FamilyKeepsLifecycle == Spec => KeepsLifecycle
  <1>1. Typed /\ Alive /\ [Next]_vars => Alive'
    BY AliveNext
  <1>2. ASSUME Typed, Alive, [Next]_vars PROVE Lifecycle!Next
    <2>1. \A r \in Family : Turns(Row(r), Row(r)')
      BY <1>2, ChildrenTurn, ParentTurns DEF Family, Row
    <2>2. ASSUME NEW r \in Family
          PROVE  \/ Lifecycle!Step(r)
                 \/ Row(r)'.status = Row(r).status /\ Row(r)'.cancel = Row(r).cancel
      <3>1. Turns(Row(r), Row(r)') /\ Row(r).cancel \in BOOLEAN /\ Row(r)'.cancel \in BOOLEAN
        <4>1. Typed /\ Typed'
          BY <1>2, TypedNext
        <4> QED
          BY <2>1, <4>1 DEF Typed, ChildTyped, ParentRows, ChildRows, Family, Row
      <3> QED
        BY <3>1 DEF Turns, Results, TERMINAL, WAITING, Lifecycle!Step, Lifecycle!Submitted, Lifecycle!Claimed,
           Lifecycle!CheckedIn, Lifecycle!Answered, Lifecycle!GivenUp, Lifecycle!Stopped,
           Lifecycle!TERMINAL, Lifecycle!WAITING
    <2> QED
      BY <2>2 DEF Lifecycle!Next
  <1> QED
    BY <1>1, <1>2, InitTyped, TypedNext, AliveInit, PTL DEF Spec, KeepsLifecycle

-----------------------------------------------------------------------------
(* One worker at a time.  Where no heartbeat comes late, a worker inside a  *)
(* step of the parent is its owner.                                         *)

\* No worker stalls while it lives: heartbeats come in time.
Punctual == StallingWorkers = {}

Owning ==
  /\ \A w \in Workers : pc[w] # "idle" => parent.owner = w
  /\ parent.owner \in Workers => parent.lease = "live"

LEMMA InAStep ==
  ASSUME NEW w \in Workers, WorkerStep(w)
  PROVE  pc[w] # "idle" /\ (parent' = parent \/ Checkpoint(w))
  BY DEF WorkerStep, Stop, Blocked, Plan, Verify, Finalize, BeginLook, Look, CancelSibling,
     GiveUpPlan, LookedAtAll, FindChild, SubmitChild, EndLook, Checkpoint, Others

LEMMA OwningNext ==
  ASSUME Punctual, Typed, Alive, Owning, [Next]_vars
  PROVE  Owning'
  <1>0. /\ parent \in ParentRows /\ pc \in [Workers -> Places]
        /\ None \notin Workers /\ "dead" \notin Workers
        /\ parent.owner # None <=> parent.status = "running"
        /\ \A w \in Workers : pc[w] # "idle" => parent.owner = w
        /\ parent.owner \in Workers => parent.lease = "live"
    BY ConstantsAssumption DEF Typed, WorkerTyped, Alive, Owning, None
  <1>1. ASSUME pc' = pc, parent'.owner = parent.owner, parent'.lease = parent.lease PROVE Owning'
    BY <1>0, <1>1 DEF Owning
  <1>2. CASE CancelParent
    <2>1. pc' = pc /\ parent'.owner = parent.owner /\ parent'.lease = parent.lease
      BY <1>0, <1>2 DEF CancelParent, Stopping, ParentRows, worker
    <2> QED
      BY <1>1, <2>1
  <1>3. CASE ResumeRead \/ ResumeWrite
    <2>1. pc' = pc /\ parent'.owner = parent.owner /\ parent'.lease = parent.lease
      BY <1>0, <1>3 DEF ResumeRead, ResumeWrite, ParentRows, worker
    <2> QED
      BY <1>1, <2>1
  <1>4. ASSUME NEW c \in Children, ChildStep(c) \/ WakeParent(c) PROVE Owning'
    <2>1. pc' = pc /\ (parent' = parent \/ parent' = Woken)
      BY <1>4 DEF ChildStep, ChildClaimed, ChildAnswered, ChildGivesUp, ChildRequestLapses, CancelChild,
         ChildCheckedIn, WakeParent, worker
    <2>2. parent'.owner = parent.owner /\ parent'.lease = parent.lease
      BY <1>0, <2>1 DEF Woken, ParentRows
    <2> QED
      BY <1>1, <2>1, <2>2
  <1>5. ASSUME NEW w \in Workers, Claim(w) PROVE Owning'
    <2>1. parent.owner \notin Workers
      BY <1>0, <1>5 DEF Claim, Claimable, Alive
    <2>2. \A v \in Workers : pc[v] = "idle"
      BY <1>0, <2>1
    <2>3. parent'.owner = w /\ parent'.lease = "live" /\ \A v \in Workers \ {w} : pc'[v] = pc[v]
      BY <1>0, <1>5 DEF Claim, ParentRows
    <2> QED
      BY <2>2, <2>3 DEF Owning
  <1>6. ASSUME NEW w \in Workers, Heartbeat(w) PROVE Owning'
    <2>1. pc' = pc /\ parent'.owner = parent.owner /\ parent'.lease = "live"
      BY <1>0, <1>6 DEF Heartbeat, ParentRows, worker
    <2> QED
      BY <1>0, <2>1 DEF Owning
  <1>7. CASE LeaseLapses
    <2>1. pc' = pc /\ parent'.owner = parent.owner /\ parent.owner = "dead"
      BY <1>0, <1>7 DEF LeaseLapses, ParentRows, worker, Punctual
    <2> QED
      BY <1>0, <2>1 DEF Owning
  <1>8. CASE Crash
    <2>1. parent'.owner \in {None, "dead"} /\ \A w \in Workers : pc'[w] = "idle"
      BY <1>0, <1>8 DEF Crash, ParentRows
    <2> QED
      BY <1>0, <2>1 DEF Owning
  <1>9. ASSUME NEW w \in Workers, WorkerStep(w) PROVE Owning'
    <2>1. parent.owner = w /\ \A v \in Workers \ {w} : pc'[v] = "idle"
      BY <1>0, <1>9, InAStep, OneWorker
    <2>2. CASE Checkpoint(w)
      <3>1. parent'.owner = None /\ pc'[w] = "idle"
        BY <1>0, <2>1, <2>2 DEF Checkpoint, ParentRows
      <3> QED
        BY <1>0, <2>1, <3>1 DEF Owning
    <2>3. CASE parent' = parent
      BY <1>0, <2>1, <2>3 DEF Owning
    <2> QED
      BY <1>9, <2>2, <2>3, InAStep
  <1>10. CASE UNCHANGED vars
    BY <1>1, <1>10 DEF vars
  <1> QED
    BY <1>2, <1>3, <1>4, <1>5, <1>6, <1>7, <1>8, <1>9, <1>10 DEF Next

-----------------------------------------------------------------------------
(* Whose child a row is.  The strengthening, of the parent's state and of   *)
(* the copy of the worker that owns it: every child belongs to a task of    *)
(* the current plan, or to the plan before, and then it has ended or was    *)
(* asked to stop.  A child submitted by a step that was lost is one the     *)
(* state does not know yet.                                                 *)

There(row) == row.status # "absent"
Stopped(row) == row.cancel \/ row.status \in TERMINAL
Lineage(s, rows) ==
  \A c \in Children : There(rows[c]) =>
    /\ rows[c].label[1] => s.replanned
    /\ rows[c].label[1] = s.replanned =>
         /\ s.phase \notin {"plan", "replan"}
         /\ rows[c].label[2] \in TaskNames(s) /\ s.of[rows[c].label[2]] \in {None, c}
    /\ rows[c].label[1] # s.replanned => Stopped(rows[c])

\* The owner's copy is the parent's state, with the children found since.
Grown(w) ==
  /\ pc[w] \in Looking \cup {"begin"} =>
       /\ loc[w].replanned = parent.st.replanned /\ loc[w].phase = parent.st.phase
       /\ loc[w].plan = parent.st.plan
       /\ \A t \in Tasks : parent.st.of[t] # None => loc[w].of[t] = parent.st.of[t]
  /\ pc[w] \in Looking => loc[w].phase \in {"children", "model"}

\* A worker that gives a plan up has yet to stop whatever is at work.
Halting(w) ==
  pc[w] = "siblings" =>
    ~loc[w].replanned /\ \A c \in Children : There(child[c]) => Stopped(child[c]) \/ c \in todo[w]

\* A worker about to submit a task's child knows of none.
Fresh(w) == pc[w] = "submit" => \E t \in Tasks : todo[w] = {t} /\ Submitted(loc[w], t) = {}

Signed(w) == pc[w] = "commit" /\ out[w] = "succeeded" => loc[w].phase = "finalize"

Tracks(w) == Lineage(loc[w], child) /\ Grown(w) /\ Halting(w) /\ Fresh(w) /\ Signed(w)
Traced ==
  /\ OneChildPerTask /\ Lineage(parent.st, child)
  /\ \A w \in Workers : pc[w] # "idle" => Tracks(w)
  /\ parent.status = "succeeded" => parent.st.phase = "finalize"

\* No child is created, and each keeps its label.
NoBirth == \A c \in Children : child'[c].label = child[c].label /\ (There(child'[c]) <=> There(child[c]))

LEMMA BirthOrNot ==
  ASSUME Typed, [Next]_vars
  PROVE  NoBirth \/ \E w \in Workers, c \in Children : SubmitChild(w, c)
  <1> USE DEF NoBirth, There
  <1>0. child \in [Children -> ChildRows]
    BY DEF Typed, ChildTyped
  <1>1. ASSUME NEW row \in ChildRows, NEW owned
        PROVE  /\ Stopping(row, owned).label = row.label
               /\ Stopping(row, owned).status = "absent" <=> row.status = "absent"
    BY DEF Stopping, ChildRows, TERMINAL
  <1>2. CASE child' = child
    BY <1>2
  <1>3. CASE CancelParent
    <2>1. \A c \in Children : child'[c] = Stopping(child[c], Owned(c))
      BY <1>3 DEF CancelParent, StoppedChildren
    <2> QED
      BY <1>0, <1>1, <2>1
  <1>4. ASSUME NEW c \in Children, ChildMove(c) PROVE NoBirth
    <2>1. ASSUME NEW status, status # "absent", child[c].status # "absent",
                 child' = [child EXCEPT ![c].status = status]
          PROVE  NoBirth
      BY <1>0, <2>1 DEF ChildRows
    <2>2. CASE ChildClaimed(c) \/ ChildAnswered(c) \/ ChildGivesUp(c)
      BY <2>1, <2>2 DEF ChildClaimed, ChildAnswered, ChildGivesUp, WAITING
    <2>3. ASSUME NEW status \in {"queued"} \cup WAITING \cup TERMINAL, ChildCheckedIn(c, status) PROVE NoBirth
      BY <2>1, <2>3 DEF ChildCheckedIn, WAITING, TERMINAL
    <2>4. CASE child' = [child EXCEPT ![c] = Stopping(@, Owned(c))]
      <3>1. child'[c] = Stopping(child[c], Owned(c)) /\ \A d \in Children \ {c} : child'[d] = child[d]
        BY <1>0, <2>4
      <3>2. child[c] \in ChildRows
        BY <1>0
      <3> QED
        BY <1>1, <3>1, <3>2
    <2> QED
      BY <1>4, <2>2, <2>3, <2>4 DEF ChildMove, CancelChild, CancelSibling
  <1> QED
    BY <1>2, <1>3, <1>4, Cases

LEMMA StoppedStays ==
  ASSUME ChildrenKept, NEW c \in Children, There(child[c]), Stopped(child[c])
  PROVE  Stopped(child'[c])
  BY DEF ChildrenKept, Kept, There, Stopped, Ended

LEMMA LineageStays ==
  ASSUME ChildrenKept, NoBirth, NEW s, Lineage(s, child)
  PROVE  Lineage(s, child')
  BY StoppedStays DEF Lineage, NoBirth

LEMMA LabelsStay ==
  ASSUME NoBirth
  PROVE  /\ OneChildPerTask => OneChildPerTask'
         /\ \A s \in States, t \in Tasks : Submitted(s, t)' = Submitted(s, t)
  <1>1. \A c \in Children : child'[c].label = child[c].label /\ (Exists(c)' <=> Exists(c))
    BY DEF NoBirth, There, Exists
  <1> QED
    BY <1>1 DEF OneChildPerTask, Submitted

\* A state with the same plan and the same children of it.
LEMMA SameLineage ==
  ASSUME NEW s, NEW n, Lineage(s, child), n.replanned = s.replanned, n.plan = s.plan, n.of = s.of,
         n.phase = s.phase \/ n.phase \notin {"plan", "replan"}
  PROVE  Lineage(n, child)
  BY DEF Lineage, TaskNames

\* A plan given up: all it left has ended or was asked to stop.
LEMMA ReplanLineage ==
  ASSUME NEW s \in States, Lineage(s, child), ~s.replanned,
         \A c \in Children : There(child[c]) => Stopped(child[c])
  PROVE  Lineage(Replan(s), child)
  <1>1. Replan(s).replanned = TRUE /\ Replan(s).phase = "replan"
    BY DEF Replan, States
  <1> QED
    BY <1>1 DEF Lineage

\* At the summary the children of the plan have succeeded.
LEMMA AllStopped ==
  ASSUME NEW s, Lineage(s, child), InOrder(s, child), s.phase \in {"verify", "finalize"}
  PROVE  \A c \in Children : There(child[c]) => Stopped(child[c])
  <1> SUFFICES ASSUME NEW c \in Children, There(child[c]), child[c].label[1] = s.replanned
               PROVE  Stopped(child[c])
    BY DEF Lineage
  <1>1. child[c].label[2] \in TaskNames(s) /\ s.of[child[c].label[2]] \in {None, c}
    BY DEF Lineage
  <1>2. s.of[child[c].label[2]] = c /\ child[c].status = "succeeded"
    BY <1>1 DEF InOrder, Achieved
  <1> QED
    BY <1>2 DEF Stopped, TERMINAL

\* A step ends with a copy to check in.
LEMMA FinishTracks ==
  ASSUME Typed, ChildrenKept, NoBirth, NEW w \in Workers, NEW n, NEW status, Finish(w, n, status),
         Lineage(n, child), status = "succeeded" => n.phase = "finalize"
  PROVE  Tracks(w)'
  <1>1. loc'[w] = n /\ pc'[w] = "commit" /\ out'[w] = status
    BY DEF Finish, Typed, WorkerTyped
  <1>2. Lineage(n, child')
    BY LineageStays
  <1> QED
    BY <1>1, <1>2 DEF Tracks, Grown, Halting, Fresh, Signed, Looking

\* A due task's child is found, or born: the copy knows of it from now on.
LEMMA WithChildLineage ==
  ASSUME NEW s \in States, NEW t \in TaskNames(s), s.of[t] = None, NEW c \in Children, NEW rows,
         s.phase \notin {"plan", "replan"},
         \A d \in Children \ {c} : There(rows[d]) /\ rows[d].label[1] = s.replanned => rows[d].label[2] # t,
         rows[c].label = Label(s, t),
         \A d \in Children \ {c} : rows[d] = child[d],
         Lineage(s, child)
  PROVE  Lineage([s EXCEPT !.of[t] = c], rows)
  <1> DEFINE n == [s EXCEPT !.of[t] = c]
  <1>1. /\ TaskNames(n) = TaskNames(s) /\ n.replanned = s.replanned /\ n.phase = s.phase
        /\ \A x \in Tasks : n.of[x] = IF x = t THEN c ELSE s.of[x]
        /\ TaskNames(s) \subseteq Tasks
    BY StateFacts DEF States, TaskNames
  <1>2. rows[c].label[1] = s.replanned /\ rows[c].label[2] = t
    BY DEF Label
  <1> HIDE DEF n
  <1>3. s.replanned \in BOOLEAN
    BY DEF States
  <1> SUFFICES ASSUME NEW d \in Children, There(rows[d])
               PROVE  /\ rows[d].label[1] => n.replanned
                      /\ rows[d].label[1] = n.replanned =>
                           /\ n.phase \notin {"plan", "replan"}
                           /\ rows[d].label[2] \in TaskNames(n) /\ n.of[rows[d].label[2]] \in {None, d}
                      /\ rows[d].label[1] # n.replanned => Stopped(rows[d])
    BY DEF n, Lineage
  <1>4. CASE d = c
    BY <1>1, <1>2, <1>4
  <1>5. CASE d # c
    <2>1. rows[d] = child[d]
      BY <1>5
    <2> QED
      BY <1>1, <1>5, <2>1 DEF Lineage
  <1> QED
    BY <1>4, <1>5

LEMMA LabelPair ==
  ASSUME NEW l \in Labels \cup {<<FALSE, None>>}
  PROVE  l = <<l[1], l[2]>>
  <1>1. CASE l \in Labels
    BY <1>1 DEF Labels
  <1>2. CASE l = <<FALSE, None>>
    BY <1>2
  <1> QED
    BY <1>1, <1>2

LEMMA StepTracks ==
  ASSUME Typed, Ordered, ChildrenKept, NEW w \in Workers, WorkerStep(w), ~Checkpoint(w), OneChildPerTask,
         NoBirth, Tracks(w), parent' = parent
  PROVE  Tracks(w)'
  <1> DEFINE s == loc[w]
  <1> USE DEF Typed
  <1>1. /\ s \in States /\ TaskNames(s) \subseteq Tasks /\ s.of \in [Tasks -> Children \cup {None}]
        /\ Lineage(s, child) /\ InOrder(s, child)
    BY StateFacts DEF WorkerTyped, Tracks, Ordered, Sound
  <1>2. ASSUME NEW n \in States, NEW status, Finish(w, n, status),
               n.replanned = s.replanned, n.plan = s.plan, n.of = s.of,
               n.phase = s.phase \/ n.phase \notin {"plan", "replan"},
               status = "succeeded" => n.phase = "finalize"
        PROVE  Tracks(w)'
    BY <1>1, <1>2, SameLineage, FinishTracks
  <1>3. CASE Stop(w) \/ Blocked(w) \/ Finalize(w)
    BY <1>1, <1>2, <1>3 DEF Stop, Blocked, Finalize
  <1>4. CASE Plan(w)
    <2>1. PICK p \in Plans :
            Finish(w, [s EXCEPT !.phase = "children", !.plan = p, !.of = NoChildren], "queued")
      BY <1>4 DEF Plan
    <2> DEFINE n == [s EXCEPT !.phase = "children", !.plan = p, !.of = NoChildren]
    <2>2. n.replanned = s.replanned /\ s.phase \in {"plan", "replan"}
      BY <1>1, <1>4 DEF Plan, States
    <2> HIDE DEF n
    <2>3. Lineage(n, child)
      BY <1>1, <2>2 DEF Lineage
    <2> QED
      BY <2>1, <2>3, FinishTracks DEF n
  <1>5. CASE Verify(w)
    <2>1. \A phase \in {"finalize", "model"} :
            LET n == [s EXCEPT !.phase = phase] IN
            /\ n \in States /\ n.plan = s.plan /\ n.of = s.of /\ n.phase = phase
            /\ n.replanned = s.replanned
      BY <1>1 DEF States
    <2>2. ASSUME ~s.replanned, Finish(w, Replan(s), "queued") PROVE Tracks(w)'
      <3>1. Lineage(Replan(s), child)
        BY <1>1, <1>5, <2>2, AllStopped, ReplanLineage DEF Verify
      <3> QED
        BY <2>2, <3>1, FinishTracks
    <2> QED
      BY <1>2, <1>5, <2>1, <2>2 DEF Verify
  <1>6. CASE GiveUpPlan(w)
    <2>1. ~s.replanned /\ \A c \in Children : There(child[c]) => Stopped(child[c])
      BY <1>6 DEF GiveUpPlan, SiblingsToStop, Tracks, Halting
    <2>2. Lineage(Replan(s), child)
      BY <1>1, <2>1, ReplanLineage
    <2> QED
      BY <1>6, <2>2, FinishTracks DEF GiveUpPlan
  <1>7. CASE BeginLook(w)
    <2> DEFINE n == [s EXCEPT !.waitingOn = None]
    <2>1. n.plan = s.plan /\ n.of = s.of /\ n.phase = s.phase /\ n.replanned = s.replanned
      BY <1>1 DEF States
    <2>2. /\ pc'[w] = "look" /\ loc'[w] = n /\ pc[w] = "begin" /\ s.phase \in {"children", "model"}
      BY <1>7 DEF BeginLook, WorkerTyped
    <2> HIDE DEF n
    <2>3. Lineage(n, child')
      BY <1>1, <2>1, SameLineage, LineageStays
    <2> QED
      BY <2>1, <2>2, <2>3 DEF Tracks, Grown, Halting, Fresh, Signed, Looking
  <1>8. ASSUME NEW place \in Looking, pc'[w] = place, pc[w] \in Looking, loc'[w] = loc[w],
               place # "siblings", place # "submit"
        PROVE  Tracks(w)'
    <2>1. Lineage(s, child')
      BY <1>1, LineageStays
    <2> QED
      BY <1>8, <2>1 DEF Tracks, Grown, Halting, Fresh, Signed, Looking
  <1>9. CASE LookedAtAll(w)
    BY <1>8, <1>9 DEF LookedAtAll, WorkerTyped, Looking
  <1>10. ASSUME NEW t \in Tasks, Look(w, t) PROVE Tracks(w)'
    <2>1. pc[w] = "look" /\ child' = child
      BY <1>10 DEF Look, Others
    <2>2. CASE Finish(w, s, "paused")
      BY <1>1, <1>2, <2>2
    <2>3. CASE UNCHANGED <<pc, loc, todo, out>>
      BY <1>8, <2>1, <2>3 DEF Looking
    <2>4. CASE /\ todo' = [todo EXCEPT ![w] = {c \in Children : Exists(c) /\ child[c].status \notin TERMINAL}]
               /\ pc' = [pc EXCEPT ![w] = "siblings"]
               /\ UNCHANGED <<seen, loc, out>> /\ ~s.replanned
      <3>1. /\ pc'[w] = "siblings" /\ loc'[w] = s
            /\ todo'[w] = {c \in Children : Exists(c) /\ child[c].status \notin TERMINAL}
        BY <2>4 DEF WorkerTyped
      <3>2. \A c \in Children : There(child[c]) => Stopped(child[c]) \/ c \in todo'[w]
        BY <3>1 DEF There, Stopped, Exists
      <3>3. Lineage(s, child')
        BY <1>1, LineageStays
      <3> QED
        BY <2>1, <2>4, <3>1, <3>2, <3>3 DEF Tracks, Grown, Halting, Fresh, Signed, Looking
    <2> QED
      BY <1>10, <2>2, <2>3, <2>4 DEF Look
  <1>11. ASSUME NEW t \in Tasks, FindChild(w, t) PROVE Tracks(w)'
    <2>1. t \in TaskNames(s) /\ s.of[t] = None /\ pc[w] = "spawn" /\ child' = child
      BY <1>11 DEF FindChild, Due, Others
    <2>2. CASE /\ Submitted(s, t) = {}
               /\ pc' = [pc EXCEPT ![w] = "submit"] /\ todo' = [todo EXCEPT ![w] = {t}] /\ loc' = loc
      <3>1. pc'[w] = "submit" /\ todo'[w] = {t} /\ loc'[w] = s
        BY <2>2 DEF WorkerTyped
      <3>2. Submitted(loc[w], t)' = {}
        BY <2>1, <2>2 DEF Submitted, Exists
      <3>3. Lineage(s, child')
        BY <1>1, LineageStays
      <3> QED
        BY <2>1, <3>1, <3>2, <3>3 DEF Tracks, Grown, Halting, Fresh, Signed, Looking
    <2>3. ASSUME NEW c \in Submitted(s, t), loc' = [loc EXCEPT ![w].of[t] = c], pc' = pc PROVE Tracks(w)'
      <3> DEFINE n == [s EXCEPT !.of[t] = c]
      <3>1. c \in Children /\ There(child[c]) /\ child[c].label = Label(s, t)
        BY DEF Submitted, Exists, There
      <3>2. /\ loc'[w] = n /\ n.replanned = s.replanned /\ n.phase = s.phase /\ n.plan = s.plan
            /\ \A x \in Tasks : n.of[x] = IF x = t THEN c ELSE s.of[x]
        BY <1>1, <2>3 DEF WorkerTyped, States
      <3>3. s.phase \in {"children", "model"} /\ parent.st.of[t] \in {None}
        BY <1>1, <2>1 DEF Tracks, Grown, Looking
      <3>4. \A d \in Children \ {c} :
              There(child[d]) /\ child[d].label[1] = s.replanned => child[d].label[2] # t
        <4>1. child[c].label[1] = s.replanned /\ child[c].label[2] = t
          BY <3>1 DEF Label
        <4>2. \A d \in Children : There(child[d]) /\ child[d].label[1] = s.replanned /\ child[d].label[2] = t
                => child[d].label = Label(s, t)
          BY LabelPair DEF ChildTyped, ChildRows, Label
        <4> QED
          BY <3>1, <4>2 DEF OneChildPerTask, Exists, There
      <3>5. Lineage(n, child)
        BY <1>1, <2>1, <3>1, <3>3, <3>4, WithChildLineage
      <3> HIDE DEF n
      <3>6. Lineage(n, child')
        BY <3>5, LineageStays
      <3> QED
        BY <1>1, <2>1, <2>3, <3>2, <3>3, <3>6 DEF Tracks, Grown, Halting, Fresh, Signed, Looking
    <2> QED
      BY <1>11, <2>2, <2>3 DEF FindChild
  <1>12. ASSUME NEW c \in Children, CancelSibling(w, c) PROVE Tracks(w)'
    <2>1. /\ pc'[w] = "siblings" /\ loc'[w] = s /\ pc[w] = "siblings" /\ todo'[w] = todo[w] \ {c}
          /\ child' = [child EXCEPT ![c] = Stopping(@, Owned(c))]
      BY <1>12 DEF CancelSibling, WorkerTyped
    <2>2. ASSUME There(child[c]) PROVE Stopped(child'[c])
      BY <2>1, <2>2 DEF ChildTyped, ChildRows, Stopping, Stopped, There
    <2>3. \A d \in Children : There(child'[d]) => Stopped(child'[d]) \/ d \in todo'[w]
      BY <2>1, <2>2, StoppedStays DEF NoBirth, Tracks, Halting
    <2>4. Lineage(s, child')
      BY <1>1, LineageStays
    <2> QED
      BY <2>1, <2>3, <2>4 DEF Tracks, Grown, Halting, Fresh, Signed, Looking
  <1>13. CASE EndLook(w)
    <2>1. ASSUME NEW t \in TaskNames(s), seen[w][t] \in WAITING,
                 Finish(w, [s EXCEPT !.waitingOn = Awaited(s, t)], seen[w][t])
          PROVE  Tracks(w)'
      <3>1. LET n == [s EXCEPT !.waitingOn = Awaited(s, t)] IN
            n \in States /\ n.plan = s.plan /\ n.of = s.of /\ n.phase = s.phase /\ n.replanned = s.replanned
        BY <1>1 DEF States, Awaited
      <3> QED
        BY <1>2, <2>1, <3>1 DEF WAITING
    <2>2. CASE Finish(w, s, "queued")
      BY <1>1, <1>2, <2>2
    <2>3. CASE Finish(w, [s EXCEPT !.phase = "verify"], "queued")
      <3>1. LET n == [s EXCEPT !.phase = "verify"] IN
            n \in States /\ n.plan = s.plan /\ n.of = s.of /\ n.phase = "verify" /\ n.replanned = s.replanned
        BY <1>1 DEF States
      <3> QED
        BY <1>2, <2>3, <3>1
    <2> QED
      BY <1>13, <2>1, <2>2, <2>3 DEF EndLook
  <1>14. ASSUME NEW c \in Children, SubmitChild(w, c) PROVE FALSE
    <2>1. child[c].status = "absent"
      BY <1>14 DEF SubmitChild, NoChild
    <2>2. PICK t \in todo[w] :
            child' = [child EXCEPT ![c].status = "queued", ![c].label = Label(loc[w], t)]
      BY <1>14 DEF SubmitChild
    <2>3. child'[c].status = "queued"
      BY <2>2 DEF ChildTyped, ChildRows
    <2> QED
      BY <2>1, <2>3 DEF NoBirth, There
  <1> QED
    BY <1>3, <1>4, <1>5, <1>6, <1>7, <1>9, <1>10, <1>11, <1>12, <1>13, <1>14
    DEF WorkerStep

\* A child is born: of the owner's plan, for a task that had none.
LEMMA BirthTracks ==
  ASSUME Punctual, Typed, Alive, Owning, Ordered, Traced, NEW w \in Workers, NEW c \in Children,
         SubmitChild(w, c)
  PROVE  /\ OneChildPerTask' /\ Lineage(parent.st, child') /\ Tracks(w)'
         /\ parent' = parent /\ \A v \in Workers \ {w} : pc'[v] = "idle"
  <1> DEFINE s == loc[w]
  <1> USE DEF Typed
  <1>1. /\ pc[w] = "submit" /\ child[c].status = "absent" /\ parent' = parent /\ Tracks(w)
        /\ pc'[w] = "spawn" /\ seen' = seen
    BY DEF SubmitChild, NoChild, Traced, WorkerTyped
  <1>2. PICK t \in Tasks : todo[w] = {t} /\ Submitted(s, t) = {}
    BY <1>1 DEF Tracks, Fresh
  <1>3. /\ child' = [child EXCEPT ![c].status = "queued", ![c].label = Label(s, t)]
        /\ loc' = [loc EXCEPT ![w].of[t] = c]
    BY <1>2 DEF SubmitChild
  <1>4. /\ s \in States /\ TaskNames(s) \subseteq Tasks /\ s.of \in [Tasks -> Children \cup {None}]
        /\ Lineage(s, child) /\ parent.st \in States
    BY <1>1, StateFacts DEF WorkerTyped, Tracks, ParentRows
  <1>5. t \in TaskNames(s) /\ s.of[t] = None
    BY <1>1, <1>2 DEF Ordered, Sound, SubmitDue, Due
  <1>6. /\ child'[c].label = Label(s, t) /\ child'[c].status = "queued"
        /\ \A d \in Children \ {c} : child'[d] = child[d]
    BY <1>3 DEF ChildTyped, ChildRows
  <1>7. \A d \in Children \ {c} : There(child[d]) => child[d].label # Label(s, t)
    BY <1>2 DEF Submitted, Exists, There
  <1>8. OneChildPerTask'
    <2> SUFFICES ASSUME NEW d \in Children, NEW e \in Children, There(child'[d]), There(child'[e]),
                        child'[d].label = child'[e].label
                 PROVE  d = e
      BY DEF OneChildPerTask, Exists, There
    <2> QED
      BY <1>6, <1>7 DEF Traced, OneChildPerTask, Exists, There
  <1>9. \A d \in Children \ {c} : There(child'[d]) /\ child'[d].label[1] = s.replanned => child'[d].label[2] # t
    <2>1. \A d \in Children : There(child[d]) /\ child[d].label[1] = s.replanned /\ child[d].label[2] = t
            => child[d].label = Label(s, t)
      BY LabelPair DEF ChildTyped, ChildRows, Label
    <2> QED
      BY <1>6, <1>7, <2>1
  <1>10. /\ s.phase \in {"children", "model"} /\ parent.st.of[t] = None
         /\ parent.st.replanned = s.replanned /\ parent.st.phase = s.phase /\ parent.st.plan = s.plan
    BY <1>1, <1>4, <1>5 DEF Tracks, Grown, Looking
  <1> DEFINE n == [s EXCEPT !.of[t] = c]
  <1>11. Lineage(n, child')
    BY <1>4, <1>5, <1>6, <1>9, <1>10, WithChildLineage
  <1>12. /\ loc'[w] = n /\ n.replanned = s.replanned /\ n.phase = s.phase /\ n.plan = s.plan
         /\ \A x \in Tasks : n.of[x] = IF x = t THEN c ELSE s.of[x]
    BY <1>3, <1>4, <1>5 DEF WorkerTyped, States
  <1> HIDE DEF n
  <1>13. Tracks(w)'
    BY <1>1, <1>4, <1>5, <1>10, <1>11, <1>12 DEF Tracks, Grown, Halting, Fresh, Signed, Looking
  <1>14. Lineage(parent.st, child')
    <2> SUFFICES ASSUME NEW d \in Children, There(child'[d])
                 PROVE  /\ child'[d].label[1] => parent.st.replanned
                        /\ child'[d].label[1] = parent.st.replanned =>
                             /\ parent.st.phase \notin {"plan", "replan"}
                             /\ child'[d].label[2] \in TaskNames(parent.st)
                             /\ parent.st.of[child'[d].label[2]] \in {None, d}
                        /\ child'[d].label[1] # parent.st.replanned => Stopped(child'[d])
      BY DEF Lineage
    <2>1. CASE d = c
      <3>1. child'[d].label[1] = s.replanned /\ child'[d].label[2] = t
        BY <1>6, <2>1 DEF Label
      <3> QED
        BY <1>5, <1>10, <2>1, <3>1 DEF TaskNames
    <2>2. CASE d # c
      BY <1>6, <2>2 DEF Traced, Lineage
    <2> QED
      BY <2>1, <2>2
  <1>15. \A v \in Workers \ {w} : pc'[v] = "idle"
    <2>1. WorkerStep(w)
      BY DEF WorkerStep
    <2> QED
      BY <1>1, <2>1, OneWorker DEF Owning
  <1> QED
    BY <1>1, <1>8, <1>13, <1>14, <1>15

LEMMA TracedInit == Init => Traced
  <1> SUFFICES ASSUME Init PROVE Traced
    OBVIOUS
  <1>1. /\ \A c \in Children : child[c].status = "absent"
        /\ parent.status = "queued" /\ \A w \in Workers : pc[w] = "idle"
    BY DEF Init, NoChild
  <1> QED
    BY <1>1 DEF Traced, OneChildPerTask, Exists, Lineage, There

LEMMA TracedNext ==
  ASSUME Punctual, Typed, Alive, Owning, Ordered, Traced, [Next]_vars
  PROVE  Traced'
  <1> USE DEF Typed
  <1>0. /\ ChildrenKept /\ ParentKept /\ parent \in ParentRows /\ parent.st \in States
        /\ pc \in [Workers -> Places]
    BY ChildrenTyped, ParentTyped DEF ParentRows, WorkerTyped
  <1>1. ASSUME NEW w \in Workers, NEW c \in Children, SubmitChild(w, c) PROVE Traced'
    <2>1. /\ OneChildPerTask' /\ Lineage(parent.st, child') /\ Tracks(w)'
          /\ parent' = parent /\ \A v \in Workers \ {w} : pc'[v] = "idle"
      BY <1>1, BirthTracks
    <2> QED
      BY <2>1 DEF Traced
  <1>2. CASE NoBirth
    <2>1. OneChildPerTask' /\ Lineage(parent.st, child')
      BY <1>0, <1>2, LabelsStay, LineageStays DEF Traced
    <2>2. ASSUME NEW w \in Workers, pc[w] # "idle", UNCHANGED worker, parent'.st = parent.st PROVE Tracks(w)'
      <3>1. Tracks(w) /\ loc[w] \in States
        BY <2>2 DEF Traced, WorkerTyped
      <3>2. Lineage(loc[w], child')
        BY <1>0, <1>2, <3>1, LineageStays DEF Tracks
      <3>3. Halting(w)'
        BY <1>0, <1>2, <2>2, <3>1, StoppedStays DEF Tracks, Halting, NoBirth, worker
      <3>4. Fresh(w)'
        <4>1. ASSUME NEW t \in Tasks PROVE Submitted(loc[w], t)' = Submitted(loc[w], t)
          BY <1>2, <2>2 DEF Submitted, Exists, NoBirth, There, worker
        <4> QED
          BY <2>2, <3>1, <4>1 DEF Tracks, Fresh, worker
      <3> QED
        BY <2>2, <3>1, <3>2, <3>3, <3>4 DEF Tracks, Grown, Signed, worker
    <2>3. ASSUME UNCHANGED worker, parent'.st = parent.st,
                 parent'.status = "succeeded" => parent.status = "succeeded"
          PROVE  Traced'
      <3>1. \A w \in Workers : pc'[w] # "idle" => pc[w] # "idle"
        BY <2>3 DEF worker
      <3> QED
        BY <2>1, <2>2, <2>3, <3>1 DEF Traced
    <2>4. CASE CancelParent
      <3>1. UNCHANGED worker /\ parent'.st = parent.st
            /\ (parent'.status = "succeeded" => parent.status = "succeeded")
        BY <1>0, <2>4 DEF CancelParent, Stopping, ParentRows
      <3> QED
        BY <2>3, <3>1
    <2>5. CASE ResumeRead \/ ResumeWrite
      <3>1. UNCHANGED worker /\ parent'.st = parent.st
            /\ (parent'.status = "succeeded" => parent.status = "succeeded")
        BY <1>0, <2>5 DEF ResumeRead, ResumeWrite, ParentRows
      <3> QED
        BY <2>3, <3>1
    <2>6. ASSUME NEW c \in Children, ChildStep(c) \/ WakeParent(c) PROVE Traced'
      <3>1. UNCHANGED worker /\ (parent' = parent \/ parent' = Woken)
        BY <2>6 DEF ChildStep, ChildClaimed, ChildAnswered, ChildGivesUp, ChildRequestLapses, CancelChild,
           ChildCheckedIn, WakeParent
      <3>2. parent'.st = parent.st /\ (parent'.status = "succeeded" => parent.status = "succeeded")
        BY <1>0, <3>1 DEF Woken, ParentRows
      <3> QED
        BY <2>3, <3>1, <3>2
    <2>7. CASE LeaseLapses \/ \E w \in Workers : Heartbeat(w)
      <3>1. UNCHANGED worker /\ parent'.st = parent.st /\ parent'.status = parent.status
        BY <1>0, <2>7 DEF LeaseLapses, Heartbeat, ParentRows
      <3> QED
        BY <2>3, <3>1
    <2>8. CASE Crash
      <3>1. /\ \A w \in Workers : pc'[w] = "idle"
            /\ parent'.st = parent.st /\ parent'.status = parent.status
        BY <1>0, <2>8 DEF Crash, ParentRows
      <3> QED
        BY <2>1, <3>1 DEF Traced
    <2>9. ASSUME NEW w \in Workers, Claim(w) PROVE Traced'
      <3>1. /\ pc'[w] = "begin" /\ loc'[w] = parent.st /\ parent'.st = parent.st
            /\ parent'.status = "running" /\ parent'.owner = w
        BY <1>0, <2>9 DEF Claim, ParentRows, WorkerTyped
      <3>2. \A v \in Workers \ {w} : pc'[v] = "idle"
        <4>1. Owning'
          BY OwningNext
        <4> QED
          BY <3>1, <4>1 DEF Owning
      <3>3. Tracks(w)'
        BY <2>1, <3>1 DEF Tracks, Grown, Halting, Fresh, Signed, Looking
      <3> QED
        BY <2>1, <3>1, <3>2, <3>3 DEF Traced
    <2>10. ASSUME NEW w \in Workers, WorkerStep(w), ~Checkpoint(w) PROVE Traced'
      <3>1. /\ pc[w] # "idle" /\ parent' = parent /\ Tracks(w)
        BY <2>10, InAStep DEF Traced
      <3>2. \A v \in Workers \ {w} : pc'[v] = "idle"
        BY <2>10, <3>1, OneWorker DEF Owning
      <3>3. Tracks(w)'
        BY <1>0, <1>2, <2>10, <3>1, StepTracks DEF Traced
      <3> QED
        BY <2>1, <3>1, <3>2, <3>3 DEF Traced
    <2>11. ASSUME NEW w \in Workers, Checkpoint(w) PROVE Traced'
      <3>1. /\ pc[w] = "commit" /\ parent.owner = w /\ pc'[w] = "idle" /\ Tracks(w)
        BY <2>11 DEF Checkpoint, Owning, Traced, WorkerTyped
      <3>2. \A v \in Workers : pc'[v] = "idle"
        <4>1. WorkerStep(w)
          BY <2>11 DEF WorkerStep
        <4> QED
          BY <3>1, <4>1, OneWorker DEF Owning
      <3>3. /\ parent'.st = loc[w]
            /\ parent'.status = (IF parent.cancel THEN "cancelled" ELSE out[w])
        BY <1>0, <2>11, <3>1 DEF Checkpoint, ParentRows
      <3>4. parent'.status = "succeeded" => parent'.st.phase = "finalize"
        BY <3>1, <3>3 DEF Tracks, Signed
      <3>5. Lineage(loc[w], child')
        BY <1>0, <1>2, <3>1, LineageStays DEF Tracks
      <3> QED
        BY <2>1, <3>2, <3>3, <3>4, <3>5 DEF Traced
    <2>12. CASE UNCHANGED vars
      BY <2>3, <2>12 DEF vars, worker
    <2> QED
      BY <2>4, <2>5, <2>6, <2>7, <2>8, <2>9, <2>10, <2>11, <2>12 DEF Next
  <1> QED
    BY <1>1, <1>2, BirthOrNot

\* Where no heartbeat comes late, no task is carried out twice: whichever step was
\* lost in a crash, the child it submitted is found (children(), task_id).
THEOREM TasksHaveOneChild == Punctual => (Spec => []OneChildPerTask)
  <1> SUFFICES ASSUME Punctual PROVE Spec => []OneChildPerTask
    OBVIOUS
  <1> DEFINE Inv == Typed /\ Alive /\ Owning /\ Ordered /\ Traced
  <1>0. Punctual
    OBVIOUS
  <1>1. Init => Inv
    <2>1. Init => Owning
      BY ConstantsAssumption DEF Init, Owning, None
    <2> QED
      BY <2>1, InitTyped, AliveInit, OrderedInit, TracedInit
  <1>2. Inv /\ [Next]_vars => Inv'
    BY <1>0, TypedNext, AliveNext, OwningNext, OrderedNext, TracedNext
  <1>3. Inv => OneChildPerTask
    BY DEF Traced
  <1> QED
    BY <1>1, <1>2, <1>3, PTL DEF Spec

\* Where no heartbeat comes late, a parent that succeeded leaves no child at work
\* that nobody asked to stop, of the plan it gave up as little as of the one it
\* carried out, whatever steps a crash undid (_coordinate()).
THEOREM NobodyIsLeftBehind == Punctual => (Spec => []NoChildOutlivesParent)
  <1> SUFFICES ASSUME Punctual PROVE Spec => []NoChildOutlivesParent
    OBVIOUS
  <1> DEFINE Inv == Typed /\ Alive /\ Owning /\ Ordered /\ Traced
  <1>0. Punctual
    OBVIOUS
  <1>1. Init => Inv
    <2>1. Init => Owning
      BY ConstantsAssumption DEF Init, Owning, None
    <2> QED
      BY <2>1, InitTyped, AliveInit, OrderedInit, TracedInit
  <1>2. Inv /\ [Next]_vars => Inv'
    BY <1>0, TypedNext, AliveNext, OwningNext, OrderedNext, TracedNext
  <1>3. Inv => NoChildOutlivesParent
    <2> SUFFICES ASSUME Ordered, Traced, parent.status = "succeeded", NEW c \in Children, There(child[c])
                 PROVE  child[c].cancel \/ AtRest(c)
      BY DEF NoChildOutlivesParent, AtRest, There
    <2>1. Stopped(child[c])
      BY AllStopped DEF Ordered, Traced
    <2> QED
      BY <2>1 DEF Stopped, AtRest
  <1> QED
    BY <1>1, <1>2, <1>3, PTL DEF Spec
=============================================================================
