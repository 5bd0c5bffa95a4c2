------------------------- MODULE ResultPublication --------------------------
(***************************************************************************)
(* What becomes of the result of a root run: _publish() and _notify() of   *)
(* services/agent_runs.py, and the conversation it belongs to              *)
(* (ConversationStore, storage/tenants.py).  The worker that finished the  *)
(* run, the background loop and whoever waits for the run all publish it.  *)
(***************************************************************************)
EXTENDS Naturals, FiniteSets

CONSTANTS
  Results,      \* runs of one conversation
  Publishers,   \* threads that publish at the same time
  Notes,        \* notifications delivered into the conversation
  MaxLosses     \* bound: stops of the process, and notices that could not be queued

VARIABLES
  result,        \* of each run: none, submitting, running, succeeded, failed
  history,       \* the context each run was submitted with
  context,       \* conversation_context_messages: what the model is shown
  transcript,    \* conversation_events: runs and notes, each time they were written
  publications,  \* agent_run_publications
  scheduled,     \* runs whose record in organization_schedule_runs is still open
  extracted,     \* how often the memory of a run was asked for
  publisher,     \* what each thread publishes, and how far it is
  subscribed,    \* agent_run_subscriptions
  notice,        \* the notice of a run's end: none, queued in the outbox, and noted so
  losses

publicationVars == <<result, history, context, transcript, publications, scheduled, extracted,
                     publisher, subscribed, notice, losses>>
conversation == <<context, transcript>>

Terminal == {"succeeded", "failed"}
Items == Results \cup Notes
Free == [at |-> "idle", run |-> CHOOSE r \in Results : TRUE]

Init ==
  /\ result = [r \in Results |-> "none"]
  /\ history = [r \in Results |-> {}]
  /\ context = {} /\ transcript = [i \in Items |-> 0]
  /\ publications = {} /\ scheduled = {}
  /\ extracted = [r \in Results |-> 0]
  /\ publisher = [p \in Publishers |-> Free]
  /\ subscribed = {} /\ notice = [r \in Results |-> "none"]
  /\ losses = 0

\* submit() reads the conversation ...
ReadHistory(r) ==
  /\ result[r] = "none"
  /\ result' = [result EXCEPT ![r] = "submitting"]
  /\ history' = [history EXCEPT ![r] = context]
  /\ UNCHANGED <<conversation, publications, scheduled, extracted, publisher, subscribed, notice, losses>>

\* ... before the run is created, one at a time in a conversation.
Submit(r) ==
  /\ result[r] = "submitting" /\ \A q \in Results : result[q] # "running"
  /\ result' = [result EXCEPT ![r] = "running"]
  /\ \E S \in SUBSET {r} : scheduled' = scheduled \cup S
  /\ UNCHANGED <<history, conversation, publications, extracted, publisher, subscribed, notice, losses>>

\* checkpoint() with a terminal status; the worker goes on to publish, or is stopped.
Finish(r) ==
  /\ result[r] = "running"
  /\ \E s \in Terminal : result' = [result EXCEPT ![r] = s]
  /\ UNCHANGED <<history, conversation, publications, scheduled, extracted, publisher, subscribed, notice, losses>>

-----------------------------------------------------------------------------
(* _publish(), step by step.                                                 *)

\* The worker at the end of advance(), the loop over unpublished(), wait().
Unpublished(r) == result[r] \in Terminal /\ r \notin publications
Begin(p, r) ==
  /\ publisher[p].at = "idle" /\ Unpublished(r)
  /\ publisher' = [publisher EXCEPT ![p] = [at |-> "close", run |-> r]]
  /\ UNCHANGED <<result, history, conversation, publications, scheduled, extracted, subscribed, notice, losses>>

CloseScheduleRun(p) ==
  /\ publisher[p].at = "close"
  /\ scheduled' = scheduled \ {publisher[p].run}
  /\ publisher' = [publisher EXCEPT ![p].at = "save"]
  /\ UNCHANGED <<result, history, conversation, publications, extracted, subscribed, notice, losses>>

NewlyAnyway(r) == TRUE                                                     \* mutant
Newly(r) == r \notin publications

\* save_agent_result(): in one transaction the publication is claimed, the context
\* replaced by the one the run was submitted with, and the answer written down.
SaveAgentResult(p) ==
  LET r == publisher[p].run IN
  /\ publisher[p].at = "save"
  /\ IF Newly(r)
     THEN /\ publications' = publications \cup {r}
          /\ context' = history[r] \cup {r}
          /\ transcript' = [transcript EXCEPT ![r] = @ + 1]
          /\ publisher' = [publisher EXCEPT ![p].at = IF result[r] = "succeeded" THEN "extract" ELSE "mark"]
     ELSE /\ publisher' = [publisher EXCEPT ![p].at = "mark"]
          /\ UNCHANGED <<publications, conversation>>
  /\ UNCHANGED <<result, history, scheduled, extracted, subscribed, notice, losses>>

\* Only who saved the result asks for the memory of it (extract_async()).
Extract(p) ==
  /\ publisher[p].at = "extract"
  /\ extracted' = [extracted EXCEPT ![publisher[p].run] = @ + 1]
  /\ publisher' = [publisher EXCEPT ![p].at = "mark"]
  /\ UNCHANGED <<result, history, conversation, publications, scheduled, subscribed, notice, losses>>

MarkPublished(p) ==
  /\ publisher[p].at = "mark"
  /\ publications' = publications \cup {publisher[p].run}
  /\ publisher' = [publisher EXCEPT ![p] = Free]
  /\ UNCHANGED <<result, history, conversation, scheduled, extracted, subscribed, notice, losses>>

-----------------------------------------------------------------------------
(* The conversation goes on meanwhile.                                       *)

\* record_outbound_message(): a receipt keeps a note from being written twice.
RecordOutbound(n) ==
  /\ transcript[n] = 0
  /\ context' = context \cup {n} /\ transcript' = [transcript EXCEPT ![n] = 1]
  /\ UNCHANGED <<result, history, publications, scheduled, extracted, publisher, subscribed, notice, losses>>

ClearContext ==
  /\ context # {} /\ context' = {}
  /\ UNCHANGED <<result, history, transcript, publications, scheduled, extracted, publisher, subscribed, notice, losses>>

-----------------------------------------------------------------------------
(* Notices: chat() subscribes when the run takes longer than it waits.       *)

Subscribe(r) ==
  /\ result[r] \in Terminal \cup {"running"} /\ subscribed' = subscribed \cup {r}
  /\ UNCHANGED <<result, history, conversation, publications, scheduled, extracted, publisher, notice, losses>>

\* pending_notifications(): subscribed, at an end, and not noted as queued.
PendingOnce(r) == r \in subscribed /\ result[r] \in Terminal /\ notice[r] = "none" /\ losses = 0   \* mutant
Pending(r) == r \in subscribed /\ result[r] \in Terminal /\ notice[r] # "noted"

\* The outbox takes a source key once; that it has it is noted in a second step.
Enqueue(r) ==
  /\ Pending(r) /\ notice' = [notice EXCEPT ![r] = "queued"]
  /\ UNCHANGED <<result, history, conversation, publications, scheduled, extracted, publisher, subscribed, losses>>

NoteQueued(r) ==
  /\ notice[r] = "queued" /\ notice' = [notice EXCEPT ![r] = "noted"]
  /\ UNCHANGED <<result, history, conversation, publications, scheduled, extracted, publisher, subscribed, losses>>

\* The process stops, or one of the steps raises: unpublished() and
\* pending_notifications() find on the rows what is left to do.
Lose(P) ==
  /\ losses < MaxLosses /\ losses' = losses + 1
  /\ publisher' = [p \in Publishers |-> IF p \in P THEN Free ELSE publisher[p]]
  /\ UNCHANGED <<result, history, conversation, publications, scheduled, extracted, subscribed, notice>>

PublisherStep(p) ==
  \/ \E r \in Results : Begin(p, r)
  \/ CloseScheduleRun(p) \/ SaveAgentResult(p) \/ Extract(p) \/ MarkPublished(p)

Next ==
  \/ \E r \in Results : \/ ReadHistory(r) \/ Submit(r) \/ Finish(r)
                        \/ Subscribe(r) \/ Enqueue(r) \/ NoteQueued(r)
  \/ \E p \in Publishers : PublisherStep(p)
  \/ \E n \in Notes : RecordOutbound(n)
  \/ ClearContext
  \/ \E P \in SUBSET Publishers : P # {} /\ Lose(P)

\* The background loop goes round as long as the service runs.
Fairness ==
  /\ \A p \in Publishers : WF_publicationVars(PublisherStep(p))
  /\ \A r \in Results : WF_publicationVars(Enqueue(r)) /\ WF_publicationVars(NoteQueued(r))

Spec == Init /\ [][Next]_publicationVars
FairSpec == Spec /\ Fairness

-----------------------------------------------------------------------------
PublicationTypeOK ==
  /\ result \in [Results -> {"none", "submitting", "running"} \cup Terminal]
  /\ history \in [Results -> SUBSET Items] /\ context \subseteq Items
  /\ transcript \in [Items -> 0 .. 1]
  /\ publications \subseteq Results /\ scheduled \subseteq Results /\ subscribed \subseteq Results
  /\ extracted \in [Results -> 0 .. 1]
  /\ publisher \in [Publishers -> [at : {"idle", "close", "save", "extract", "mark"}, run : Results]]
  /\ notice \in [Results -> {"none", "queued", "noted"}]
  /\ losses \in 0 .. MaxLosses

\* However many threads publish a run, and wherever they are stopped, its answer
\* stands in the conversation once, its memory is asked for once at most, and it
\* counts as published only with its answer written and its schedule's record
\* closed (_publish(), save_agent_result()).
PublishedOnce ==
  \A r \in Results :
    /\ transcript[r] = (IF r \in publications THEN 1 ELSE 0)
    /\ extracted[r] <= transcript[r]
    /\ r \in publications => r \notin scheduled

\* A run that has ended is published, and who subscribed to it gets a notice
\* (unpublished(), pending_notifications()).
ResultArrives ==
  \A r \in Results :
    result[r] \in Terminal ~> r \in publications /\ (r \in subscribed => notice[r] = "noted")

\* The context the model is shown keeps what was delivered into it: neither a
\* note recorded during a run is lost nor a cleared message brought back.
ContextIsKept ==
  [][\A p \in Publishers : publisher[p].at = "save" /\ publisher'[p].at # "save"
       => context' \ {publisher[p].run} = context \ {publisher[p].run}]_publicationVars
=============================================================================
