----------------------------- MODULE MCServices -----------------------------
(***************************************************************************)
(* Components that share no state, each on an instance of its own.  The    *)
(* first state chooses the part that runs; the others rest at their first  *)
(* state, so that the states of a run are the sum of the parts' states.    *)
(***************************************************************************)
EXTENDS NotificationOutbox, DataSources, Scripts, TaskGraph, KnowledgeSources

CONSTANTS
  Parts,
  Horizon,                                          \* TodoReminders
  Messages, Unaddressed, Consumers, MaxChanges, MaxCrashes,   \* MessageInbox
  Schedules, Registrars, MaxSaves,                  \* OrganizationSchedules
  Profiles, Turns, Attempts, MaxRebinds,            \* ModelRouting
  Results, Publishers, Notes, MaxLosses,            \* ResultPublication
  Crawls, Fetchers, Urls, Seeds, Links, MaxPages, MaxDepth, FetchAttempts, MaxVersions, MaxRestarts,  \* WebCrawls
  Tasks, Callers, MaxSlots, MaxErrors, MaxStops,    \* CodexTasks
  Members, Timers, Definitions, FirstDraft, MaxRevision, MaxPublished, MaxManual, Latest, MaxRefusals,  \* WorkflowVersions
  Facts, Topic, Users, MaxEvents, MaxRequests, MaxMishaps,  \* MemoryProfiles
  Resources, Kind, Payloads, Seeded, Editors, MaxBoots     \* PlatformResources

ASSUME PartsAssumption ==
  Parts \subseteq {"outbox", "source", "script", "plan", "knowledge", "todo", "inbox", "schedule", "routing",
                  "publication", "crawl", "codex", "versions", "memory", "resources"}
ASSUME RemindersAssumption == Horizon \in Nat
ASSUME InboxAssumption == Messages \subseteq Nat \ {0} /\ MaxChanges \in Nat
ASSUME RoutingAssumption == Attempts \in Nat \ {0} /\ MaxRebinds \in Nat
ASSUME VersionsAssumption ==
  /\ FirstDraft \in Definitions
  /\ MaxRevision \in Nat \ {0} /\ MaxPublished \in Nat /\ Latest \in Nat \ {0}
ASSUME ScheduleAssumption == MaxSaves \in Nat /\ MaxCrashes \in Nat
ASSUME CodexAssumption == MaxSlots \in Nat /\ MaxErrors \in Nat /\ MaxStops \in Nat /\ "nobody" \notin Callers
ASSUME KnowledgeAssumption == Categories # {} /\ MaxWrites \in Nat
ASSUME MemoryAssumption == "nobody" \notin Users
ASSUME CatalogAssumption ==
  /\ "none" \notin Editors /\ MaxBoots \in Nat
  /\ \A r \in Resources : "none" \notin Payloads[r] /\ Seeded[r] \in Payloads[r] \cup {"none"}
ASSUME PublicationAssumption == Results # {} /\ Results \cap Notes = {} /\ MaxLosses \in Nat
ASSUME CrawlAssumption ==
  /\ 1 \in Crawls /\ Urls # {} /\ IsFiniteSet(Urls) /\ Seeds \subseteq Urls /\ Links \in [Urls -> SUBSET Urls]
  /\ MaxPages \in Nat /\ MaxDepth \in Nat /\ FetchAttempts \in Nat \ {0}
ASSUME CrawlBoundsAssumption == MaxVersions \in Nat \ {0} /\ MaxRestarts \in Nat

VARIABLES
  part,
  now, todo, event, outbox, job, down, todoFaults,
  msg, cpc, cur, stopping, handled, again, saved, sup, crashes,
  sched, current, noted, jobs, ids, reg, run, open, overlooked, saves, restarts,
  slots, cooling, turn, binding,
  result, submitted, context, transcript, publications, scheduled, extracted,
  publisher, subscribed, notice, losses,
  site, crawl, frontier, page, indexed, fetcher, stops,
  task, free, caller, handleOf, asked, marked, blocked, interrupted, closed, errors, stopped,
  flow, versions, trigger, next, runs, clock, timer, member, refusals,
  remembered, profile, soul, said, taken, actor, locked, overtaken, requests, mishaps,
  catalog, running, editor, activating, unrecorded, boots

Todo == INSTANCE TodoReminders WITH faults <- todoFaults
Inbox == INSTANCE MessageInbox
Schedule == INSTANCE OrganizationSchedules
Routing == INSTANCE ModelRouting
Publication == INSTANCE ResultPublication WITH history <- submitted
Crawl == INSTANCE WebCrawls
Codex == INSTANCE CodexTasks WITH active <- handleOf
Flow == INSTANCE WorkflowVersions
Memory == INSTANCE MemoryProfiles
Catalog == INSTANCE PlatformResources WITH row <- catalog, holder <- activating

todoVars == <<now, todo, event, outbox, job, down, todoFaults>>
inboxVars == <<msg, cpc, cur, stopping, handled, again, saved, sup, crashes>>
schedVars == <<sched, current, noted, jobs, ids, reg, run, open, overlooked, saves, restarts>>
routeVars == <<slots, cooling, turn, binding>>
publishVars == <<result, submitted, context, transcript, publications, scheduled, extracted,
                 publisher, subscribed, notice, losses>>
crawlVars == <<site, crawl, frontier, page, indexed, fetcher, stops>>
codexVars == <<task, free, caller, handleOf, asked, marked, blocked, interrupted, closed, errors, stopped>>
flowVars == <<flow, versions, trigger, next, runs, clock, timer, member, refusals>>
memoryVars == <<remembered, profile, soul, said, taken, actor, locked, overtaken, requests, mishaps>>
catalogVars == <<catalog, running, editor, activating, unrecorded, boots>>
parts == <<part, vars, dsVars, scriptVars, graphVars, knowledgeVars,
           todoVars, inboxVars, schedVars, routeVars, publishVars, crawlVars, codexVars, flowVars, memoryVars,
           catalogVars>>

\* Every page links to every other.
LinksToAll == [u \in Urls |-> Urls \ {u}]

\* Drafts with and without a schedule.
Drafts == {{"api"}, {"api", "schedule"}}
Scheduled == {"api", "schedule"}

\* All facts are about one thing.
OneTopic == [f \in Facts |-> "about"]

\* One resource that is applied at once, one that waits for a restart.
HotAndCold == [skill |-> "skill", vectors |-> "embedding"]
TwoPayloads == [r \in Resources |-> {"old", "new"}]
VectorsSeeded == [skill |-> "none", vectors |-> "old"]

\* All notifications belong to one tenant.
OneTenant == [r \in Rows |-> "a"]

ServicesInit ==
  /\ part \in Parts
  /\ Init /\ SourceInit /\ ScriptInit /\ GraphInit /\ KnowledgeInit
  /\ Todo!Init /\ Inbox!Init /\ Schedule!Init /\ Routing!Init /\ Publication!Init /\ Crawl!Init /\ Codex!Init
  /\ Flow!Init /\ Memory!Init /\ Catalog!Init
  /\ part = "routing" \/ LET p == CHOOSE p \in Profiles : TRUE IN slots = [primary |-> p, fallback |-> p]
  /\ document.text = CHOOSE t \in Texts : TRUE
  /\ part = "plan" \/ plan = [n \in Names |-> {}]

Rest ==
  /\ UNCHANGED part
  /\ IF part = "outbox" THEN TRUE ELSE UNCHANGED vars
  /\ IF part = "source" THEN TRUE ELSE UNCHANGED dsVars
  /\ IF part = "script" THEN TRUE ELSE UNCHANGED scriptVars
  /\ IF part = "plan" THEN TRUE ELSE UNCHANGED graphVars
  /\ IF part = "knowledge" THEN TRUE ELSE UNCHANGED knowledgeVars
  /\ IF part = "todo" THEN TRUE ELSE UNCHANGED todoVars
  /\ IF part = "inbox" THEN TRUE ELSE UNCHANGED inboxVars
  /\ IF part = "schedule" THEN TRUE ELSE UNCHANGED schedVars
  /\ IF part = "routing" THEN TRUE ELSE UNCHANGED routeVars
  /\ IF part = "publication" THEN TRUE ELSE UNCHANGED publishVars
  /\ IF part = "crawl" THEN TRUE ELSE UNCHANGED crawlVars
  /\ IF part = "codex" THEN TRUE ELSE UNCHANGED codexVars
  /\ IF part = "versions" THEN TRUE ELSE UNCHANGED flowVars
  /\ IF part = "memory" THEN TRUE ELSE UNCHANGED memoryVars
  /\ IF part = "resources" THEN TRUE ELSE UNCHANGED catalogVars

ServicesNext ==
  \/ part = "outbox" /\ Next /\ Rest
  \/ part = "source" /\ SourceNext /\ Rest
  \/ part = "script" /\ ScriptNext /\ Rest
  \/ part = "plan" /\ GraphNext /\ Rest
  \/ part = "knowledge" /\ KnowledgeNext /\ Rest
  \/ part = "todo" /\ Todo!Next /\ Rest
  \/ part = "inbox" /\ Inbox!Next /\ Rest
  \/ part = "schedule" /\ Schedule!Next /\ Rest
  \/ part = "routing" /\ Routing!Next /\ Rest
  \/ part = "publication" /\ Publication!Next /\ Rest
  \/ part = "crawl" /\ Crawl!Next /\ Rest
  \/ part = "codex" /\ Codex!Next /\ Rest
  \/ part = "versions" /\ Flow!Next /\ Rest
  \/ part = "memory" /\ Memory!Next /\ Rest
  \/ part = "resources" /\ Catalog!Next /\ Rest

ServicesSpec == ServicesInit /\ [][ServicesNext]_parts

\* Of a state only the part that runs counts: the others never change.
View ==
  <<part, CASE part = "outbox" -> vars [] part = "source" -> dsVars [] part = "script" -> scriptVars
            [] part = "plan" -> graphVars [] part = "knowledge" -> knowledgeVars [] part = "todo" -> todoVars
            [] part = "inbox" -> inboxVars [] part = "schedule" -> schedVars [] part = "routing" -> routeVars
            [] part = "publication" -> publishVars [] part = "crawl" -> crawlVars [] part = "codex" -> codexVars
            [] part = "versions" -> flowVars [] part = "memory" -> memoryVars
            [] part = "resources" -> catalogVars>>

\* The fairness of each part while it runs.
ServicesFairSpec ==
  /\ ServicesSpec
  /\ \A d \in Dispatchers : WF_vars(part = "outbox" /\ ClaimDue(d)) /\ WF_vars(part = "outbox" /\ Work(d))
  /\ \A r \in Rows : WF_vars(part = "outbox" /\ RequeueAged(r)) /\ WF_vars(part = "outbox" /\ LeaseLapses(r))
  /\ WF_dsVars(part = "source" /\ Forget)
  /\ \A r \in Runs : WF_scriptVars(part = "script" /\ RunStep(r))
  /\ WF_graphVars(part = "plan" /\ GraphNext)
  /\ WF_todoVars(part = "todo" /\ Todo!ClaimDueReminders)
  /\ WF_todoVars(part = "todo" /\ (Todo!EnqueueTodoReminder \/ Todo!FinishReminder))
  /\ WF_todoVars(part = "todo" /\ Todo!Tick) /\ WF_todoVars(part = "todo" /\ Todo!Start)
  /\ \A t \in Todo!Times : WF_todoVars(part = "todo" /\ Todo!Sent(t))
  /\ WF_inboxVars(part = "inbox" /\ Inbox!Supervise)
  /\ \A c \in Consumers : WF_inboxVars(part = "inbox" /\ (Inbox!Handle(c) \/ Inbox!Finish(c) \/ Inbox!Exit(c)))
  /\ \A m \in Messages : /\ WF_inboxVars(part = "inbox" /\ Inbox!Ripens(m))
                         /\ WF_inboxVars(part = "inbox" /\ Inbox!LeaseLapses(m))
                         /\ SF_inboxVars(part = "inbox" /\ \E c \in Consumers : Inbox!Claim(c, m))
  /\ \A r \in Registrars : WF_schedVars(part = "schedule" /\ Schedule!Proceed(r))
  /\ \A t \in Turns : WF_routeVars(part = "routing" /\ Routing!InCall(t))
  /\ \A p \in Publishers : WF_publishVars(part = "publication" /\ Publication!PublisherStep(p))
  /\ \A r \in Results : /\ WF_publishVars(part = "publication" /\ Publication!Enqueue(r))
                         /\ WF_publishVars(part = "publication" /\ Publication!NoteQueued(r))
  /\ \A w \in Fetchers : WF_crawlVars(part = "crawl" /\ Crawl!FetcherStep(w))
  /\ \A c \in Callers : WF_codexVars(part = "codex" /\ Codex!TurnStep(c))
  /\ \A w \in Timers : WF_flowVars(part = "versions" /\ Flow!TimerStep(w))
  /\ WF_memoryVars(part = "memory" /\ Memory!ExtractNext) /\ WF_memoryVars(part = "memory" /\ Memory!ScanNext)
  /\ \A a \in {"async", "daily"} : WF_memoryVars(part = "memory" /\ Memory!StoreCandidate(a))
  /\ \A a \in Memory!Threads : WF_memoryVars(part = "memory" /\ Memory!RebuildStep(a))
  /\ \A a \in Users : WF_memoryVars(part = "memory" /\ Memory!GetSoul(a))

-----------------------------------------------------------------------------
(* The properties of the parts.                                              *)

\* The parts at rest are in the states they began in.
ServicesTypeOK ==
  CASE part = "outbox" -> OutboxTypeOK
    [] part = "source" -> DataSourceTypeOK
    [] part = "script" -> ScriptTypeOK
    [] part = "plan" -> plan \in [DOMAIN plan -> SUBSET Names] /\ done \subseteq DOMAIN plan
    [] part = "knowledge" -> KnowledgeTypeOK
    [] part = "todo" -> Todo!ReminderTypeOK
    [] part = "inbox" -> Inbox!InboxTypeOK
    [] part = "schedule" -> Schedule!ScheduleTypeOK
    [] part = "routing" -> Routing!RoutingTypeOK
    [] part = "publication" -> Publication!PublicationTypeOK
    [] part = "crawl" -> Crawl!CrawlTypeOK
    [] part = "codex" -> Codex!CodexTypeOK
    [] part = "versions" -> Flow!VersionsTypeOK
    [] part = "memory" -> Memory!MemoryTypeOK
    [] part = "resources" -> Catalog!CatalogTypeOK

SendingIsUnderWay == Todo!SendingIsUnderWay
\* A message is handled by one thread, a result published by one, a crawl worked by
\* one to its very end, a due time starts one run of a workflow (claim(),
\* save_agent_result(), claim_run(), recover(), enqueue_run()).
HandledOnce ==
  /\ part = "inbox" => Inbox!HandledByOne
  /\ part = "publication" => Publication!PublishedOnce
  /\ part = "crawl" => Crawl!WorkedByOne /\ Crawl!SuccessIsComplete
  /\ part = "versions" => Flow!FiresOnce
\* What is listed as under way is worked on: the rows of a schedule's jobs, the tasks
\* of Codex, the slots they hold and the cancellation of the turn on record
\* (_queue_cron_run(), _execute_turn(), cancel_task()); and a workflow's schedule that
\* is listed as enabled is the published one (publish()).
WorkIsAccountedFor ==
  /\ part = "schedule" => Schedule!OpenRowsAreAccountedFor
  /\ part = "codex" => Codex!TasksAreAccountedFor
  /\ part = "versions" => Flow!EnabledIsPublished
\* A step acts on what it read, whoever writes in between: a turn keeps to the model it
\* chose, a draft replaces the one its author saw (ModelSession, save_draft()).
ActsOnWhatItRead == Routing!TurnIsStable /\ Flow!SavesWhatWasSeen

\* What is made of other rows says what they say: the chunks and vectors of a source,
\* the profile of a memory, the configuration of the process (refresh(),
\* reembed_sources(), rebuild_soul(), publish()).  What no code makes good, a change
\* left behind or left unrecorded, is named in the parts.
DerivedIsTrue ==
  /\ part = "knowledge" => SourceIsWhole
  /\ part = "memory" => Memory!MemoryIsTrue
  /\ part = "resources" => Catalog!CatalogIsTrue

\* No notification, reminder, message, result or due time stays where it is: each is settled,
\* waits for something that is named, or was cut off in a way that is named: a consumer
\* that ended, a reminder whose predecessor is taken for it (dispatch_due(),
\* claim_due_reminders(), claim(), _worker(), _enqueue_due_schedules()).
MessagesSettle ==
  DrainsInTheCalm /\ Todo!ReminderSettles /\ Inbox!MessageIsSettledOrRetried /\ Publication!ResultArrives
  /\ Flow!DueMovesOn

\* What is saved comes to be what runs: channels are built anew, jobs follow their
\* rows, old descriptions of tables go, the profile is made anew.
ChangesTakeEffect ==
  Inbox!WatchedChangeIsApplied /\ Schedule!SavedTakesEffect /\ StaleDescriptionEnds
  /\ (part = "memory" => Memory!SoulCatchesUp)

\* Whatever is called comes back: a model's request, a script, a crawl, a task, the
\* judging of a plan; or its thread or its process, or the database, failed it.
CallsEnd == Routing!RequestEnds /\ RunIsRecorded /\ Crawl!CrawlEnds /\ Codex!TaskEnds /\ (part = "plan" => Ends)
=============================================================================
