# BotPlatform: models, checks and proofs

BotPlatform runs conversations, long-lived agent runs and workflows for many
organizations in one Python process, with SQLite as the only thing that
survives it. This directory holds TLA+ models of the parts in which threads,
leases, approvals, administrators and crashes meet, the TLC configurations that
check them on small instances, and TLAPS proofs of what matters most for every
instance. Paths below are relative to `src/src/core/` unless they begin with
`src/`.

## 1. The system

### 1.1 Components

| Component | State it keeps | Operations | Meets the others through |
|---|---|---|---|
| Durable agent runs (`storage/agent_runs.py`, `services/agent_runs.py`, `services/react.py`) | tables `agent_runs` (status, `state_json`, `cancel_requested`, lease), `agent_run_steps` (journal), `agent_run_approvals` | submit, claim, heartbeat, advance one step, checkpoint, approve, cancel, resume, reconcile, expire, script input, publish the result | API routers, scheduler and workflow nodes submit; the tool runtime acts; results go to conversations and notifications |
| Multi-agent coordination (`_coordinate()` in `services/agent_runs.py`) | the parent's `state_json` (plan, children, phase), rows of the children | plan, check the plan, submit children, look at them, replan, sum up; recursive cancel, `wake_parent()` | rows of one table |
| Workflow runs (`workflows/runtime.py`, `workflows/store.py`) | `workflow_runs`, `workflow_node_runs`, `workflow_waits` | enqueue, claim, the node loop, waits, retries, cancel, resolve attention | triggers, agent runs (agent nodes), notifications (waits) |
| Workflow definitions and triggers (`workflows/store.py`, `workflows/runtime.py`) | drafts with revisions, versions, triggers, next fire times | save, publish, roll back, withdraw, archive, fire what is due | workflow runs execute a published version |
| Messaging (`messaging/`, `application/bootstrap.py`) | leased inbox, channel configuration, consumer threads | receive, claim, handle, retry; build the channels anew when their configuration changes | conversation agent, agent runs (`/task`, `/stop`, `/resume`) |
| Notifications (`services/notification.py`) | outbox rows with order, lease and attempts | enqueue, claim due, finish, requeue for a recipient | agent runs, workflows, todo and the scheduler enqueue; channels deliver |
| Scheduler, organization controls (`services/scheduler.py`, `services/organization_controls.py`) | schedules with revisions, jobs, run records | register, fire, record, pause | submits agent runs and workflows, enqueues notifications |
| Memory (`services/memory.py`) | items, candidates, `SOUL.md` | extract, confirm, scan, forget, make the profile anew | conversations |
| Knowledge (`services/knowledge.py`) | sources, chunks, vectors | refresh, list, reindex, make vectors anew, move | tools, crawler |
| Platform resources (`services/resources.py`, `api/app.py`) | catalog of versions, the running configuration | draft, publish, delete, restart | everything that is configured |
| Scripts (`services/script*.py`) | runs, processes, questions to the user | submit, answer, cancel, shut down | agent tools, API |
| Model access (`modeling/`) | slots, cooling down | route, retry, fail over | agents and nodes |
| Data sources (`datasource/`) | connection pools, cached descriptions | query, write, reload | tools |
| Plugins (`plugins/`) | reminders, crawl frontiers, Codex tasks | each its own | outbox, knowledge |
| Conversation agent, tenants, identity, tools, API, infrastructure | rows, wiring | one request at a time | everyone |

`PROJECT.json` lists all of them, with the files and with what is left out.

### 1.2 Behaviour that is hard

1. *Threads between transactions.* Every store method is one `BEGIN IMMEDIATE`
   transaction. What a worker does between two of them (ask the model, run a
   tool, read a child) is outside: cancellations, answers, expiry,
   administrators and other workers come in between.
2. *Leases.* A run is owned by uuid and lease (600 s for agent and workflow
   runs, 180 s for the outbox, 120 s for the inbox). A dead process leaves
   a lease behind; a stalled one comes back after another took over.
3. *Crashes* between an act and its record, between the record and the
   check-in, between a request and the status that announces it.
4. *Wake-ups* sent after the sender's own transaction to a receiver that may
   not be waiting yet (`wake_parent()`, `resolve_wait()`,
   `requeue_waiting_recipient()`).
5. *Consents* stored by step key or by node, asked for once and used later.
6. *Trees*: a parent, its children, and a cancellation that must reach all.
7. *Copies*: what is made of other rows (vectors, profiles, jobs, the running
   configuration, cached descriptions) while those rows change.

### 1.3 What makes the components correct

- Agent runs: a journaled step acts at most once; a call that needs an approval
  acts only on a human's yes to that very call; an unknown outcome stops for an
  administrator; waits can be answered; one owner, one live run per resource;
  stopped runs end, due runs settle; a result is published once.
- Coordination: only plans that can be carried out are started, prerequisites
  first; one child per task; no summary of a part; no child outlives a stopped
  or finished parent; the parent is woken when its child is done.
- Workflow runs: one executor; a write of unknown outcome is not repeated
  before an administrator looked; a consent is used only if given; attention can
  be answered; cancelled runs stay stopped; due runs settle. A due time starts
  one run, and what fires is what is published.
- Outbox, inbox, reminders: a tenant's rows go out in order, each is settled or
  waits for something that is named; a message is in one hand.
- Whatever else runs beside them: what is listed as under way is worked on, what
  is derived says what it was derived from, what is called comes back.

## 2. The modules

| Module | Models | Uses |
|---|---|---|
| `RunLifecycle` | what anyone may see of a run: status and `cancel_requested` | |
| `AgentRuns` | tables, workers, approvals, journal, administrators, crashes of root runs | implements `RunLifecycle` |
| `AgentCoordination` | a parent and its children | `TaskPlans`; rows against `RunLifecycle` |
| `TaskPlans`, `TaskGraph` | the plans a model may draw up and when one can be carried out; `_validate_tasks()`, round by round | |
| `WorkflowRuns` | runs, node rows, waits, workers, administrators, crashes | |
| `WorkflowVersions` | drafts, versions, triggers, timers | |
| `ResultPublication` | results, conversations, notices of finished runs | |
| `NotificationOutbox`, `TodoReminders` | the outbox with its dispatchers; reminders on their way into it | |
| `MessageInbox` | inbox, consumers, the loop that rebuilds the channels | |
| `OrganizationSchedules` | revisions, jobs, run records | |
| `ModelRouting` | turns, retries, failover, repointed slots | |
| `Scripts` | runs, processes, keys, questions and successors | |
| `DataSources` | pools, reloads, the cache of descriptions | |
| `KnowledgeSources`, `MemoryProfiles`, `PlatformResources` | what is derived: vectors, the profile, the running configuration | |
| `WebCrawls`, `CodexTasks` | runs of the crawler, background tasks of Codex | |
| `MCAgentRuns`, `MCAgentCoordination`, `MCWorkflowRuns` | values of the constants for TLC | the module of that name |
| `MCServices` | the sum of all components that run beside the agents | the fifteen modules above |
| `AgentRuns_proofs`, `AgentRunProgress_proofs` | theorems about `AgentRuns` | TLAPS |
| `AgentCoordination_proofs` | theorems about `AgentCoordination` | TLAPS |
| `WorkflowRuns_proofs`, `WorkflowRecovery_proofs` | theorems about `WorkflowRuns` | TLAPS |
| `Services_proofs` | theorems about `TaskGraph`, `Scripts`, `DataSources`, `NotificationOutbox` | TLAPS |
| `MCServices_proofs`, `ServicesRows_proofs` | theorems about the composition: who acts, what the rows say, types | TLAPS |

### 2.1 AgentRuns

State: `run` (the row, with the fields of `state_json` that control depends on:
phase, round, queue of calls, index, failures, decisions, approval, reason),
`steps` (journal by run and step key `"<rounds>:<queue_index>"`), `approvals`,
and for every worker thread its place in `advance()` (`pc`), the run it claimed
(`cur`), its private copy of the state (`loc`) and what it will check in
(`out`). `rec` is what a `reconcile()` request has read and not yet written.
`effects` counts how often a step acted on the world; it is the only variable
without a counterpart in the program.

Actions are the store's transactions (`Create`, `Cancel`, `Resume`, `Resolve`,
`ReconcileRead`/`ReconcileWrite`, `ScriptInputLost`, `ExpireApprovals`,
`ExpireOne`, `Claim`, `Heartbeat`, `RequestApproval`, `Journal`, `Record`,
`Checkpoint`) and what a worker does between them (`Begin`, `Blocked`, `Reply`,
`Verify`, `EndBatch`, `AskInput`, `Refuse`, `DecisionMismatch`, `Permit`,
`BeforeExecute`, `Execute`, `ExecuteRaises`). Each look at `stopped()` is a step
of its own. The environment can let a lease lapse, let an approval fall due, and
kill the process.

Abstractions:

- A call is a model value. `Kind` says whether it needs an approval
  (`requires_approval` and not preauthorised), asks the user, or neither;
  `Resource` is its `resource_key`. A grant that is withdrawn meanwhile is
  `Refuse`, possible at every look.
- Time is what the code tests: a lease is live or lapsed, an approval is due or
  not. `not_before` only delays a claim, and a wait that is bound to end is a
  stutter.
- A lease lapses under an owner that is dead, or under a worker in
  `StallingWorkers`, whose heartbeat thread and step may be delayed without end.
  Heartbeats every 30 s against a lease of 600 s justify the empty set for the
  other runs.
- An approval falls due between `RequestApproval` and the check-in only under a
  stalling worker: its time to live is minutes, the check-in is the next thing
  the thread does.
- A model may answer anything: any batch of calls up to `MaxQueue`, a truncated
  answer, nothing usable. The rounds are capped at `MaxRounds`; beyond them the
  model asks for no more tools.
- Progress checks (`tool_repeats`, `no_progress`) are a free choice between
  going on and pausing.
- The end of a surrounding workflow run acts on an agent run as `Cancel` does.

### 2.2 AgentCoordination and TaskGraph

State: `parent` (row and state: phase, plan, child of each task, awaited child),
`child` (status, `cancel_requested`, task label), and each worker's place, copy,
statuses read so far (`seen`), and what is left to cancel or submit (`todo`).
`waking` holds the children whose change is committed and whose `wake_parent()`
is still to come: it is called after the transaction, and a crash forgets it.
`resuming` is a resume request between its two looks at the parent.

One step of `_coordinate()` is many actions, because it reads every child in a
transaction of its own: `BeginLook`, `Look`, `CancelSibling`, `GiveUpPlan`,
`LookedAtAll`, `FindChild`, `SubmitChild`, `EndLook`, besides `Plan`, `Verify`,
`Finalize`, `Stop`, `Blocked` and the check-in. A child does what
`RunLifecycle` allows (and what `AgentRuns` is shown to do, by run
`agent_resource` and by proof); its check-in, its answers and its cancellation
add to `waking`, the expiry of its approvals wakes the parent at once.

`TaskGraph` has one action per round of `_validate_tasks()`. A plan maps the
tasks to `depends_on`; the limits on the number and on the length of names are
left to the bounds, duplicate names are refused before the rounds begin.

### 2.3 WorkflowRuns

State: `run` (row, state, `wake_at` ahead of now, lease), `rows` (the node runs
that are not settled, oldest first), `waits` (by run and node: the latest row's
status, how many older ones are pending, whether an attention wait is pending),
each worker's place, run, node, copy and outcome, `req` (what a
`resolve_attention()` read before its transaction), `acted` (the writes that
reached the outside world).

Actions: `Enqueue`, `Cancel`, `ResolveWait`, `ExpireWaits`,
`AttentionRead`/`AttentionWrite`, `Claim` (with `_mark_uncertain_write()`), then
the loop of `_execute_run()`: `Look`, `BeginNode`, `Execute`/`Act`/`ReadWait`,
`CreateWait`, `FinishNode`, `FailNode`, `Checkpoint`, `Park`, `FinishWaiting`,
`GiveBack`, `FinishRun`; the environment is `Wake`, `LeaseLapses`, `Crash`.

A node is what its type does to the run (`Kind`): `step`, `choice`, `write`,
`gated` (a write with consent), `approval`, `input`, `delay`, `end`. The run's
total time limit and unusable values may strike at every look. The lease is
renewed by a thread of its own every 30 s of 600 s; only a dead process loses
it. A finished node's row is dropped from `rows`, since nothing reads it again.

### 2.4 The services and their sum

Each of the fifteen modules in `MCServices` has the tables and threads of its
component as variables and one action per transaction, or per stretch between
two transactions, of each thread. They share no state. `MCServices` runs them
in one specification: the first state chooses a `part`, only that part's actions
are enabled, and the others rest at their first state (`Rest`). The reachable
states of a run are then the sum of the parts' states, not their product, and
the properties are stated per part: a property of another part speaks of states
that do not change.

`VIEW View` in `Services_safety.cfg` leaves the resting parts out of the
fingerprint. They are at their first state in every state with that `part`; the
first states of a resting part that has several are pinned in `ServicesInit`, so
no two distinct states are taken for one another.
`CHECK_DEADLOCK FALSE` stands in both Services configurations because many
parts really come to rest: a plan is judged, a script has ended, all rows are
settled.

## 3. Runs

| Run | Instance | Distinct states | What it shows |
|---|---|---|---|
| `agent_stall` | one run, two workers that both may stall, batches of two, one approval, an administrator | 1.18 million | `TypeOK`, `AtMostOnce`, `GatedOnlyIfApproved`, `UnknownIsReconcilable`, `ProgressNeverRollsBack`, `ExclusiveOwnership`, `RecordedResultIsFinal` when the owner is lost at any moment |
| `agent_rollback` | one run of two rounds, one worker, two administrators, three calls, two approvals, a crash | 2.32 million | `WaitingIsAnswerable`, `GatedOnlyIfApproved` even where two reconciliations roll the run back |
| `agent_resource` | two runs of two conversations, one workspace, two workers, a crash | 996 thousand | `ResourceExclusive`, `WorkerOwnsItsRun`, and `AgentRuns` implements `RunLifecycle` |
| `agent_live` | the same with one worker, under fairness | 359 thousand | `EveryRunSettles` |
| `agent_open_step` | one run, two workers, a crash | stops at the violation | finding 1 |
| `coordination_crash` | two tasks, three children, one worker, a crash, one wake-up under way at a time | 1.15 million | `TypeOK`, `NoOrphans`, `NoChildOutlivesParent`, `OneChildPerTask`, `DependenciesFirst`, `SummaryIsComplete` |
| `coordination_live` | one task, one child, two workers of which one stalls, one answer, a crash, under fairness | 285 thousand | `KeepsLifecycle`, `TreeSettles` |
| `coordination_lost_wakeup` | one task, one child, one worker | stops at the violation | finding 2 |
| `workflow_recovery` | one run through a graph with a node of every kind and every error policy, two workers, an administrator, two crashes, under fairness | 163 thousand | `TypeOK`, `OneExecutor`, `NoBlindRepeat`, `AttentionIsAnswerable`, `GatedOnlyIfApproved`, `RunSettles` |
| `workflow_canceled` | the same graph, one worker | stops at the violation | finding 3 |
| `services_safety` | the fifteen parts of `MCServices`, each with two of what can race | 2.59 million | `ServicesTypeOK`, `DeliveredOnceInOrder`, `SendingIsUnderWay`, `HandledOnce`, `BorrowedIsClean`, `WorkIsAccountedFor`, `RunsAreExclusive`, `VerdictIsRight`, `DerivedIsTrue`, `ActsOnWhatItRead` |
| `services_live` | thirteen parts, smaller, under fairness | 73 thousand | `MessagesSettle`, `ChangesTakeEffect`, `CallsEnd` |

Why the bounds are enough to see what could go wrong:

- Two workers are one that lost the run and one that took it over; a third would
  do what the second does. The safety theorems of section 5 need no bound.
- Batches of two calls give a request for approval that covers a later call, and
  a decision that lies ahead of the position. Two rounds give step keys of an
  older round. The second approval is needed to answer an old one after a new
  one was asked for.
- `agent_stall` and `agent_rollback` divide what one larger instance would do:
  stalling workers without crashes (a stalled worker shows the same
  interleavings as a dead one, and more), and crashes with two concurrent
  administrators.
- One crash reaches every state a crash can leave, as the crash may come
  anywhere; two let the recovery itself die.
- Two tasks and three children: a dependency, a sibling to stop, and a child of
  the second plan. `OneWakeUp` keeps one `wake_parent()` under way at a time: a
  call does nothing but requeue a waiting parent, so a second one pending at the
  same moment adds only orders of two calls of which the first settles the
  matter. Three names in `TaskGraph` give self-dependencies, cycles of two and
  three, a cycle behind a valid prefix, unknown prerequisites.
- The workflow graph leads through every node kind, every port and every error
  policy; the second crash makes a write uncertain twice. With one run the limit
  of two live runs for an organization (`AtLimit`) never bites.
- In `services_safety` each part has two of the actors that can race
  (dispatchers, consumers, callers, publishers, fetchers, members, timers,
  editors) and one fault of each kind; versions go up to two, so that there is
  an older one to come back to. All outbox rows belong to one tenant: a batch of
  the dispatcher then has one row, and batches over several tenants are covered
  by the proof only. The crawler has one address and one try; two addresses and
  two tries are in `services_live`. `MaxRevision` bounds `WorkflowVersions` and
  `PlatformResources` alike.
- Codex has two slots in both runs, which is what `config/plugins.json` sets: two
  turns, of one task or of two, can be under way.
- In `services_live` members, timers and the crawler's threads are one each, and
  Codex has neither errors nor restarts there (both are in `services_safety`);
  resources and knowledge promise no progress and are left out.

Symmetry is used among workers, and among the two requests of
`agent_rollback`, in runs that check safety only.

Deadlock is checked where the system can always go on. It is switched off for
`WorkflowRuns`, where all runs may be over and nobody enqueues another, and for
the sum of the services (2.4).

### 3.1 Fairness

- Weak fairness for the steps of every worker: they are threads of a running
  process, and model and tool calls carry time limits.
- Strong fairness for the claim of every run in `AgentRuns` and `WorkflowRuns`:
  idle workers look several times a second, and the agent's `claim()` takes the
  run that was updated longest ago, so one that is claimable again and again
  gets its turn; being claimable is not continuous, since another run may hold
  the resource. (`claim_run()` takes the oldest run of all, which is the only
  one in the checked instance.) In `AgentCoordination`, where nothing takes a
  due run out of the queue but its claim or its end, weak fairness is enough.
- Weak fairness for the lapse of a dead owner's lease, for `wake_at`, and for a
  `wake_parent()` that a living thread is about to call.
- Strong fairness for the settling of a child in `AgentCoordination`: one that
  is put back into the queue again and again ends or waits at last, which is
  `EveryRunSettles` of `AgentRuns`, checked there.
- In `MCServices` weak fairness for the steps of every thread of a part while
  that part runs, for clocks and for the lapse of leases; strong fairness for
  the claim of a message, which is not claimable while another consumer is
  being stopped. For the memory it is assumed that users ask for their profile
  (`GetSoul`): every turn of a conversation reads it, and only reading it
  makes it anew after a request was refused.

Apart from that nothing is assumed of users, administrators or models: hence
properties that end in "or waits for somebody".

### 3.2 Properties

Every property is stated above its definition in the module. Each has a mutant
in `PROJECT.json`: an operator of the model, changed as a plausible mistake in
the code would change it, under which TLC finds the property violated. The
mutants are the definitions marked `\* mutant`.

## 4. Findings

1. **A step of unknown outcome is passed over** (`agent_open_step`,
   `services/react.py`, `_tool_step()`). After a crash between `journal()` and
   `journal_result()` the recovered step is judged again from the top. A grant
   withdrawn since, or a refusal, answers the call before the journal is asked;
   the open entry is never noticed and the run goes on, up to success.
   `src/docs/agent-runs.md` says the run stops for an administrator.
2. **A lost wake-up between child and parent** (`coordination_lost_wakeup`,
   `wake_parent()` in `storage/agent_runs.py`). A child that ends after the
   parent's step looked at it and before that step is checked in wakes nobody;
   the parent then waits for a child that has ended, and whoever resumes or
   answers the parent is sent to that child and refused.
3. **A cancelled workflow run goes on** (`workflow_canceled`,
   `update_run_state()` in `workflows/store.py`). The status is written whatever
   the row says: a run cancelled while its node fails under a retry policy is
   queued again.

Known from the models and not kept as runs. A name in parentheses is a formula
stated in the module that the code does not satisfy.

Agent runs
- `reconcile()` writes the state it read in an earlier transaction: with two
  administrators (or one, and a cancellation) a run that was cancelled or
  claimed in between is queued again. `AtMostOnce`, `GatedOnlyIfApproved` and
  `WaitingIsAnswerable` hold even so; `ImplementsLifecycle` needs that nobody
  reconciles, `ExclusiveOwnership`, `WorkerOwnsItsRun`,
  `RecordedResultIsFinal` and `ProgressNeverRollsBack` that one does.
- `journal_result()` is guarded by neither owner nor status: the late result of
  a stalled worker replaces an administrator's. `RecordedResultIsFinal` allows
  exactly that.
- A worker that stalls for the whole life of its approval request checks its run
  in as waiting for an expired request.
- A published result replaces the conversation's context by the one the run was
  submitted with (`ContextIsKept` in `ResultPublication`).

Coordination
- Two stalled workers of one parent can both find no child for a task and submit
  one each; `OneChildPerTask` is checked and proved with heartbeats on time.

Workflows
- A wait that is answered or expires before the run's status is `waiting` sets
  nothing going again. A crash between `create_wait()` and that status makes the
  recovered run create a second row for the same wait.
- After a crash between `finish_node()` and `checkpoint_run()` no node row is
  unfinished, and a write that is known to have succeeded is carried out again.
  `NoBlindRepeat` speaks of writes of unknown outcome.
- `start_specific_run()` (subworkflow nodes, synchronous runs) neither looks at
  the organization's limit nor is it safe from a worker that claims the run
  first.
- Schedule and manual triggers stay disabled after a workflow was withdrawn and
  published again; a run may be queued for a workflow that has just been
  archived, and an archived one may be published; the older of two drafts may
  become the newer version; `rollback()` may publish a colleague's draft;
  `issue_access_token()` enables an interface trigger that a later version
  removed; a slow worker may skip a due time; a changed timetable keeps the old
  next time.

Messages and notifications
- Messages are not handled one after the other across a change of the channels
  (`HandledSerially`); a change between reading the configuration and noting its
  revisions is overlooked.
- The consumer's loop calls `claim()` outside its `try`, and `finish()` also where
  an error is being handled: a database error there ends the thread, and nobody
  starts another before the configuration changes or the process restarts
  (`ClaimRaises`, `FinishRaises`; `MessagesSettle` lets messages rest while
  `ConsumerIsGone`).
- A reminder that is listed as sent may have been given up by the outbox
  (`ListedAsSentWasSent`). The outbox reports by the number of the item: the
  delivery of an earlier reminder is taken for the one set meanwhile, which then
  does not go out (`TakenForSent`, which `MessagesSettle` allows and names).
- Jobs of a schedule may be unknown to the scheduler's list, follow an older
  row, or be paused for a cause that is gone (`JobsAreKnown`, `JobsFollowRows`,
  `PausedForCause`).

Scripts, models, data sources
- `submit()` starts the worker and reads the run's status only afterwards, and
  `resume_pending_input()` takes whatever is not "running" for a refusal: after a
  successor that was over at once the challenge is open again, and a second reply
  starts another run (`ReadStatus`; `InputIsUsedOnce` is what does not hold).
  `RunsAreExclusive` says what does: the earlier one has ended by then. A last
  transaction that raises leaves the challenge started for good.
- The script that runs may be a later version than the one submitted
  (`RunsWhatWasSubmitted`); an answered question may stay open, a key may stay
  taken after a crash (`AnsweredIsClosed`, `KeyIsReleased`).
- A primary model may be avoided for a failure of its predecessor
  (`CooldownIsDeserved`).
- A call may run under the rules of an older configuration; a description read
  before a reload is cached after it; an old pool may keep a connection
  (`RunsUnderItsRules`, `DescriptionIsCurrent`, `OldPoolsAreEmpty`).

Knowledge, memory, resources
- `_reconcile()` may write "ready" over `pending_embedding`, a refresh undoes a
  move, and the status that says a text is old may be overwritten
  (`ChangeIsNoticed`).
- A profile that passes for current may keep what was forgotten: after a crash
  between a request and its own turn, when the request's own turn fails and
  `_record_error()` cannot note it, or when a scan gives up after it has changed
  rows (`ForgottenIsGone`). `DerivedIsTrue` allows these three ends, and no
  other; the daily scan judges messages again and may
  bring forgotten items back.
- The handler changes the running configuration before the rows are written. When
  the transaction of `publish()`, or one of the deletions of `delete_public()`,
  raises, nobody takes the change back: the process runs what the catalog does not
  call active until the resource is published, deleted or listed anew, or the
  process restarts (`RecordingRaises`; `DerivedIsTrue` leaves out what is
  `unrecorded`).
- Publishing a chat model rebuilds the configuration from `list_public()`, which
  still shows the version before (`ChatModelIsRunning`;
  `src/docs/organization-multitenancy.md:31` says it is applied at once).
  `delete_public()` looks at references before it takes the lock (`BoundIsKept`).
  Going back to the active revision leaves `restart_required` for ever; a
  deleted resource of the configuration file comes back at a restart; one that
  was never activated cannot be deleted; of two drafts the older may be
  published last.

Crawler and Codex
- What a page links to is not looked at when the page was stored before a crash
  (`LinksAreFollowed`); what is indexed may be older than what is stored
  (`IndexedIsStored`).
- A thread of the crawler whose `claim_run()` or `finish_run()` raises ends and
  leaves its run running until the next start (`ThreadEnds`; `CallsEnd` names such
  runs as `Abandoned`).
- With several slots two `continue_task()` run two turns of one task
  (`OneTurnPerTask`). They share one place for their handles and one mark: only the
  turn on record is told to stop (`EveryTurnIsTold`), which is what
  `WorkIsAccountedFor` promises of a cancellation (`MarkedIsTold`). A cancellation between `requeue()` and the registration of
  the turn is thrown away (`CancelIsHeard`).

## 5. Proofs

Assumed of the constants: `ConstantsAssumption` in `AgentRuns`,
`AgentCoordination` and `WorkflowRuns`; `OutboxAssumption`, `SourceAssumption`,
`ScriptAssumption` in the modules of these components; `PartsAssumption`,
`RemindersAssumption`, `InboxAssumption`, `RoutingAssumption`,
`VersionsAssumption`, `ScheduleAssumption`, `CodexAssumption`,
`KnowledgeAssumption`, `MemoryAssumption`, `CatalogAssumption`,
`PublicationAssumption`, `CrawlAssumption`, `CrawlBoundsAssumption` in
`MCServices`. They say that bounds are numbers, that a model is asked at least
once (`DEFAULT_ATTEMPTS`), that there is a first run and a first version, that
nobody is called "nobody", and the like; TLC evaluates each on the instances it
checks. Three hypotheses stand in the theorems that need them:

- `Punctual`: no worker stalls past its lease while it lives (heartbeats).
- `OneAdmin`: at most one administrator reconciles at a time.
- `NoAdmin`: nobody reconciles. Needed for the refinement only, because
  `reconcile()` does revive a run that was cancelled meanwhile (section 4).

Every theorem below is `Spec => []P` (or `Spec => A` for an action property
`A`), for all values of the constants. The argument is always an inductive
invariant; its parts are named.

| Theorem | States | Argument |
|---|---|---|
| *AgentRuns_proofs* | | |
| `TypeCorrect` | `TypeOK` | `Typed`: in phase "tools" the round is at least 1 (so that a step key is one), a worker at a tool stands inside its batch, used approvals and pending reconciliations name a run. |
| `NeverTwice` | `AtMostOnce` | `Once`: no entry, no effect; a worker between entry and tool has an entry without effect, and no second worker stands there with the same run and key. The journal's primary key makes it inductive: nothing takes an entry back, only `Journal` arms a worker, and only without an entry. Leases play no part: it holds for stalling workers, any number of administrators and rolled back positions. |
| `NeverUnapproved` | `GatedOnlyIfApproved` | `Consent`: every positive decision, in a row, in a worker's copy or in a pending reconciliation, is backed by an approved request for that key and call; a worker past `Permit` may act; its journal entry names its call. |
| `OwnershipIsExclusive` (`OneAdmin`) | `ExclusiveOwnership` | `Custody`: a run is running exactly if it has an owner (`Held`), what an administrator read is still a run nobody works on (`Awaiting`), and a worker that is done has a status to check in (`Decided`). |
| `OneRunPerResource` (`Punctual`) | `ResourceExclusive` | `OnTime`: a lapsed lease has a dead owner, or one whose heartbeat came late; `OnlyClaimsMakeLive`: nothing but a claim makes a run live, and a claim looks at the resource. |
| `WorkersOwnTheirRuns` (`OneAdmin`, `Punctual`) | `WorkerOwnsItsRun` | `PromptOwn`: a worker whose heartbeat is never late owns the run it works on, and the run is running. |
| `RunsImplementLifecycle` (`NoAdmin`) | `ImplementsLifecycle` | initial states map to initial states; every step `Moves` the row along the diagram of `RunLifecycle` or it `Stays`; only a run somebody works on can be asked to stop and not have ended (`Stoppable`). |
| *AgentRunProgress_proofs* | | |
| `DoubtCanBeSettled` | `UnknownIsReconcilable` | `Doubts`: a row or a worker's copy that says "unknown" stands at a call with a journal entry, and such a run is paused or cancelled, such a worker at its check-in. |
| `PositionsOnlyAdvance` (`OneAdmin`) | `ProgressNeverRollsBack` | `Forward`: an owner's copy is not behind its row (`OwnersAhead`), and neither is what an administrator read (`ReadersAhead`). |
| `ResultsAreFinal` (`OneAdmin`) | `RecordedResultIsFinal` | `Alone`: one worker at most stands behind an entry, and the entry is open if its heartbeat is never late. A recorded result is replaced by the late one of the worker that acted, if at all; a verdict never replaces it. |
| `WaitingCanBeAnswered` (`Punctual`) | `WaitingIsAnswerable` | `Answerable`: a row that waits for an approval shows a pending request for the call it stands at (`RowsAsk`), so does a worker about to check it in, unless the run is to stop (`WorkersAsk`), and who owns a run has it running (`OwnedRuns`). |
| *AgentCoordination_proofs* | | |
| `CoordinationTypeCorrect` | `TypeOK` | a worker at its check-in has a status, and one about to submit has tasks in hand. |
| `NobodyIsOrphaned` | `NoOrphans` | rows only change as they may (`ChildrenKept`, `ParentKept`), and a cancellation of the parent reaches all children in its own transaction. |
| `TasksRunInOrder` | `DependenciesFirst` | `Ordered`: what a worker has seen as succeeded has succeeded (`Sound`), and a child's prerequisites have (`InOrder`). |
| `SummariesAreComplete` | `SummaryIsComplete` | the same invariant, at the phase that sums up. |
| `FamilyKeepsLifecycle` | `KeepsLifecycle` | `Alive`: every step moves each row along the diagram. |
| `TasksHaveOneChild` (`Punctual`) | `OneChildPerTask` | `Traced`: children stem from the present plan or are stopped (`Lineage`), a worker's copy is the parent's state with the children found since (`Grown`), one about to submit knows of none (`Fresh`); and only one worker is inside the parent (`Owning`). |
| `NobodyIsLeftBehind` (`Punctual`) | `NoChildOutlivesParent` | `Traced`: a worker that gives a plan up has yet to stop whatever is at work (`Halting`), and a parent succeeds from its summary only (`Signed`). |
| *WorkflowRuns_proofs* | | |
| `RunsHaveOneExecutor` | `OneExecutor` | `Custody`: leases lapse under dead owners only (`Lapses`), and the run a worker is inside is its own or was cancelled under it (`Holding`). |
| `ConsentIsAsked` | `GatedOnlyIfApproved` | `Asking`: a write that needs consent asks once; while a worker is about to ask, nobody else can be. |
| *WorkflowRecovery_proofs* | | |
| `NoWriteIsRepeatedBlindly` | `NoBlindRepeat` | the write a dead worker leaves open is the last row of its run (`DoubtLast`), and as long as it is open no worker comes to hold the run (`DoubtFree`); an open row says what its worker is at (`Ours`), and the row a request looked at stays (`Looked`). |
| `WorkflowTypeCorrect` | `TypeOK` | the invariant above and `Counted`: a crash leaves one unfinished row, a refused check-in another, of a run that is over then (`Tidy`). |
| `AttentionCanBeGiven` | `AttentionIsAnswerable` | what a worker is at, and every write in doubt, is still in the queue of the row (`Queued`, `DoubtQueued`); a run that needs attention shows its latest doubt in a pending wait (`Shown`). |
| *Services_proofs* | | |
| `PlansAreJudgedRightly` | `VerdictIsRight` | what is done is closed under prerequisites and can be ordered (`Closed`, `Ordered`); a rejected plan's remaining tasks are a set in which each waits for another. |
| `ScriptsRunAlone` | `RunsAreExclusive` | a run that is queued or at work holds the key (`KeyHolders`); a challenge can be answered only while no successor of it is at work or of unknown end, and one reply at a time has it in hand (`Answers`). |
| `ConnectionsAreClean` | `BorrowedIsClean` | `IdleIsClean`: what lies in a pool is rolled back, or dead and found out by the borrower's ping. |
| `NotificationsKeepTheirTurn` | `DeliveredOnceInOrder` | `InTurn`: what is held or was delivered came when each earlier row of its tenant was confirmed, given up or had waited for its recipient; `HeldOnce`: as long as a row's lease never ended one dispatcher holds it; `Recorded`, `InFront`: rows say what was done, and are there in the order of their ids. |
| *MCServices_proofs* | | |
| `RemindersAreOnTheirWay` | `SendingIsUnderWay` | `OnItsWay`: the step of the job or the outbox row that belongs to a claimed reminder. |
| `StepsActOnWhatTheyRead` | `ActsOnWhatItRead` | `ForItsFailure`: what a turn counts as failed is what it asked; `FlowSound`: what a member read and what the row says agree as long as the revision does. |
| `EverythingIsHandledOnce` | `HandledOnce` | one invariant per part: `Handed` (a message is in one hand, and there is one consumer that takes new ones), `AnsweredOnce` (one publisher inserts), `CrawlSound` (below), `FlowSound` (`FiresOnce`: due times before the next one have one run). |
| *ServicesRows_proofs* | | |
| `WorkIsInHand` | `WorkIsAccountedFor` | `RowsOpen`: a run under way has its row; `CodexSound`: the slots that are not free are with callers, and a task that is active is some caller's; `HandlesAreTold`: the handle a task has on record is that of a turn of this task which has not ended, and is told of the task's mark; `FlowSound` as above. |
| `DerivedFollows` | `DerivedIsTrue` | `KnowledgeSound`: what a request has in hand is of one text (`HoldsOneText`), and one overtaken by another does not write; `MemorySound`: a file is made of rows that are the active ones, or somebody who changed them since is on the way to make it anew (`Noticed`), or was and ended without; `CatalogSound`: between handler and pointers the process runs what the holder of the lock publishes or deletes (`Wanted`), else what is active, but for what is `unrecorded`. |
| `ServicesTypesHold` | `ServicesTypeOK` | the invariants above and, for the parts whose safety did not need all types, what they leave open: `OutboxTypes` (who is idle holds no batch), `SourceTypes` (no pool exceeds `pool_size`), `ScriptTypes`, `GraphTypes`, `InboxTypes`, `RoutingTypes` (attempts stay within their bound), `PublicationTypes`, `CrawlTypes` (what is stored of a page is a version it had). |

`CrawlSound` joins six facts: a running crawl has one thread, alive or ended under
it, and a thread a running crawl; the address under way is the one in that thread's hands; links
are added within the depth; tries are counted (`TriedEnough`); seeds come first,
as far as there is room; nothing waits when a run is concluded. That the
frontier never exceeds `MaxPages` needs cardinalities, from `FiniteSetTheorems`.

In `MCServices_proofs` and `ServicesRows_proofs` each part has a lemma that a step of the whole is a step
of that part or leaves its variables alone (`TodoSteps`, `FlowSteps`, ...); the
invariant of a part is then proved as if it stood alone. Where an argument in `Services_proofs` or
`WorkflowRecovery_proofs` needs an induction over numbers it is made by a least
counterexample (`LeastNumber`).

What stays with TLC, and why:

- Liveness (`EveryRunSettles`, `TreeSettles`, `RunSettles`, `MessagesSettle`,
  `ChangesTakeEffect`, `CallsEnd`): fairness and `ENABLED` are beyond the
  prover.
- The findings, which are counterexamples.

Every invariant and every action property of a passing run is stated by one of
these theorems: those of the table that name a hypothesis under it, all others
for every value of the constants.

No module uses `RECURSIVE`; theorems whose hypothesis is an operator are not
used, since none of the provers at hand can instantiate them.

## 6. Not modelled, and why

- Wording, prompts, tool descriptions, message compaction: no property depends
  on them.
- Agent, subworkflow and `for_each` nodes, test runs of workflows; a second run
  of the organization.
- The validation of workflow definitions and search in knowledge bases: pure,
  large, and without a second step for anything to come in between.
- Adapters, drivers, tools, models: external; they act, answer or fail.
- The approvals of the conversation path (`services/approvals.py`): in memory,
  with a timer that races the answer; a candidate.
- Migrations, audit logs, analytics, static assets, deployment: nothing is
  decided by them while the system runs.
- Single guarded updates of a row by one request (organizations, members,
  credentials): there is no second step for anything to go wrong in between.

What each component leaves out is in its note in `PROJECT.json`.

## 7. Plan

1. `WorkflowRuns`: a property for the answered wait that sets nothing going; an
   instance with two runs in which the organization's limit bites; agent nodes,
   composed with `RunLifecycle` for the child.
2. `ApprovalStore`: a timer against an answer.
3. Pure algorithms against reference definitions: `_next_nodes()`, the search
   for cycles among workflows, `compact_messages()`.

The number of TLC runs is kept small on purpose: one per question. The three
findings are to be kept only while the code has them.
