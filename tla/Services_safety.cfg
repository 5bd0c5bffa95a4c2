SPECIFICATION ServicesSpec
CHECK_DEADLOCK FALSE
CONSTANTS
  Parts = {"outbox", "todo", "inbox", "source", "schedule", "routing", "script", "plan", "knowledge", "publication", "crawl", "codex", "versions", "memory", "resources"}
  Rows = {1, 2}
  Tenants = {"a"}
  Owner <- OneTenant
  Images = {1}
  Dispatchers = {d1, d2}
  Limit = 2
  MaxAttempts = 2
  MaxFaults = 1
  Horizon = 3
  Messages = {1, 2}
  Unaddressed = {2}
  Consumers = {c1, c2}
  MaxChanges = 1
  MaxCrashes = 1
  Calls = {b1, b2}
  MaxSize = 1
  MaxReloads = 1
  Schedules = {"s1"}
  Registrars = {"timer", "main", "s1"}
  MaxSaves = 3
  Profiles = {"p", "q"}
  Turns = {t1, t2}
  Attempts = 2
  MaxRebinds = 1
  Runs = {1, 2, 3}
  Replies = {y1}
  Requests = {q1, q2}
  Texts = {"t", "u"}
  Categories = {"k"}
  NoText = NoText
  MaxWrites = 1
  Names = {"t1", "t2", "t3"}
  MaxFailures = 1
  External = TRUE
  MaxEdits = 0
  Results = {1}
  Publishers = {p1, p2}
  Notes = {}
  MaxLosses = 1
  Crawls = {1, 2}
  Fetchers = {w1, w2}
  Urls = {"x"}
  Seeds = {"x"}
  Links <- LinksToAll
  MaxPages = 1
  MaxDepth = 1
  FetchAttempts = 1
  MaxVersions = 1
  MaxRestarts = 1
  Tasks = {1}
  Callers = {e1, e2}
  MaxSlots = 2
  MaxErrors = 1
  MaxStops = 1
  Members = {"a", "b"}
  Timers = {"v", "w"}
  Definitions <- Drafts
  FirstDraft <- Scheduled
  MaxRevision = 2
  MaxPublished = 2
  MaxManual = 0
  Latest = 2
  Facts = {"f", "g"}
  Topic <- OneTopic
  Users = {"u"}
  MaxEvents = 1
  MaxRequests = 1
  MaxMishaps = 1
  MaxRefusals = 0
  Resources = {"skill", "vectors"}
  Kind <- HotAndCold
  Payloads <- TwoPayloads
  Seeded <- VectorsSeeded
  Editors = {e1, e2}
  MaxBoots = 1
INVARIANT ServicesTypeOK
INVARIANT DeliveredOnceInOrder
INVARIANT SendingIsUnderWay
INVARIANT HandledOnce
INVARIANT BorrowedIsClean
INVARIANT WorkIsAccountedFor
INVARIANT RunsAreExclusive
INVARIANT VerdictIsRight
INVARIANT DerivedIsTrue
PROPERTY ActsOnWhatItRead
VIEW View
