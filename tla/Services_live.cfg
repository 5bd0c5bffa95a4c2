SPECIFICATION ServicesFairSpec
CHECK_DEADLOCK FALSE
CONSTANTS
  Parts = {"outbox", "todo", "inbox", "source", "schedule", "routing", "script", "plan", "publication", "crawl", "codex", "versions", "memory"}
  Rows = {1, 2}
  Tenants = {"a"}
  Owner <- OneTenant
  Images = {2}
  Dispatchers = {d1}
  Limit = 2
  MaxAttempts = 1
  MaxFaults = 1
  Horizon = 2
  Messages = {1}
  Unaddressed = {}
  Consumers = {c1, c2}
  MaxChanges = 1
  MaxCrashes = 1
  Calls = {b1}
  MaxSize = 1
  MaxReloads = 1
  Schedules = {"s1"}
  Registrars = {"timer", "main", "s1"}
  MaxSaves = 2
  Profiles = {"p", "q"}
  Turns = {t1}
  Attempts = 2
  MaxRebinds = 1
  Runs = {1, 2}
  Replies = {y1}
  Requests = {q1}
  Texts = {"t", "u"}
  Categories = {"k", "l"}
  NoText = NoText
  MaxWrites = 1
  Names = {"t1", "t2", "t3"}
  MaxFailures = 1
  External = TRUE
  MaxEdits = 0
  Results = {1}
  Publishers = {p1, p2}
  Notes = {3}
  MaxLosses = 1
  Crawls = {1}
  Fetchers = {w1}
  Urls = {"x", "y"}
  Seeds = {"x"}
  Links <- LinksToAll
  MaxPages = 2
  MaxDepth = 1
  FetchAttempts = 2
  MaxVersions = 1
  MaxRestarts = 1
  Tasks = {1}
  Callers = {e1, e2}
  MaxSlots = 2
  MaxErrors = 0
  MaxStops = 0
  Members = {"a"}
  Timers = {"v"}
  Definitions <- Drafts
  FirstDraft <- Scheduled
  MaxRevision = 1
  MaxPublished = 1
  MaxManual = 1
  Latest = 2
  Facts = {"f"}
  Topic <- OneTopic
  Users = {"u"}
  MaxEvents = 1
  MaxRequests = 0
  MaxMishaps = 1
  MaxRefusals = 1
  Resources = {"skill", "vectors"}
  Kind <- HotAndCold
  Payloads <- TwoPayloads
  Seeded <- VectorsSeeded
  Editors = {e1, e2}
  MaxBoots = 1
PROPERTY MessagesSettle
PROPERTY ChangesTakeEffect
PROPERTY CallsEnd
