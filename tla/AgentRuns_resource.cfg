SPECIFICATION Spec
CONSTANTS
  r1 = r1
  r2 = r2
  w1 = w1
  w2 = w2
  plain = plain
  gated = gated
  other = other
  ask = ask
  a1 = a1
  a2 = a2
  Kind <- Kinds
  Resource <- OneWorkspace
  Runs = {r1, r2}
  Workers = {w1, w2}
  Admins = {}
  Calls = {plain, ask}
  Approvals = {}
  Conversation <- OwnConversations
  MaxRounds = 1
  MaxQueue = 1
  MaxCrashes = 1
  StallingWorkers = {}
SYMMETRY Symmetric
INVARIANT ResourceExclusive
INVARIANT WorkerOwnsItsRun
PROPERTY ImplementsLifecycle
