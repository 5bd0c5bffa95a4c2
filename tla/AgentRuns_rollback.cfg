SPECIFICATION Spec
CONSTANTS
  r1 = r1
  r2 = r2
  w1 = w1
  w2 = w2
  plain = plain
  gated = gated
  other = other
  ask = ask
  a1 = a1
  a2 = a2
  Kind <- Kinds
  Resource <- OneWorkspace
  Runs = {r1}
  Workers = {w1}
  Admins = {adm1, adm2}
  Calls = {plain, gated, other}
  Approvals = {a1, a2}
  Conversation <- OneConversation
  MaxRounds = 2
  MaxQueue = 1
  MaxCrashes = 1
  StallingWorkers = {}
SYMMETRY SymmetricRequests
INVARIANT WaitingIsAnswerable
INVARIANT GatedOnlyIfApproved
