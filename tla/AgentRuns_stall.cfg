SPECIFICATION Spec
CONSTANTS
  r1 = r1
  r2 = r2
  w1 = w1
  w2 = w2
  plain = plain
  gated = gated
  other = other
  ask = ask
  a1 = a1
  a2 = a2
  Kind <- Kinds
  Resource <- OneWorkspace
  Runs = {r1}
  Workers = {w1, w2}
  Admins = {"adm"}
  Calls = {plain, gated}
  Approvals = {a1}
  Conversation <- OneConversation
  MaxRounds = 1
  MaxQueue = 2
  MaxCrashes = 0
  StallingWorkers = {w1, w2}
SYMMETRY Symmetric
INVARIANT TypeOK
INVARIANT AtMostOnce
INVARIANT GatedOnlyIfApproved
INVARIANT UnknownIsReconcilable
PROPERTY ProgressNeverRollsBack
PROPERTY ExclusiveOwnership
PROPERTY RecordedResultIsFinal
