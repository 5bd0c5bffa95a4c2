SPECIFICATION Spec
CHECK_DEADLOCK FALSE
CONSTANTS
  w1 = w1
  w2 = w2
  Runs = {1}
  Nodes <- MCNodes
  Start <- MCStart
  Kind <- MCKind
  OnError <- MCOnError
  Targets <- MCTargets
  MaxRetries = 1
  MaxActive = 2
  Workers = {w1}
  Admins = {}
  MaxCrashes = 0
PROPERTY CanceledRunStaysStopped
