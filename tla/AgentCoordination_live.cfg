SPECIFICATION FairSpec
CONSTANTS
  t1 = t1
  t2 = t2
  c1 = c1
  c2 = c2
  c3 = c3
  w1 = w1
  w2 = w2
  Tasks = {t1}
  Children = {c1}
  Workers = {w1, w2}
  StallingWorkers = {w1}
  MaxAnswers = 1
  MaxCrashes = 1
PROPERTY KeepsLifecycle
PROPERTY TreeSettles
