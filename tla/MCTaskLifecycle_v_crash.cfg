SPECIFICATION FairSpec
CONSTANTS
  t1 = t1
  t2 = t2
  w1 = w1
  w2 = w2
  NoTask = NoTask
  Tasks = {t1}
  Workers = {w1, w2}
  MaxAttempts = 2
  MaxAppends = 1
  MaxClaims = 0
  MaxQueued = 1
  Faults = {"crash"}
PROPERTY EveryAttemptEnds
