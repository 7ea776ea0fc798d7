SPECIFICATION FairStreamingSpec
CONSTANTS
  t1 = t1
  w1 = w1
  w2 = w2
  c1 = c1
  NoTask = NoTask
  Tasks = {t1}
  Workers = {w1}
  MaxAttempts = 2
  MaxAppends = 1
  MaxClaims = 1
  MaxQueued = 1
  Faults = {"defect", "statement"}
  Clients = {c1}
  Follows <- FollowsFirst
INVARIANT ReceivedIsAPrefix
INVARIANT ResumeIsNeverRefused
INVARIANT QueuedTaskHasAJob
PROPERTY EveryRowArrives
PROPERTY EveryAttemptEnds
