SPECIFICATION Spec
CONSTANTS
  t1 = t1
  t2 = t2
  w1 = w1
  w2 = w2
  NoTask = NoTask
  Tasks = {t1}
  Workers = {w1, w2}
  MaxAttempts = 2
  MaxAppends = 2
  MaxClaims = 1
  MaxQueued = 2
  Faults = {"crash", "tries", "timeout", "defect", "statement", "handler", "enqueue", "redis"}
SYMMETRY WorkerSymmetry
INVARIANT SingleRunner
INVARIANT RunnersHaveARunningTask
INVARIANT NothingAfterOutcome
INVARIANT EventLogGapFree
INVARIANT OneOutcomePerAttempt
PROPERTY HistoryIsKept
PROPERTY ImplementsContract
