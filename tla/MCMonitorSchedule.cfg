SPECIFICATION FairSpec
CONSTANTS
  m1 = m1
  m2 = m2
  h1 = h1
  h2 = h2
  Monitors = {m1}
  Alerting = {m1}
  Interval = 2
  Horizon = 6
  Contents = {h1, h2}
  MaxAttempts = 2
  Faults = {"redis"}
INVARIANT CronNeverCollides
INVARIANT ScheduleDoesNotDrift
INVARIANT RunsCompareWithTheRunBefore
 
PROPERTY ScheduleNeverMovesBack
PROPERTY QueuedTasksAreStarted
PROPERTY DueMonitorsAreLaunched
PROPERTY EveryCompletionIsRecorded
