SPECIFICATION Spec
CONSTANTS
  m1 = m1
  m2 = m2
  h1 = h1
  h2 = h2
  Monitors = {m1}
  Alerting = {m1}
  Interval = 2
  Horizon = 4
  Contents = {h1, h2}
  MaxAttempts = 1
  Faults = {"late_cron", "overrun", "redis", "crash", "manual"}
INVARIANT OneRunPerTask
INVARIANT AlertsAreSentOnce
