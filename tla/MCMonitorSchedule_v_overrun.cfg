SPECIFICATION FairSpec
CONSTANTS
  m1 = m1
  m2 = m2
  h1 = h1
  h2 = h2
  Monitors = {m1}
  Alerting = {m1}
  Interval = 1
  Horizon = 2
  Contents = {h1}
  MaxAttempts = 1
  Faults = {"overrun"}
PROPERTY DueMonitorsAreLaunched
