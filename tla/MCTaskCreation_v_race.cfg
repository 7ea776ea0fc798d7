SPECIFICATION Spec
CONSTANTS
  r1 = r1
  r2 = r2
  other = other
  bare = bare
  mon1 = mon1
  mon2 = mon2
  k = k
  NoKey = NoKey
  NoRow = NoRow
  Requests = {r1, r2}
  KeyOf <- MCKeyOf
  BodyOf <- MCBodyOf
  Monitors = {}
  MaxFailures = 0
CHECK_DEADLOCK FALSE
INVARIANT LostRaceIsAnswered
