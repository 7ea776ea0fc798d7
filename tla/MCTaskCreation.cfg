SPECIFICATION FairSpec
CONSTANTS
  r1 = r1
  r2 = r2
  other = other
  bare = bare
  mon1 = mon1
  mon2 = mon2
  k = k
  NoKey = NoKey
  NoRow = NoRow
  Requests = {r1, r2, other, mon1}
  KeyOf <- MCKeyOf
  BodyOf <- MCBodyOf
  Monitors = {mon1}
  MaxFailures = 2
CHECK_DEADLOCK FALSE
INVARIANTS OneRowPerKey SameKeySameRow
PROPERTY EveryClientIsAnswered
