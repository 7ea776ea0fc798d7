SPECIFICATION FairSpec
CONSTANTS
  a = a
  b = b
  c = c
  rawB = rawB
  NoPage = NoPage
  Urls = {a, b, c}
  Spellings = {a, b, c, rawB}
  MaxSources = 2
  MaxIterations = 2
  MaxTokens = 5
  PlannerTokens = 2
  SynthesisCap = 4
CHECK_DEADLOCK FALSE
INVARIANT BudgetsAreKept
INVARIANT NoKnownUrlIsFetchedAgain
INVARIANT CancelStopsAtTheNextBoundary
INVARIANT CompletionIsHonest
PROPERTY AttemptEnds
