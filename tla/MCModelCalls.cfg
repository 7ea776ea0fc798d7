SPECIFICATION Spec
CONSTANTS
  Bound = 8
  Longest = 6
  Payloads <- MCPayloads
  MaxAttempts = 3
  HasComplexModel = TRUE
  Evidence = {"e1", "e2", "e3"}
  UrlOf <- MCUrlOf
  Queries = {"q1", "q2", "bad"}
  QueryLists <- MCQueryLists
  Citations <- MCCitations
  MaxQueries = 2
  MaxItems = 1
  MessageBound = 9
INVARIANT AttemptsAreShared
INVARIANT KeepsAllThatFits
INVARIANT AnswersFitTheLoop
INVARIANT FailuresHaveACause
