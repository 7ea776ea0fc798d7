SPECIFICATION Spec
CONSTANTS
  Records <- MCRecords
  Quality <- MCQuality
  RawKey <- MCRawKey
  Key <- MCKey
  Answers <- MCAnswers
  MaxAdapters = 3
  MaxResults = 3
  Urls <- MCRecords
  Fetchable = {"a", "a/", "A", "b", "c"}
  Blocked = {1}
  Resolutions <- MCResolutions
  MaxRedirects = 2
  MaxAttempts = 3
  HasComplexModel = FALSE
  MaxEnriched = 2
INVARIANT ResultsAreComplete
INVARIANT DegradationIsTold
INVARIANT SnippetsAreGrounded
INVARIANT FetchesAreContained
