SPECIFICATION FairSpec
CONSTANTS
  None = None
  MaxRetry = 2
  RetryPeriod = 4
  MinHealthyPeriod = 8
  Second = 2
INVARIANT RetriesBounded
PROPERTIES RetriesSpaced UnhealthyRemediated
