CONSTANTS
  w1 = w1
  w2 = w2
  j1 = j1
  j2 = j2
  old = old
  new = new
  Null = Null
  Workers = {w1, w2}
  Urls = {old, new}
  Jobs = {j1}
  ConfigUrl <- MCConfigUrl
  Skew <- SplitClocks
  Delays = {2, 3}
  ClaimLimit = 1
  RetryWindow = 5
  StaleLock = 1
  TaskBound = 3
  MaxTime = 7
  QuietFrom = 7
  MaxAttempts = 3
  MaxFaults = 2
SPECIFICATION Spec
INVARIANTS
  BackoffIsKept
  FailedOnlyAfterDeadline
PROPERTIES LedgerSpec

\* Two faults may crash both workers, and then nothing moves once the clock stops.
CHECK_DEADLOCK FALSE
