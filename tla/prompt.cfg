CONSTANTS
  w1 = w1
  w2 = w2
  j1 = j1
  j2 = j2
  old = old
  new = new
  Null = Null
  Workers = {w1, w2}
  Urls = {old, new}
  Jobs = {j1, j2}
  ConfigUrl <- MCConfigUrl
  Skew <- NoSkew
  Delays = {1, 2}
  ClaimLimit = 2
  RetryWindow = 2
  StaleLock = 2
  TaskBound = 2
  MaxTime = 5
  QuietFrom = 3
  MaxAttempts = 9
  MaxFaults = 1
SPECIFICATION FairSpec
INVARIANTS
  OneTaskPerJob
  AckedIsRecorded
PROPERTIES EveryJobEnds
