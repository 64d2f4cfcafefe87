CONSTANTS
  w1 = w1
  w2 = w2
  j1 = j1
  j2 = j2
  old = old
  new = new
  Null = Null
  Workers = {w1, w2}
  Urls = {old, new}
  Jobs = {j1}
  ConfigUrl <- MCConfigUrl
  Skew <- NoSkew
  Delays = {1, 2}
  ClaimLimit = 1
  RetryWindow = 3
  StaleLock = 1
  TaskBound = 3
  MaxTime = 5
  QuietFrom = 5
  MaxAttempts = 3
  MaxFaults = 0
SPECIFICATION Spec
INVARIANTS TwoHundredMeansDelivered
