CONSTANTS
  w1 = w1
  w2 = w2
  j1 = j1
  j2 = j2
  old = old
  new = new
  Null = Null
  Workers = {w1, w2}
  Urls = {old, new}
  Jobs = {j1, j2}
  ConfigUrl <- MCConfigUrl
  Skew <- NoSkew
  Delays = {1, 2}
  ClaimLimit = 2
  RetryWindow = 2
  StaleLock = 1
  TaskBound = 3
  MaxTime = 4
  QuietFrom = 3
  MaxAttempts = 2
  MaxFaults = 1
SPECIFICATION Spec
INVARIANTS
  TypeOK
  AttemptLogMatchesCount
  AttemptLogTellsStatus
  LockHolderIsCurrent
  LockLostOnlyWhenStale
  PostedUrlIsStored
PROPERTIES EndedJobsAreFrozen
