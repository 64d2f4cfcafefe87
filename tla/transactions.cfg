CONSTANTS
  Null = Null
  Jobs = {j1}
  Workers = {w1, w2}
  Urls = {old, new}
  ClaimLimit = 1
  RetryWindow = 1
  StaleLock = 1
  Sessions = {s1, s2}
  MaxAttempts = 2
  MaxFaults = 1
SPECIFICATION FairTxnSpec
INVARIANTS
  TxnTypeOK
  CommitIsStillDue
PROPERTIES
  AtomicSpec
  TransactionsEnd
