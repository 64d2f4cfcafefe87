CONSTANTS
  WorkerCount = 2
  Jobs = {j1, j2}
  ClaimLimit = 1
  DrainTimeout = 2
  ServeBound = 1
  BatchBound = 2
  SignalBy = 1
  MaxTime = 3
  MaxFaults = 1
SPECIFICATION FairSpec
INVARIANTS ExitIsBounded
PROPERTIES DueRowIsClaimed
