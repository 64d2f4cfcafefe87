CONSTANTS
  WorkerCount = 2
  Jobs = {j1, j2}
  ClaimLimit = 1
  DrainTimeout = 2
  ServeBound = 1
  BatchBound = 7
  SignalBy = 1
  MaxTime = 7
  MaxFaults = 1
SPECIFICATION HangingSpec
INVARIANTS
  TypeOK
  OneLateClaim
  StrandedAtMostOneClaim
  GivenUpOnlyWhenOverdue
  ExitIsBounded
PROPERTIES
  CycleSpec
  SignalEndsProcess
