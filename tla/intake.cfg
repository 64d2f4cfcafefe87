CONSTANTS
  oldRelease = oldRelease
  newRelease = newRelease
  e1 = e1
  e2 = e2
  d1 = d1
  d2 = d2
  Null = Null
  Processes = {oldRelease, newRelease}
  Events = {e1, e2}
  Destinations = {d1, d2}
  Copies = {1, 2}
  Match <- MCMatch
  PoolSize = 1
  MaxFaults = 1
SPECIFICATION FairSpec
INVARIANTS
  TypeOK
  StoredOnceAndWhole
PROPERTIES
  IntakeSpec
  EveryEventIsAnswered
