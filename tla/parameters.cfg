CONSTANTS
  app = app
  mail = mail
  MaxSigned = 524287
  Margin = 5
  MaxClaimLimit = 100
  Names <- MCNames
  Configs <- MCConfigs
  MaxFailures = 8
SPECIFICATION Spec
INVARIANTS
  AcceptedConfigFits
  NameFindsItsDestination
  PaceIsKept
CHECK_DEADLOCK FALSE
