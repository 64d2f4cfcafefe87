CONSTANTS
  sent = sent
  bounced = bounced
  Null = Null
  DomainLength = 3
  SenderLength = 5
  Characters <- MCCharacters
  Destinations <- MCDestinations
  Payloads <- MCPayloads
SPECIFICATION Spec
INVARIANTS
  RoutesAsConfigured
  ExtractedIsNormal
  MailboxDomainIsExtracted
CHECK_DEADLOCK FALSE
