CONSTANTS
  sent = sent
  bounced = bounced
  Null = Null
  DomainLength = 3
  SenderLength = 3
  Characters <- MCCharacters
  Destinations <- QuotedDestinations
  Payloads <- QuotedPayloads
SPECIFICATION Spec
INVARIANT
  SenderDomainIsExtracted
CHECK_DEADLOCK FALSE
