SPECIFICATION FairSpec
CONSTANTS
  KeyLen = 65
  VerifyLen = 32
  MaxReads = 6
  MaxAcks = 5
  LateAcks = FALSE
  MaxFaults = 3
INVARIANTS
  TypeOK KeyIntact
PROPERTIES
  ExchangeEnds OnlySilenceFails
