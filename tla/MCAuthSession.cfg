CONSTANTS
  MaxLogins = 3
  MaxReads = 1
SPECIFICATION FairSessionSpec
INVARIANTS
  SessionTypeOK
  TokenIsOfStore
  HomeHasSession
PROPERTIES
  ExpiryIsHandled
CHECK_DEADLOCK FALSE
