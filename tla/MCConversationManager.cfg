CONSTANTS
  Langs = {vi, ja}
  Off = Off
  MaxSession = 3
  MaxCalls = 2
  MaxEvents = 1
  MaxMessages = 1
  MaxSeq = 1
  MaxChunks = 1
SPECIFICATION MCSpec
ACTION_CONSTRAINT LanguageChangesOnce
INVARIANTS
  TypeOK
  ErrorEndsMeeting
  TranslatingIsTrue
  EndIsShown
PROPERTIES
  ImplementsMeeting
  WaitingEnds
CHECK_DEADLOCK FALSE
