CONSTANTS
  Langs = {vi, ja}
  Off = Off
  MaxSession = 3
  MaxCalls = 2
  MaxEvents = 1
SPECIFICATION FairSpeechSpec
INVARIANTS
  SpeechTypeOK
  TimerBelongsToLiveSession
  LiveSessionKeepsListening
  ListeningWasRequested
  SilentErrorsBounded
  NothingHeardAfterDestroy
PROPERTIES
  SilenceIsCounted
  ListensAgain
  DestroyClosesMic
CHECK_DEADLOCK FALSE
