CONSTANTS
  Langs = {vi}
  Off = Off
  MaxSession = 3
  MaxCalls = 2
  MaxEvents = 1
SPECIFICATION FairSpeechSpec
PROPERTY ListeningIsHeard
CHECK_DEADLOCK FALSE
