CONSTANTS
  Langs = {vi}
  Off = Off
  MaxSession = 3
  MaxCalls = 2
  MaxEvents = 1
SPECIFICATION SpeechSpec
INVARIANT MicClosedWhenNotRunning
CHECK_DEADLOCK FALSE
