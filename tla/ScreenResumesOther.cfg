CONSTANTS
  MaxSession = 3
  MaxUtterances = 2
  MaxTtsEvents = 1
SPECIFICATION ScreenSpec
PROPERTY ResumesSameSession
CHECK_DEADLOCK FALSE
