CONSTANTS
  MaxSession = 2
  MaxUtterances = 3
  MaxTtsEvents = 1
SPECIFICATION FairScreenSpec
INVARIANTS
  ScreenTypeOK
  OnlyTheActiveTimesOut
  NobodyIsForgotten
  SettledInOrder
  PauseIsResumed
PROPERTY MeetingComesBack
CHECK_DEADLOCK FALSE
