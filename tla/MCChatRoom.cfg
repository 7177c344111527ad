CONSTANTS
  Requests = {r1, r2}
  MaxMessages = 3
  MaxUnsent = 1
  MaxEvents = 2
  MaxList = 2
  Keep = 1
SYMMETRY RequestsAreAlike
SPECIFICATION RoomSpec
INVARIANTS
  RoomTypeOK
  NoOtherMessageIsMissing
  NoOtherUnsendIsMissing
CHECK_DEADLOCK FALSE
