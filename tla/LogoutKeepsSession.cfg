CONSTANTS
  MaxLogins = 2
  MaxReads = 1
SPECIFICATION SessionSpec
PROPERTY LogoutIsFinal
CHECK_DEADLOCK FALSE
