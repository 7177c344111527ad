CONSTANTS
  MaxSession = 3
  MaxMessages = 2
  MaxSeq = 2
  MaxChunks = 1
SPECIFICATION QueueSpec
INVARIANT SerialTranslation
CHECK_DEADLOCK FALSE
