CONSTANTS
  MaxSession = 4
  MaxMessages = 3
  MaxSeq = 4
  MaxChunks = 2
SPECIFICATION FairQueueSpec
INVARIANTS
  QueueTypeOK
  QueueIsCurrent
  QueueIsDrained
  NoDoubleTranslation
  PendingIsProcessing
PROPERTIES
  ImplementsTimeline
  NoMessageLost
  TranslatedIsFinal
  PendingIsAnswered
CHECK_DEADLOCK FALSE
