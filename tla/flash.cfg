SPECIFICATION FairSpec
CONSTANTS
  Ecu = {e1, e2}
  Counter = {1, 2}
  MaxRetries = 1
  MaxHistory = 2
  SequenceTimeout = 0
  MaxAge = 1
  TrackErase = TRUE
  TrackVerification = TRUE
  MaxMessages = 5
INVARIANTS
  HistorySound
  AcknowledgedInOrder
PROPERTY
  NoSequenceActiveForever
CHECK_DEADLOCK FALSE
