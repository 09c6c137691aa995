SPECIFICATION FairSpec
CONSTANTS
  Ecu = {e1}
  Counter = {1, 2}
  MaxRetries = 1
  MaxHistory = 2
  SequenceTimeout = 0
  MaxAge = 1
  TrackErase = TRUE
  TrackVerification = TRUE
  MaxMessages = 6
PROPERTY
  PollKeepsErase
CHECK_DEADLOCK FALSE
