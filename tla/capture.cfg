SPECIFICATION FairSpec
CONSTANTS
  Slots = 2
  BlockCapacity = 2
  MaxArrivals = 4
  MaxEmptyBlocks = 1
  MaxPacketsChoices = {0, 1}
  DestroyDuringEntry = FALSE
INVARIANTS
  RingMappedWhileRead
  RingInStep
PROPERTIES
  ImplementsChannel
  DestructorTerminates
CHECK_DEADLOCK FALSE
