SPECIFICATION Spec
CONSTANTS
  Slots = 2
  BlockCapacity = 2
  MaxArrivals = 4
  MaxEmptyBlocks = 1
  MaxPacketsChoices = {0, 1}
  DestroyDuringEntry = TRUE
INVARIANT
  RingMappedWhileRead
CHECK_DEADLOCK FALSE
