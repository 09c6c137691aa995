SPECIFICATION DtcSpec
CONSTANTS
  LogicalAddress = {1, 2}
  Dtc = {1, 2, 3}
  Status <- MCStatus
  DtcLists <- MCDtcLists
  max_dtcs_per_ecu = 2
  max_total_dtcs = 3
  max_cleared_history = 1
  keep_cleared_history = TRUE
  MaxCalls = 4
INVARIANTS
  LimitsKept
  EvictedOldestFirst
  ListenerKnowsStored
CHECK_DEADLOCK FALSE
