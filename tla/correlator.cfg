SPECIFICATION Spec
CONSTANTS
  tester = tester
  ecu = ecu
  Link <- MCLink
  Service = {read, write}
  Timings <- MCOneTiming
  Delays = {0}
  MaxPendingPerAddress = 2
  MaxCompletedHistory = 2
  MaxAge = 2
  MaxRequests = 3
  MaxResponses = 3
SYMMETRY MCSymmetry
INVARIANTS
  CompletedPairsSound
  AnsweredOldestFirst
  StatisticsBalance
CHECK_DEADLOCK FALSE
