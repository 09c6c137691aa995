SPECIFICATION FairSpec
CONSTANTS
  tester = tester
  ecu = ecu
  Link <- MCLink
  Timings <- MCTimings
  Delays = {0}
  MaxPendingPerAddress = 2
  MaxCompletedHistory = 1
  MaxAge = 2
  MaxRequests = 2
  MaxResponses = 2
  SessionType = {"extended"}
  AccessType = {1, 2}
  S3 = {0, 1}
INVARIANTS
  NegativesForwarded
  ListenerFollowsSessions
PROPERTIES
  SessionsEnd
  RequestsEnd
CHECK_DEADLOCK FALSE
