SPECIFICATION StreamsFairSpec
CONSTANTS
    Keys = {k1}
    DatagramSizes = {2, 3, 4}
    FragmentTimeout = 1
    MaxDatagrams = 2
    Messages = {m1}
    MessageLength = 4
    SegmentLengths = {0, 1, 2, 3}
    MaxMessageSize = 3
    TpTimeout = 5
    Hole = hole
    Connections = {c1, c2}
    TimeWaitTimeout = 1
    HalfOpenTimeout = 2
    MaxSegments = 5
INVARIANTS DeliveredAsSent ArrivedBytesKept DataAfterHandshake
PROPERTIES HalfOpenEnds
