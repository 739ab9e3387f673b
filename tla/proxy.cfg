\* A TCP connection and a datagram on two slots, next to the last flow number.  Two
\* reads of one unit for an event: they run out while the client sends four.
SPECIFICATION FairSpec
CONSTANTS
    NConn = 1
    Grams = {g1}
    MaxConn = 2
    MaxFlow = 20
    StartFlow = 18
    RetryCnt = 2
    RecvMax = 1
    SendLimit = 0
    UdpAutoClose = TRUE
    Expire = TRUE
    HasClose = TRUE
    IpLimit = TRUE
    MaxReq = 2
    MaxUnits = 4
    FlowCap = 5
    None = None
INVARIANTS TableExact RightAnswers InOrder
PROPERTY Served
CHECK_DEADLOCK FALSE
