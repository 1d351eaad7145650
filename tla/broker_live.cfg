SPECIFICATION FairSpec
CONSTANTS
    p1 = p1
    p2 = p2
    p3 = p3
    p4 = p4
    Conn = {p1, p2, p4}
    NoConn = NoConn
    Denied = {p4}
    Breaks = {p1}
    Readers = {p1}
    MaxClients = 3
    MaxBuffer = 2
    ReadMax = 2
    NumFd = 2
    BacklogMax = 1
    SockBuf = 1
    Script <- RawScript
    Chat = FALSE
    FormatChat <- MCFormat
    LabelLen = 1
    EscLen = 2
    IdMod = 16
    AllocFails = FALSE
    Signals = TRUE
PROPERTIES ImplementsBroadcast SignalStops DeadPeerFreed EventuallyDelivered
