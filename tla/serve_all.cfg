SPECIFICATION FairSpec
CONSTANTS
    a = a
    b = b
    c = c
    Conn = {a, b, c}
    NoConn = NoConn
    Denied = {c}
    Configs <- AllConfigs
    NumFd = 7
INVARIANTS TypeOK DescriptorsBalanced ChildrenReaped KeepOpenStays
PROPERTIES NextClientServed ListenerStops
