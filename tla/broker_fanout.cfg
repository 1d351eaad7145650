SPECIFICATION Spec
CONSTANTS
    p1 = p1
    p2 = p2
    p3 = p3
    p4 = p4
    Conn = {p1, p2, p3}
    NoConn = NoConn
    Denied = {}
    Breaks = {p1}
    Readers = {}
    MaxClients = 2
    MaxBuffer = 4
    ReadMax = 2
    NumFd = 3
    BacklogMax = 1
    SockBuf = 3
    Script <- TalkScript
    Chat = TRUE
    FormatChat <- MCFormat
    LabelLen = 1
    EscLen = 1
    IdMod = 4
    AllocFails = TRUE
    Signals = FALSE
INVARIANTS TypeOK QueueBounded DescriptorsOwned EventsAreFresh StreamIntact
    LinesLabelled LabelsIdentify
