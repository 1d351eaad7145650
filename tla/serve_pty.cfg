SPECIFICATION FairSpec
CONSTANTS
    a = a
    b = b
    c = c
    Conn = {a, b}
    NoConn = NoConn
    Denied = {}
    Configs <- PtyKeepOpen
    NumFd = 7
PROPERTY SequentialClients
