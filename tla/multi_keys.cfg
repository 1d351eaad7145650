SPECIFICATION Spec
CONSTANTS
    a = a
    b = b
    c = c
    Conn = {a}
    NoConn = NoConn
    Denied = {}
    Talkers = {}
    Closers = {}
    Stalls = {}
    MaxSessions = 1
    Tokens <- DetachTokens
    MaxTyped = 3
    Signals = TRUE
INVARIANT KeysReachTheirSession
