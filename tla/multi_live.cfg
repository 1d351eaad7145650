SPECIFICATION FairSpec
CONSTANTS
    a = a
    b = b
    c = c
    Conn = {a}
    NoConn = NoConn
    Denied = {}
    Talkers = {}
    Closers = {a}
    Stalls = {a}
    MaxSessions = 1
    Tokens <- AttachedTokens
    MaxTyped = 3
    Signals = TRUE
INVARIANTS KeysInOrder
PROPERTIES DeadSessionFreed TypedIsHandled StopEnds
