SPECIFICATION Spec
CONSTANTS
    a = a
    b = b
    c = c
    Conn = {a, b, c}
    NoConn = NoConn
    Denied = {}
    Talkers = {b}
    Closers = {b}
    Stalls = {}
    MaxSessions = 2
    Tokens <- ConsoleTokens
    MaxTyped = 2
    Signals = FALSE
INVARIANTS TypeOK SessionsDistinct ActiveLive
PROPERTY SendReachesItsSession
