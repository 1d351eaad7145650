SPECIFICATION FairSpec
CONSTANTS
    Setups <- TlsWithTimeout
    MaxBytes <- TwoEach
    ReadMax = 1
    RecLen = 1
    SockBuf = 1
PROPERTY TimeoutEnds
