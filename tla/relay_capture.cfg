SPECIFICATION Spec
CONSTANTS
    Setups <- FileCapture
    MaxBytes <- TwoEach
    ReadMax = 2
    RecLen = 1
    SockBuf = 1
INVARIANT CaptureComplete
