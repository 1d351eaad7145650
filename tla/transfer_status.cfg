SPECIFICATION Spec
CONSTANTS
    ByteBits = 2
    AddrBytes <- MCAddrBytes
    Scenarios <- PlainFile
    Faults = {"reset"}
    File <- MCFile
    MaxAddr = 1
    ReadMax = 2
    WireMax = 3
    HeadMax = 4
    RepSize = 10
INVARIANT SuccessMeansComplete
CHECK_DEADLOCK FALSE
