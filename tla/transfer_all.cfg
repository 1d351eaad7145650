SPECIFICATION Spec
CONSTANTS
    ByteBits = 2
    AddrBytes <- MCAddrBytes
    Scenarios <- AllScenarios
    Faults = {"open", "signal", "reset", "io"}
    File <- MCFile
    MaxAddr = 2
    ReadMax = 2
    WireMax = 3
    HeadMax = 4
    RepSize = 10
INVARIANTS TypeOK LedgerSound TransferExact TunnelExact AccessDecides
PROPERTY TransferEnds
CHECK_DEADLOCK FALSE
