SPECIFICATION FairSpec
CONSTANTS
    Setups <- AllSetups
    MaxBytes <- LongThenShort
    ReadMax = 2
    RecLen = 3
    SockBuf = 1
INVARIANTS TypeOK RelayExact EofFollowsData AnswerDelivered
PROPERTIES Delivered EofForwarded FilterFinishes SignalStops TimeoutEnds
