CONSTANTS
    SegSize = 2
    Alpha = 2
    Beta = 4
    InitialCwnd = 1
    InitialSsThresh = 2
    UintMod = 65536
    MicroSecond = 1
    Second = 60
    TimeMax = 100000
    MaxCwnd = 80
    NumSegs = 2
    RetxThresh = 2
    SackModes = {TRUE}
    LimitedTx = TRUE
    Pacing = FALSE
    DataRetries = 1
    DelAckMax = 1
    Lossy = FALSE
    MaxCopies = 1
    MaxPeerData = 3
    MaxSynAcks = 0
    Rtts <- MCRttsQueued
    Ttls <- MCTtls
SPECIFICATION FairSpec
PROPERTIES Progress
CHECK_DEADLOCK FALSE
