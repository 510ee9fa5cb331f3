CONSTANTS
    SegSize = 2
    Alpha = 2
    Beta = 4
    InitialCwnd = 4
    InitialSsThresh = 4
    UintMod = 65536
    MicroSecond = 1
    Second = 60
    TimeMax = 100000
    MaxCwnd = 80
    NumSegs = 3
    RetxThresh = 2
    SackModes = {TRUE}
    LimitedTx = TRUE
    Pacing = TRUE
    DataRetries = 1
    DelAckMax = 1
    Lossy = TRUE
    MaxCopies = 1
    MaxPeerData = 1
    MaxSynAcks = 1
    Rtts <- MCRtts
    Ttls <- MCTtls
SPECIFICATION FairSpec
PROPERTIES PacedSending FlightWithinWindow FlowSpec Progress
