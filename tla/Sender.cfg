CONSTANTS
    SegSize = 2
    Alpha = 2
    Beta = 4
    InitialCwnd = 4
    InitialSsThresh = 6
    UintMod = 65536
    MicroSecond = 1
    Second = 60
    TimeMax = 100000
    MaxCwnd = 80
    NumSegs = 5
    RetxThresh = 2
    SackModes = {TRUE, FALSE}
    LimitedTx = TRUE
    Pacing = FALSE
    DataRetries = 1
    DelAckMax = 2
    Lossy = TRUE
    MaxCopies = 1
    MaxPeerData = 0
    MaxSynAcks = 0
    Rtts <- MCRtts
    Ttls <- MCTtls
SPECIFICATION Spec
INVARIANTS TypeOK CountersFit SackedReceived RecoveryPoint RenoGuessEnds
    TimerRunning
PROPERTIES StreamSpec
