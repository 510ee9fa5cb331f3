CONSTANTS
    SegSize = 2
    Alpha = 2
    Beta = 16
    InitialCwnd = 1
    InitialSsThresh = 6
    UintMod = 128
    MicroSecond = 1
    Second = 60
    TimeMax = 100000
    MaxCwnd = 8
    Rtts <- MCRtts
    Ttls <- MCTtls
    Segs <- MCSegs
    Seqs <- MCSeqs
SPECIFICATION Spec
INVARIANTS TypeOK DoingIffOpen MeasuredBeforeUse WindowAlive
PROPERTIES CutOnlyOnDelay GrowthCapped LossNeverRaisesThreshold
