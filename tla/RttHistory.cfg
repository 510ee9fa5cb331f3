CONSTANTS
    NumBytes = 6
    SegSize = 3
    SynRetries = 2
    CnTimeout = 3
    DataRetries = 3
    MaxRto = 4
    TwoWay = TRUE
SPECIFICATION Spec
INVARIANTS SamplesUnambiguous SamplesFresh DataWaitBounded
CHECK_DEADLOCK FALSE
