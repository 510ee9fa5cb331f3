CONSTANTS
    SegSize = 3
    NumBytes = 8
    Writes = {8, 4}
    Reads = {3}
    BufSizes = {4, 6}
    MaxWinSize = 3
    DelAckMax = 2
    DataRetries = 1
    NoDelay = TRUE
    Cwnds = {1, 3, 8}
    MaxData = 2
    MaxAcks = 2
SPECIFICATION Spec
INVARIANTS TypeOK EdgeHonest NoOverrun AheadByProbe OutstandingTimed
CHECK_DEADLOCK FALSE
