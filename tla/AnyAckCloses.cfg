CONSTANTS
    Peers = {a, b}
    Clients = {a}
    SynRetries = 1
    DataRetries = 1
    MaxWrites = 1
    MaxInNet = 2
SPECIFICATION Spec
PROPERTY FinAckCloses
CHECK_DEADLOCK FALSE
