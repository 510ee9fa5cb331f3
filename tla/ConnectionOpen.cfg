CONSTANTS
    Peers = {a, b}
    Clients = {a, b}
    SynRetries = 3
    DataRetries = 1
    MaxWrites = 0
    MaxInNet = 1
SPECIFICATION FairSpec
INVARIANTS TypeOK HandshakeAgreed
PROPERTIES ConnectEnds LastAckEnds
CHECK_DEADLOCK FALSE
