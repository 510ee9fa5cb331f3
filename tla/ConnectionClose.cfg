CONSTANTS
    Peers = {a, b}
    Clients = {a}
    SynRetries = 1
    DataRetries = 1
    MaxWrites = 1
    MaxInNet = 2
SPECIFICATION Spec
INVARIANTS EofAfterData FinArrived WaitingTimed
PROPERTIES FreedWhenReceived
CHECK_DEADLOCK FALSE
