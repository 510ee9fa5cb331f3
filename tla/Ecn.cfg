CONSTANTS
    Peers = {"a", "b"}
    NumSegs <- MCNumSegs
    DelAckMax = 2
    MaxBurst = 1
    MaxInNet <- MCMaxInNet
SPECIFICATION Spec
INVARIANTS TypeOK MarkEchoed
PROPERTIES OncePerWindow
CHECK_DEADLOCK FALSE
