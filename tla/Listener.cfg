CONSTANTS
    Clients = {c1, c2}
    ClientSettings <- MCClientSettings
    ListenerSettings <- MCListenerSettings
    SynRetries = 2
    MaxWinSize = 3
    MaxInNet = 2
SYMMETRY MCSymmetry
SPECIFICATION Spec
INVARIANTS TypeOK OptionsAgreed EcnAgreed
CHECK_DEADLOCK FALSE
