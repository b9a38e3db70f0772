SPECIFICATION FairSpec
CONSTANTS
    MaxSessions = 2
    MaxVersion = 2
    MaxBrokers = 1
    MaxLosses = 1
    Faults = {"close"}
INVARIANTS
    TypeOK
    NoChangeMissed
PROPERTIES
    ConfigGoesForward
    ConfigArrives
    Registers
CHECK_DEADLOCK FALSE
