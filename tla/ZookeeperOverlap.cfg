SPECIFICATION FairSpec
CONSTANTS
    MaxSessions = 2
    MaxVersion = 2
    MaxBrokers = 1
    MaxLosses = 0
    Faults = {"overlap"}
PROPERTIES
    ConfigArrives
CHECK_DEADLOCK FALSE
