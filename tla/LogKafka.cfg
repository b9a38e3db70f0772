SPECIFICATION FairSpec
CONSTANTS
    Tasks = 2
    Codecs = 2
    Brokers = 2
    QueueMax = 1
    MaxLines = 2
    Faults = {"down", "partial", "failing", "signal", "again"}
INVARIANTS
    TypeOK
    ExitDrained
PROPERTIES
    EveryLineSent
    ShutdownEnds
CHECK_DEADLOCK FALSE
