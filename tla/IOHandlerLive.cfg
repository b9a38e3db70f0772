SPECIFICATION FairSpec
CONSTANTS
    MaxLineAtOnce = 2
    LineMaxBytes = 3
    BufferMaxBytes = 3
    StuckMax = 2
    SilentMax = 1
    NotifyGap = 1
    MaxFileLen = 5
    Faults = {"stop"}
INVARIANTS
    ExactlyOnce
    InactiveIsDrained
PROPERTIES
    NotifyReturns
    FinishedLinesReceived
    FinishedFileBecomesInactive
