SPECIFICATION Spec
CONSTANTS
    MaxLineAtOnce = 2
    LineMaxBytes = 2
    BufferMaxBytes = 2
    StuckMax = 2
    SilentMax = 1
    NotifyGap = 1
    MaxFileLen = 3
    Faults = {"stop"}
INVARIANT NothingLost
