SPECIFICATION Spec
CONSTANTS
    MaxLineAtOnce = 2
    LineMaxBytes = 2
    BufferMaxBytes = 3
    StuckMax = 1
    SilentMax = 1
    NotifyGap = 1
    MaxFileLen = 4
    Faults = {"crash", "stop", "clock"}
INVARIANTS
    TypeOK
    NoByteSkipped
    LinesAreCutRight
    ResumesAtBoundary
    BatchInOrder
    BufferNeverWedges
PROPERTIES
    ImplementsDelivery
