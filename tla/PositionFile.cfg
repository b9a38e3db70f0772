SPECIFICATION Spec
CONSTANTS
    Patterns = 2
    Paths = 2
    IntMax = 2
    InoLimit = 4
    MaxSize = 2
    MaxTotal = 2
    MaxLines = 3
    MaxEnds = 2
    Faults = {"setup", "skip", "rekey"}
INVARIANTS
    TypeOK
    RecordIsFound
PROPERTIES
    ResumesWhereRecorded
CHECK_DEADLOCK FALSE
