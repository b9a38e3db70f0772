SPECIFICATION Spec
CONSTANTS
    PathQueueMaxSize = 2
    MaxTime = 4
    MaxSize = 1
    MaxCrashes = 0
    Faults = {}
INVARIANTS
    NoFileForgotten
