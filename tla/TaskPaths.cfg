SPECIFICATION FairSpec
CONSTANTS
    PathQueueMaxSize = 2
    MaxTime = 3
    MaxSize = 2
    MaxCrashes = 2
    Faults = {"crash", "stop", "delete", "setup"}
INVARIANTS
    TypeOK
    NoFileForgotten
    QueueInOrder
    NothingTwice
PROPERTIES
    Chronological
    FilesCollected
