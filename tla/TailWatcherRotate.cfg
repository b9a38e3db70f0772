SPECIFICATION FairSpec
CONSTANTS
    MaxFiles = 3
    MaxLines = 4
    Faults = {"crash", "truncate", "race"}
INVARIANTS
    TypeOK
    NothingMissed
    NothingTwice
PROPERTIES
    LeftWhenCollected
    EveryLineArrives
