SPECIFICATION FairSpec
CONSTANTS
    Patterns = 2
    Versions = 3
    UnknownCodecs = {3}
    MaxEdits = 6
    MaxRotations = 2
    Faults = {}
INVARIANTS
    TypeOK
    Applied
    Alive
PROPERTIES
    ConfigTakesEffect
