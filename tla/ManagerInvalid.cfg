SPECIFICATION Spec
CONSTANTS
    Patterns = 1
    Versions = 2
    UnknownCodecs = {}
    MaxEdits = 3
    MaxRotations = 1
    Faults = {"mixed"}
INVARIANTS
    InvalidNotCollected
