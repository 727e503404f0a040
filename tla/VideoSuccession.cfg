SPECIFICATION Spec
CONSTANTS
    Sessions = {v1, v2}
    Outdoors = {o1}
    Viewers = {h1}
    FailThreshold = 1
    Cleanups = {1}
    MaxCleanups = 1
    Exits = FALSE
    NoSession = NoSession
SYMMETRY Symmetry
INVARIANTS
    NoOrphan
    StopSparesSuccessor
PROPERTIES
    NoBystander
