SPECIFICATION FairSpec
CONSTANTS
    Sessions = {v1}
    Outdoors = {o1}
    Viewers = {h1}
    FailThreshold = 2
    Cleanups = {1, 2}
    MaxCleanups = 2
    Exits = TRUE
    NoSession = NoSession
INVARIANTS
    TeardownOnce
PROPERTIES
    DeadSessionLeaves
    ViewersReleased
