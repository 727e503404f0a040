SPECIFICATION FairSpec
CONSTANTS
    Clients = {c1}
    Slaves18022 = {s1}
    Slaves6672 = {}
    Pushes = {p1}
    RingCap = 1
    MaxRings = 2
    NoPush = NoPush
INVARIANTS
    SelfUnlockNeverLate
    NoPushCutOff
PROPERTIES
    ServedInOrder
    ShutdownCompletes
