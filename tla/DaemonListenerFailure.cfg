SPECIFICATION Spec
CONSTANTS
    Clients = {c1}
    Slaves18022 = {s1}
    Slaves6672 = {s2}
    Pushes = {p1}
    RingCap = 1
    MaxRings = 1
    NoPush = NoPush
INVARIANT
    ListenerFailureNotFatal
