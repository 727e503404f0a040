SPECIFICATION Spec
CONSTANTS
    ring = ring
    bye = bye
    ack = ack
    k0 = k0
    k1 = k1
    k2 = k2
    Slaves = {s1, s2}
    Frames = {ring, bye, ack}
    Keys = {k0, k1, k2}
    DedupKey <- MCDedupKey
    ZeroKey = k0
    Wire = {ring, bye}
    Capacity = 2
    Window = 1
    Subs = {bell}
    Filter <- MCFilter
    ChanCap = 1
    MaxCaptures = 5
    MaxTime = 3
SYMMETRY Symmetry
INVARIANTS
    CopiesDropped
    DropJustified
