\* Two streams of three pictures; the timestamps may wrap inside a stream.
SPECIFICATION Spec
CONSTANTS
    Viewers = {v}
    None = None
    Units <- ThreePictures
    FirstTimes = {5, 30}
    MaxEpoch = 1
    Depth = 2
    TsMod = 32
    TicksPerMs = 2
    SegmentGap = 1
INVARIANTS
    SegmentHeader
    SeedOnce
PROPERTIES
    TimeMovesOn
    Released
