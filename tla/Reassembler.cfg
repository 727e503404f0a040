\* Frames of 3, 2 and 1 packets; the sequence numbers wrap after the second packet.
SPECIFICATION Spec
CONSTANTS
    Streams = {a, b}
    NoStream = NoStream
    Last = 5
    Marked = {2, 4, 5}
    FirstSeq = 30
    SeqMod = 32
    Window = 2
    FrameMax = 3
    MaxArrivals = 6
SYMMETRY Symmetry
INVARIANTS
    OrderedFrames
    EpochTellsStreams
    CleanFrame
