SPECIFICATION Spec
CONSTANTS
    MaxFrames = 2
    Seqs = {0, 1, 2, 3}
    Last = 2
    Targets = {0, 1, 2}
PROPERTIES
    AheadIsKept
    ImplementsBuffer
    ImplementsPlayout
    StreamEnds
    NeverStuck
