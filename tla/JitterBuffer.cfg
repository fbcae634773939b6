SPECIFICATION JBSpec
CONSTANTS
    MaxFrames = 3
    Seqs = {0, 1, 2, 3, 4}
INVARIANTS
    CountExact
    StoppedEmpty
    MarkRight
