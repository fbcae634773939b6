SPECIFICATION Spec
CONSTANTS
    MaxIntents = 2
INVARIANTS
    NothingLeftOpen
    StopReported
    ServerQuiet
