SPECIFICATION Spec
CONSTANTS
    BufferFrames = 3
    MaxWaiting = 2
INVARIANTS
    NothingLeft
    EventsOutliveStreams
    NoPacketForgotten
PROPERTIES
    ControlReturns
