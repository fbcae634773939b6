SPECIFICATION Spec
CONSTANTS
    SampleRate = 1500
    FrameMs = 1
    Channels = 2
    SourceRate = 1000
    Capacity = 2
    Multiplier = 2
    MaxSource = 6
    MaxRestarts = 1
CHECK_DEADLOCK FALSE
INVARIANTS
    StreamIntact
    PacketsChained
    ReceiverUnderstands
    CapturedOrder
    DelayBounded
