SPECIFICATION Spec
CONSTANTS
    Capacity = 2
    MaxChunks = 3
    MaxChanges = 1
    EarlierChanges = {0, 1}
INVARIANTS
    QueueRight
    NoLostWakeup
PROPERTIES
    ChunksLeave
    StopEndsPipeline
    FailureEndsPipeline
    CaptureFollowsDevice
