SPECIFICATION Spec
CONSTANTS
    MaxRequests = 3
INVARIANTS
    NoOrphan
    IdleNotActive
PROPERTIES
    StreamingIsShown
    StoppedPipelinesEnd
