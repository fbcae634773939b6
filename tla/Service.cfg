SPECIFICATION Spec
CONSTANTS
    Servers = {control}
    MaxChanges = 3
    MaxStarts = 2
INVARIANTS
    ContextSafe
    StoppedRuntimeGone
PROPERTIES
    ChangeIsPublished
    FailureEndsService
    QuitEnds
