SPECIFICATION Spec
CONSTANTS
    Capacity = 1
    MaxChunks = 1
    MaxChanges = 1
    EarlierChanges = {1}
INVARIANTS
    RestartOnlyOnChange
