SPECIFICATION Spec
CONSTANTS
    Servers = {control}
    MaxChanges = 2
    MaxStarts = 1
INVARIANT CallbackHasContext
