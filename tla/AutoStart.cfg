SPECIFICATION Spec
CONSTANTS
    MaxTaps = 3
    MaxEnds = 1
INVARIANTS
    ScansWhileIdle
    ShownPlaying
PROPERTIES
    AutoStartPlays
