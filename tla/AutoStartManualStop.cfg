SPECIFICATION Spec
CONSTANTS
    MaxTaps = 2
    MaxEnds = 1
PROPERTIES
    ManualStopStays
