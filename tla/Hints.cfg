SPECIFICATION Spec
CONSTANTS
    k1 = k1
    k2 = k2
    Keys <- TwoKeys
    NumChunks = 2
    DataFileMax = 3
    SplitCap = 1
    MaxWrites = 3
    MaxRestarts = 3
    MaxFails = 1
SYMMETRY Symmetry
INVARIANTS
    Recovered
    HintsExact
    LookupFresh
CHECK_DEADLOCK FALSE
