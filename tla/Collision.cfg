SPECIFICATION Spec
CONSTANTS
    Keys = {1, 2, 3}
    NumChunks = 3
    DataFileMax = 2
    Merges = {TRUE}
    MaxSets = 3
    MaxOthers = 2
    MaxGCs = 2
    MaxCrashes = 1
INVARIANTS
    NoneCollected
    TableExact
    ReadsNewest
CHECK_DEADLOCK FALSE
