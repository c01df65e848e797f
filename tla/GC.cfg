SPECIFICATION Spec
CONSTANTS
    Keys <- TwoKeys
    NumChunks = 3
    DataFileMax = 2
    DstRoom = 2
    MaxWrites = 4
    MaxGCs = 2
    MaxCrashes = 1
INVARIANTS
    TreeLeads
    ReadFresh
    Recoverable
