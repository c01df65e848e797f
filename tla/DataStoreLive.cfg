SPECIFICATION FairSpec
CONSTANTS
    NumChunks = 2
    DataFileMax = 2
    FlushNow = 2
    Sizes = {1, 2}
    MaxRecords = 3
    MaxRestarts = 0
PROPERTIES
    AppendedIsFlushed
CHECK_DEADLOCK FALSE
