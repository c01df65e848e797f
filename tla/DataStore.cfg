SPECIFICATION Spec
CONSTANTS
    NumChunks = 2
    DataFileMax = 2
    FlushNow = 2
    Sizes = {1, 2}
    MaxRecords = 3
    MaxRestarts = 1
INVARIANTS
    TypeOK
    StoredWhereIndexed
    ReadCorrect
    BufferMeetsFile
    RotatedBufferHasFlusher
    CloseFlushesHead
    WbufSizeExact
PROPERTIES
    TornFileSealed
CHECK_DEADLOCK FALSE
