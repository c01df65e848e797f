SPECIFICATION Spec
CONSTANTS
    Fanout = 2
    Depth = 2
    Height = 3
    KeyLen = 5
    StoredLen = 2
    WFirst = 4
    WLast = 5
    HashMod = 8
    CountMod = 16
    Multiplier = 3
    ThresholdBigHash = 1
    thresholdListKey = 2
    Served <- ItsBuckets
    Keys <- FewKeys
    Vers <- LiveAndDeleted
    Vhashes = {5}
    MaxOps = 3
    MaxRestarts = 1
INVARIANTS
    NodesExact
    ListingExact
    UpperExact
VIEW View
