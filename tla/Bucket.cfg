SPECIFICATION Spec
CONSTANTS
    Keys <- OneKey
    Payloads <- Blobs
    Vhash <- ValueHash
    Revs <- AnyRev
    VerMax = 127
    CheckVHash = TRUE
    Clients = {c1, c2}
    Hash <- DistinctHash
    Ops = {"set", "get"}
    MaxLog = 3
INVARIANTS
    ReadNotStale
    TreeNewest
PROPERTIES
    VersionGrows
    SetsAreAtomic
