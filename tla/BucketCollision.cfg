SPECIFICATION Spec
CONSTANTS
    Keys <- TwoKeys
    Payloads <- TwoBlobs
    Vhash <- ValueHash
    Revs <- NextRev
    VerMax = 2
    CheckVHash = FALSE
    Clients = {c1, c2}
    Hash <- SharedHash
    Ops = {"set", "get", "incr"}
    MaxLog = 3
INVARIANTS
    TypeOK
    AckedIsFound
    TreeNewest
