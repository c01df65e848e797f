SPECIFICATION FairSpec
CONSTANTS
    NumBucket = 2
    FirstRoutes <- Either
    Found = {2}
    Busy = {1}
    Clients = {1}
    Reloads = {1}
    MaxReqs = 1
    MaxReloads = 2
    MaxGCs = 2
    MaxFails = 1
INVARIANTS
    ReadyIsOpen
    AckedKept
    ServedIsRouted
    RegistryExact
PROPERTIES
    ReloadAgain
CHECK_DEADLOCK FALSE
