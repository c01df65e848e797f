SPECIFICATION Spec
CONSTANTS
    c1 = c1
    c2 = c2
    Conns <- TwoConns
    Addr <- OwnAddr
    NumTokens = 1
    MaxTicks = 1
    Kinds <- BalancedKinds
    MaxReqs = 2
    Breaks = TRUE
SYMMETRY Symmetry
INVARIANTS
    TypeOK
    TokensConserved
    CountersSettle
    RepliesMatch
    DrainedIsQuiet
CHECK_DEADLOCK FALSE
