SPECIFICATION FairSpec
CONSTANTS
    c1 = c1
    c2 = c2
    Conns <- TwoConns
    Addr <- OwnAddr
    NumTokens = 1
    MaxTicks = 1
    Kinds <- SetKind
    MaxReqs = 2
    Breaks = FALSE
PROPERTIES
    ShutdownEnds
    TokenServed
CHECK_DEADLOCK FALSE
