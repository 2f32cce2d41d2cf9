SPECIFICATION FairSpec
CONSTANTS
    BackoffMin = 1
    BackoffMax = 3
    MaxAsked = 1
    NServers = 2
    MaxPipe = 2
    MaxFaults = 2
    MaxMoves = 1
    MaxShares = 1
INVARIANTS
    TypeOK
    VerdictsAccounted
    BelievesThisPool
    RedirectOnce
PROPERTY
    ComesBack
CHECK_DEADLOCK FALSE
