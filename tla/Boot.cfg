SPECIFICATION FairSpec
CONSTANTS
    KnotsLen = 3
    SiaLen = 2
    MaxFaults = 1
    MaxCrashes = 1
INVARIANTS
    TypeOK
    MinesInPhase
    SearchIsComplete
PROPERTY
    Mines
CHECK_DEADLOCK FALSE
