SPECIFICATION Spec
CONSTANTS
    DEVFEE_INTERVAL = 2
    DevConfigured = TRUE
    EN2_SPACE = 256
    TxMayStall = TRUE
    PrevHashes = {0, 1}
    MaxEra <- TwoEras
    MaxSeq <- TwoJobs
    MaxItems = 3
    MaxInFlight = 1
    MaxCredit = 1
INVARIANTS
    ShareAlwaysNamesItsWork
CHECK_DEADLOCK FALSE
