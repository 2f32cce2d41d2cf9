SPECIFICATION Spec
CONSTANTS
    DEVFEE_INTERVAL = 2
    DevConfigured = TRUE
    EN2_SPACE = 256
    TxMayStall = FALSE
    PrevHashes = {0, 1}
    MaxEra <- TwoEras
    MaxSeq <- TwoJobs
    MaxItems = 3
    MaxInFlight = 1
    MaxCredit = 1
INVARIANTS
    ShareExtranonceCurrent
CHECK_DEADLOCK FALSE
