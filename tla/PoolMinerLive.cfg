SPECIFICATION FairSpec
CONSTANTS
    DEVFEE_INTERVAL = 2
    DevConfigured = TRUE
    EN2_SPACE = 256
    TxMayStall = FALSE
    PrevHashes = {0, 1}
    MaxEra <- OneEra
    MaxSeq <- TwoJobs
    MaxItems = 5
    MaxInFlight = 0
    MaxCredit = 0
INVARIANT
    DevFeeLedger
PROPERTY
    OperatorKeepsMining
CHECK_DEADLOCK FALSE
