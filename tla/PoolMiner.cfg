SPECIFICATION Spec
CONSTANTS
    DEVFEE_INTERVAL = 2
    DevConfigured = TRUE
    EN2_SPACE = 2
    TxMayStall = TRUE
    PrevHashes = {0}
    MaxEra <- TwoEras
    MaxSeq <- TwoJobs
    MaxItems = 2
    MaxInFlight = 1
    MaxCredit = 1
INVARIANTS
    TypeOK
    ShareNamesItsWork
    ReadyIsCurrent
    DevFeeLedger
    NoLiveShareDiscarded
CHECK_DEADLOCK FALSE
