SPECIFICATION FairSpec
CONSTANTS
    DEVFEE_INTERVAL = 2
    MaxTemplates = 3
    MaxTips = 2
    MaxFound = 2
    MaxWire = 1
    MaxFaults = 2
INVARIANTS
    TypeOK
    RefusalExplained
    FeeShare
PROPERTY
    TipFollowed
CHECK_DEADLOCK FALSE
