SPECIFICATION Spec
CONSTANTS
    DEVFEE_INTERVAL = 20
    MaxTemplates = 3
    MaxTips = 1
    MaxFound = 1
    MaxWire = 1
    MaxFaults = 1
INVARIANT
    KeptIsSubmittable
CHECK_DEADLOCK FALSE
