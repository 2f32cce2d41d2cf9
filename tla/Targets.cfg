SPECIFICATION Spec
CONSTANTS
    Diff1 <- SmallDiff1
    Scale = 4
    Grain = 4
    Least = 6
    Word = 16
    Low = 16
    Full = 256
    Byte = 4
    MaxExp = 4
    MaxShift = 2
INVARIANTS
    TypeOK
    DivisionExact
    ShareTarget
    MissedAtMarginOnly
