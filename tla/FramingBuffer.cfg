SPECIFICATION Spec
CONSTANTS
    FrameLen = 3
    NSync = 11
    LockFrames = 2
    BackFrames = 3
    BadRun = 3
    FifoLen = 2
    MaxFaults = 3
INVARIANTS
    HandBackFits
CHECK_DEADLOCK FALSE
