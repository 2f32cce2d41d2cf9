CONSTANTS
  kNumCores = 3
  kTxBytes = 2
  kByteBits = 2
  DropMax = 1
  kDebugEcho = FALSE
  MaxFound = 3
SPECIFICATION FairSpec
INVARIANTS TypeOK Conservation FramesInOrder BoundedBypass
PROPERTIES HeldIsSent ImplementsChannel
