SPECIFICATION FairSpec
CONSTANTS
  Paths = {f, g}
  Sizes = {1, 3}
  ChunkBytes = 2
  HighWater = 3
  MaxBytes = 5
INVARIANTS
  TypeOK
  EachByteInOnePlace
  IdleMeansQuiet
  PendingCounts
  CloseLosesNothing
PROPERTIES
  ImplementsLog
  EveryByteSettles
  CallersHearBack
CHECK_DEADLOCK FALSE
