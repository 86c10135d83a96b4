CONSTANTS
  SyncStallThreshold = 2
  NodeUnreachableCycles = 2
  CursorStuckCycles = 2
  LagBlocks = 0
  LagCycles = 5
  RecoveryNum = 9
  RecoveryDen = 10
  StartFrom = 1
  BatchSize = 2
  MaxTip = 2
  NoHeight = NoHeight
SPECIFICATION FairSpec
INVARIANTS
  TypeOK
  FailedRunIsNamed
  StuckMeansPinned
  SpikeIsNoStall
PROPERTIES
  NoSilentStall
  DeepStallIsReported
