CONSTANTS
  None = None
  MaxTip = 3
  BatchSize = 2
  StartFrom = 1
  d1 = d1
  d2 = d2
  Pending = {d1, d2}
  Unsigned = {d2}
  Cap = 3
  v1 = v1
  v2 = v2
  v3 = v3
  v4 = v4
  Validator = {v1, v2, v3, v4}
  StakeAt <- MCStakeAt
  ActiveAt <- MCActiveAt
  EpochLength = 2
  EpochInterval = 1
  StatsInterval = 1
  SafetyNum = 67
  SafetyDen = 100
  Branch = {b1, b2}
  b1 = b1
  b2 = b2
  CheckDepth = 2
  CheckInterval = 2
SPECIFICATION FairSpec
INVARIANTS
  TotalTellsOfTruncation
  ShareOfOneAnswer
  NoFalseReorg
  VerifiedMeansCompared
PROPERTIES
  StakesConverge
