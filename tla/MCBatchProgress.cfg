CONSTANTS
  Start = 2
  End = 5
  NoHeight = NoHeight
  Reported <- MCReported
SPECIFICATION CallsSpec
INVARIANTS
  CompletesBelowLowestObstacle
  ClosedFormIsLoop
PROPERTY FailureHoldsCursor
