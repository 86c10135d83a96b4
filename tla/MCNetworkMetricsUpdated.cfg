CONSTANTS
  b1 = b1
  b2 = b2
  d1 = d1
  t1 = t1
  None = None
  Blocks = {b1, b2}
  Deployments = {d1}
  Transfers = {t1}
  MaxTime = 5
  BucketSeconds = 2
  Lookback = 3
  RangeSeconds = 5
  Divisions = 2
SPECIFICATION FairSpec
PROPERTIES BucketsAreUpdated
CHECK_DEADLOCK FALSE
