CONSTANTS
  k1 = k1
  k2 = k2
  t1 = t1
  t2 = t2
  NoTask = NoTask
  Kind <- MCKind
  Task <- MCTask
  Window = 2
  MaxTime = 2
  MaxSuppressed = 1
SPECIFICATION FairSpec
PROPERTIES
  OncePerWindow
  RepeatsAreTold
  ThrottleNeverBack
  AlertsSettle
