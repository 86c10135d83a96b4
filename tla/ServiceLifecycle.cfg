SPECIFICATION FairSpec
CONSTANTS
  MaxRaised = 2
INVARIANTS
  TypeOK
  ExitIsToldOnce
PROPERTIES
  NoZombie
  ComesBack
  CrashLoopIsHeard
