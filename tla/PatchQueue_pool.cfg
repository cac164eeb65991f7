CONSTANTS
  Tanks = {t1}
  MaxLevels = 2
  MaxEvents = 1
  Slots = 2
  MaxMisses = 1
  MutexFailLimit = 2
  RxOnly = FALSE
SPECIFICATION FairSpec
INVARIANTS
  PoolConserved
  AcceptedKept
PROPERTIES
  ServerMovesForward
  Delivered
CHECK_DEADLOCK FALSE
