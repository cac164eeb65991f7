CONSTANTS
  Tanks = {t1, t2}
  MaxLevels = 1
  MaxEvents = 1
  Slots = 2
  MaxMisses = 0
  MutexFailLimit = 2
  RxOnly = TRUE
SPECIFICATION FairSpec
PROPERTIES
  LoginServesPatch
CHECK_DEADLOCK FALSE
