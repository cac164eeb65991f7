CONSTANTS
  ConnectMaxFails = 2
  IpMaxFails = 2
  CycleMaxRetries = 2
SPECIFICATION FairSpec
INVARIANTS
  RestartsCounted
PROPERTIES
  OnlineAgain
  FruitlessRestarts
  ModeKept
CHECK_DEADLOCK FALSE
