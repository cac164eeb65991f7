CONSTANTS
  Gateways = {1, 2}
  DeviceId = 1
  QueueLength = 2
  MaxMessages = 3
SPECIFICATION FairSpec
INVARIANTS
  HeldIsOwned
  OutputsTrue
PROPERTIES
  CommandNotLost
  EveryMessageHandled
