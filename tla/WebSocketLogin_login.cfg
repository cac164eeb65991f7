CONSTANTS
  Tokens <- MCTokens
  NoToken = NoToken
  Torn = Torn
  BootCycles = 0
  MaxDisturbances = 1
  MaxGets = 1
SPECIFICATION FairSpec
INVARIANTS
  TokenAgreed
  RequestPending
  ClientInUseIsAlive
PROPERTIES
  StopHonoured
  BackOnline
