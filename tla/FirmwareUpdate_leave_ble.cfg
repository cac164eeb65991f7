CONSTANTS
  Images <- MCImages
  Own <- MCOwn
  Version <- MCVersion
  Chunks = 2
  MaxAttempts = 2
  QueueLen = 2
  RestartMs = 2000
  TransferMs = 30000
  None = None
SPECIFICATION Spec
PROPERTIES
  LeavingBleKeepsRunning
