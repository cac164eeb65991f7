CONSTANTS
  Bytes = {0, 1, 2, 3}
  Preamble = 3
  HeaderLen = 2
  LenOffset = 1
  MaxPayload = 1
  CrcLen = 1
  Checksum <- MCChecksum
  MaxLen = 4
  StreamSize = 5
  ChunkSize = 2
  TimeoutMs = 800
  StaleMs = 1500
  MaxBytes = 7
SPECIFICATION FairStreamSpec
INVARIANTS
  FramesFound
PROPERTIES
  KeepsWholeFrames
  CallReturns
  LeftoverForgotten
