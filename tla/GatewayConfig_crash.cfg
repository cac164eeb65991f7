CONSTANTS
  Texts = {a}
  Empty = Empty
  TooLong = TooLong
  Cut = Cut
  Ids = {1, 2}
  Unreadable = {"SSID", "idGtw", "idUnidadeGtw"}
  MaxCommands = 3
SPECIFICATION Spec
INVARIANTS
  RamSound
  RestartChangesNothing
  StaysConfigured
CHECK_DEADLOCK FALSE
