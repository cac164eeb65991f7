CONSTANTS
  StopTasks = {s1, s2}
  MaxCommands = 1
SPECIFICATION FairSpec

  
PROPERTIES
  ClaimEnds
  WindowCloses
CHECK_DEADLOCK FALSE
