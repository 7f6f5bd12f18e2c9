\* The token graduates between the venue's read and the first head: violated.
CONSTANTS
  v1 = v1
  v2 = v2
  Viewers = {v1}
  Begun <- Busy
  MaxBlock = 4
  LogWindow = 1
  HourBlocks = 1
  DayBlocks = 2
  Margin = 1
  LoadLag = 1
  MaxLoads = 1
  Unreliable = {"live", "hist", "mark"}
  MaxFaults = 1
SPECIFICATION Spec
CHECK_DEADLOCK FALSE
INVARIANTS
  ChartedOnce
