\* It graduates further before the first head than the margin: violated.
CONSTANTS
  v1 = v1
  v2 = v2
  Viewers = {v1}
  Begun <- Busy
  MaxBlock = 4
  LogWindow = 1
  HourBlocks = 1
  DayBlocks = 2
  Margin = 0
  LoadLag = 2
  MaxLoads = 1
  Unreliable = {"live", "hist", "mark"}
  MaxFaults = 1
SPECIFICATION Spec
CHECK_DEADLOCK FALSE
INVARIANTS
  NothingIsSkipped
