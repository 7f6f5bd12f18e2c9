\* No fault: a resolve while the launch is being mined.
CONSTANTS
  MaxNonce = 3
  MaxLaunches = 2
  Batch = 2
  Exits = {"sell", "buy"}
  AnyHash = FALSE
  MaxFaults = 0
SPECIFICATION Spec
CHECK_DEADLOCK FALSE
PROPERTIES
  DroppedNeverMined
