\* No fault: /resolve is given the hash of an earlier launch.
CONSTANTS
  MaxNonce = 3
  MaxLaunches = 2
  Batch = 2
  Exits = {"sell", "buy"}
  AnyHash = TRUE
  MaxFaults = 0
SPECIFICATION Spec
CHECK_DEADLOCK FALSE
INVARIANTS
  LiveLaunchIsGuarded
