\* Any two faults, and hashes given by hand.
CONSTANTS
  MaxNonce = 3
  MaxLaunches = 2
  Batch = 2
  Exits = {"sell", "buy"}
  AnyHash = FALSE
  MaxFaults = 2
SPECIFICATION Spec
CHECK_DEADLOCK FALSE
INVARIANTS
  TypeOK
  OneLaunchCanMine
  OneSpender
  LiveLaunchIsGuarded
PROPERTIES
  Gapless
