\* One of: a restart, a request that arrives late, a read that throws, a transaction the node forgets.
CONSTANTS
  MaxNonce = 3
  MaxLaunches = 2
  Batch = 2
  Exits = {"sell", "buy"}
  AnyHash = FALSE
  MaxFaults = 1
SPECIFICATION FairSpec
CHECK_DEADLOCK FALSE
INVARIANTS
  OneLaunchCanMine
  OneSpender
  LiveLaunchIsGuarded
PROPERTIES
  Gapless
  Unbricked
