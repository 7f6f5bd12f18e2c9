CONSTANTS
  w1 = w1
  w2 = w2
  Dev = Dev
  Wallets = {w1, w2}
  Paths = {"v1", "native", "paired", "forwarded"}
  Async = TRUE
  Lags = TRUE
  MaxTries = 1
  MaxTicks = 2
  MaxFaults = 2
SPECIFICATION FairSpec
CHECK_DEADLOCK FALSE
INVARIANTS
  NativeBuyFollowsItsLaunch
  NothingIsPassedOffAsBought
  NothingWaitsBehindAGap
PROPERTIES
  LaunchEnds
