CONSTANTS
  w1 = w1
  w2 = w2
  Dev = Dev
  Wallets = {w1}
  Paths = {"v1", "native", "paired", "forwarded"}
  Async = TRUE
  Lags = TRUE
  MaxTries = 2
  MaxTicks = 2
  MaxFaults = 1
SPECIFICATION Spec
CHECK_DEADLOCK FALSE
INVARIANTS
  NativeBuyFollowsItsLaunch
  NothingIsPassedOffAsBought
  NothingWaitsBehindAGap
