\* What the code or its comments say of a bundle (see README, section 6): TLC finds
\* each of these violated.  It stops at the first; take out those already seen.
CONSTANTS
  w1 = w1
  w2 = w2
  Dev = Dev
  Wallets = {w1}
  Paths = {"v1", "native", "paired"}
  Async = TRUE
  Lags = TRUE
  MaxTries = 2
  MaxTicks = 2
  MaxFaults = 2
SPECIFICATION Spec
CHECK_DEADLOCK FALSE
INVARIANT BuysMissTheLaunchBlock
INVARIANT AFailedLaunchIsNoLaunch
INVARIANT StrandedIsFlagged
INVARIANT OvertakesAreSeen
INVARIANT OnlyARevertStrands
