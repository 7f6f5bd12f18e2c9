\* The three funders: two jobs of a user, stopped, resumed and lost in a restart.
CONSTANTS
  Funders = {"v2", "v5", "v8"}
  N = 3
  PerTick = 2
  Interval = 2
  Grace = 2
  MineTime = 1
  MaxJobs = 2
  MaxStops = 2
  MaxRestarts = 1
SPECIFICATION FairSpec
CHECK_DEADLOCK FALSE
INVARIANT EachWalletOnce
INVARIANT OneSigner
PROPERTY TicksArePaced
PROPERTY JobEnds
