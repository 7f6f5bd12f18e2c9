\* The v5 funder, stopped while a deposit is in flight.
CONSTANTS
  Funders = {"v5"}
  N = 3
  PerTick = 2
  Interval = 2
  Grace = 2
  MineTime = 1
  MaxJobs = 2
  MaxStops = 2
  MaxRestarts = 0
SPECIFICATION Spec
CHECK_DEADLOCK FALSE
INVARIANT LauncherFreeMeansMined
