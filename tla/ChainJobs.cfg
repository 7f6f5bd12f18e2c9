\* Two runs of a user, stopped, resumed and lost in a restart; receipts that come late.
CONSTANTS
  Engine = "v3"
  N = 2
  BigBuy = 2
  Fund = 3
  Gas = 1
  Ether0 <- NoEther
  MaxJobs = 2
  MaxFaults = 1
  MaxResumes = 2
  MaxRestarts = 1
  Unsure = FALSE
  Slow = TRUE
SPECIFICATION FairSpec
CHECK_DEADLOCK FALSE
INVARIANT OneCyclePerJob
PROPERTY RunEnds
