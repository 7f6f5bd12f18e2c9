\* A receipt that does not come in time.
CONSTANTS
  Engine = "v3"
  N = 2
  BigBuy = 2
  Fund = 3
  Gas = 1
  Ether0 <- NoEther
  MaxJobs = 1
  MaxFaults = 1
  MaxResumes = 0
  MaxRestarts = 0
  Unsure = FALSE
  Slow = TRUE
SPECIFICATION Spec
CHECK_DEADLOCK FALSE
INVARIANT DoneStepsAreOnChain
