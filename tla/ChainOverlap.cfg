\* A run stopped and another started while a cycle is in flight.
CONSTANTS
  Engine = "v3"
  N = 2
  BigBuy = 2
  Fund = 3
  Gas = 1
  Ether0 <- NoEther
  MaxJobs = 2
  MaxFaults = 0
  MaxResumes = 0
  MaxRestarts = 0
  Unsure = FALSE
  Slow = FALSE
SPECIFICATION Spec
CHECK_DEADLOCK FALSE
INVARIANT OneCycleAtATime
