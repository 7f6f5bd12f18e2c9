\* One v6 run over seasoned wallets: steps fail, or land without returning, and
\* the run is resumed.
CONSTANTS
  Engine = "v6"
  N = 3
  BigBuy = 4
  Fund = 3
  Gas = 1
  Ether0 <- Seasoned
  MaxJobs = 1
  MaxFaults = 2
  MaxResumes = 2
  MaxRestarts = 0
  Unsure = TRUE
  Slow = FALSE
SPECIFICATION Spec
CHECK_DEADLOCK FALSE
INVARIANT StepsLandOnce
INVARIANT CompleteMeansPlaced
INVARIANT FillWaitIsForTheFill
