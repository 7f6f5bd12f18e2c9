SPECIFICATION FairSpec
CONSTANTS
  c1 = c1
  c2 = c2
  m1 = m1
  m2 = m2
  s1 = s1
  s2 = s2
  Ids = {c1, c2}
  Masters = {m1, m2}
  Seeds = {s1, s2}
  MaxAttempts = 3
  HaltAfter = 3
  Horizon = 2
  Files <- EmptyOrRestored
  NoCampaign = NoCampaign
  NoTimer = NoTimer
  NoPost = NoPost
  MaxRequests = 2
  MaxFaults = 1
  MaxCrashes = 1
CHECK_DEADLOCK FALSE
INVARIANTS
  FundedOnce
  RunningMeansArmed
  RunningCampaignsShareNoWallet
PROPERTIES
  NeverABurst
  CampaignEnds
