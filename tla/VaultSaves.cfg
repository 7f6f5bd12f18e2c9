SPECIFICATION Spec
CONSTANTS
  a1 = a1
  a2 = a2
  k1 = k1
  k2 = k2
  b1 = b1
  b2 = b2
  NoRec = NoRec
  Addr = {a1}
  KeyIds = {k1, k2}
  Blobs = {b1, b2}
  Size <- TwoSizes
  MaxPending = 2
  MaxAccounts = 1
  LiveBudget = 3
  DeletedBudget = 2
  KeepDeleted = 3
  LogCap = 1
  SessionTTL = 3
  RevocationKeep = 4
  LaneWait = 1
  Tears = TRUE
  MaxClock = 2
  MaxSessions = 2
  MaxRev = 2
  MaxRequests = 4
  MaxFaults = 1
  MaxCrashes = 1
CHECK_DEADLOCK FALSE

INVARIANTS
  TallyMatchesDisk
PROPERTIES
  OneSessionKeepsTheOthersVersion
  DeletedListIsKept
  ImplementsRegister
