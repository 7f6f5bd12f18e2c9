SPECIFICATION Spec
CONSTANTS
  a1 = a1
  a2 = a2
  k1 = k1
  k2 = k2
  b1 = b1
  b2 = b2
  NoRec = NoRec
  Addr = {a1}
  KeyIds = {k1}
  Blobs = {b1}
  Size <- EvenSizes
  MaxPending = 1
  MaxAccounts = 2
  LiveBudget = 4
  DeletedBudget = 2
  KeepDeleted = 5
  LogCap = 10
  SessionTTL = 3
  RevocationKeep = 4
  LaneWait = 1
  Tears = FALSE
  MaxClock = 3
  MaxSessions = 1
  MaxRev = 1
  MaxRequests = 6
  MaxFaults = 0
  MaxCrashes = 0
CHECK_DEADLOCK FALSE

INVARIANTS
  DeleteIsNotRefused
