SPECIFICATION FairSpec
CONSTANTS
  a1 = a1
  a2 = a2
  k1 = k1
  k2 = k2
  b1 = b1
  b2 = b2
  NoRec = NoRec
  Addr = {a1}
  KeyIds = {k1}
  Blobs = {b1}
  Size <- EvenSizes
  MaxPending = 2
  MaxAccounts = 2
  LiveBudget = 4
  DeletedBudget = 2
  KeepDeleted = 2
  LogCap = 1
  SessionTTL = 1
  RevocationKeep = 2
  LaneWait = 1
  Tears = FALSE
  MaxClock = 4
  MaxSessions = 1
  MaxRev = 1
  MaxRequests = 6
  MaxFaults = 0
  MaxCrashes = 1
CHECK_DEADLOCK FALSE
PROPERTIES
  RevocationIsDownFirst
  RevokedSessionChangesNothing
  LaneDrains
