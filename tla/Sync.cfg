\* Two devices import, remove, delete, sign in again and leave; a call is lost.
CONSTANTS
  me = me
  t1 = t1
  t2 = t2
  w1 = w1
  k1 = k1
  k2 = k2
  NoList = NoList
  None = None
  Me = me
  Account = {me}
  Tabs = {t1, t2}
  Wallets = {w1}
  Keys = {k1, k2}
  Contents <- TheContents
  MaxActs = 4
  MaxLosses = 1
  MaxDeletes = 1
SPECIFICATION SyncFairSpec
CHECK_DEADLOCK FALSE
INVARIANTS
  NothingUnsavedIsForgotten
  LeavingSavesFirst
PROPERTIES
  SavedWalletStays
  RemovalsStay
  ImportReachesTheCopy
