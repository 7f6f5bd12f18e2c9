\* A wallet is imported while the tab is being locked.
CONSTANTS
  me = me
  t1 = t1
  t2 = t2
  w1 = w1
  k1 = k1
  k2 = k2
  NoList = NoList
  None = None
  Me = me
  Account = {me}
  Tabs = {t1}
  Wallets = {w1}
  Keys = {k1}
  Contents <- TheContents
  MaxActs = 4
  MaxLosses = 0
  MaxDeletes = 0
SPECIFICATION SyncSpec
CHECK_DEADLOCK FALSE
INVARIANT LeavingAsks
