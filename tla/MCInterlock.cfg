SPECIFICATION FairSpec
CONSTANTS
  Threads = {t1, t2}
  PVs = {p, q}
  Null = Null
  Junk = Junk
  MaxUpdates = 2
CHECK_DEADLOCK FALSE
INVARIANTS
  TypeOK
  Coherent
  NoOverrun
  NotifyListAlive
  NothingBeforeReady
PROPERTIES
  WaitReturns
