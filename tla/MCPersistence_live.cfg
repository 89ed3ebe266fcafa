SPECIFICATION FairSpec
CONSTANTS
  Writers = {w1}
  PersistThread = pt
  Updaters = {}
  Inodes = {i1, i2, i3}
  NoInode = NoInode
  NoOne = NoOne
  Vars = {a}
  MaxVersion = 2
  FaultKinds = {"crash", "open", "write", "rename"}
  MaxFaults = 2
INVARIANTS
  TypeOK
  LockInv
PROPERTIES
  WrittenIsSaved
  TerminateReturns
