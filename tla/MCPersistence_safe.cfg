SPECIFICATION Spec
CONSTANTS
  Writers = {w1, w2}
  PersistThread = pt
  Updaters = {}
  Inodes = {i1, i2, i3}
  NoInode = NoInode
  NoOne = NoOne
  Vars = {a, b}
  MaxVersion = 2
  FaultKinds = {"crash", "open", "rename"}
  MaxFaults = 3
SYMMETRY Symmetry
INVARIANTS
  FileInv
  CleanMeansSaved
PROPERTIES
  OnlyReplacedByRename
  ImplementsStore
