SPECIFICATION Spec
CONSTANTS
  Vars = {a}
  Writers = {w1}
  PersistThread = pt
  Updaters = {u1}
  Inodes = {i1, i2, i3}
  NoInode = NoInode
  NoOne = NoOne
  MaxVersion = 1
  FaultKinds = {}
  MaxFaults = 0
PROPERTIES
  OnlyReplacedByRename
