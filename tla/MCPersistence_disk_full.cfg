SPECIFICATION Spec
CONSTANTS
  Vars = {a}
  Writers = {w1}
  PersistThread = pt
  Updaters = {}
  Inodes = {i1, i2, i3}
  NoInode = NoInode
  NoOne = NoOne
  MaxVersion = 2
  FaultKinds = {"write"}
  MaxFaults = 1
PROPERTIES
  SavedNeverRegresses
