SPECIFICATION Spec
CONSTANTS
  Writers = {w1, w2}
  Inodes = {i1, i2, i3, i4, i5}
  NoInode = NoInode
  NoSnapshot = NoSnapshot
  Target = target
  Ops = {"create", "append", "replace", "expect"}
  PayloadLength = 1
  MaxEdits = 1
  MaxFaults = 1
INVARIANT NeverTorn
INVARIANT TemporariesRemoved
PROPERTY KeepsUninspectedText
PROPERTY ImplementsAtomicFile
SYMMETRY Symmetry
CHECK_DEADLOCK FALSE
