SPECIFICATION Spec
CONSTANTS
  Writers = {w1, w2}
  Readers = {r1}
  NoOne = NoOne
  MaxFaults = 2
  MaxDamage = 1
INVARIANT HeaderCommits
INVARIANT ReadsWholeGraphs
PROPERTY LeavesOthersFiles
PROPERTY EventuallyStored
CHECK_DEADLOCK FALSE
