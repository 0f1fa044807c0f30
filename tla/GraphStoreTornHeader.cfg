SPECIFICATION Spec
CONSTANTS
  Writers = {w1, w2}
  Readers = {r1}
  NoOne = NoOne
  MaxFaults = 1
  MaxDamage = 0
INVARIANT PresentGraphIsWhole
CHECK_DEADLOCK FALSE
