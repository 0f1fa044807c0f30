SPECIFICATION CWSpec
CONSTANTS
  Claims = {c1}
  Targets = {t1}
  ClaimLevel = claim
  Decisions = {verified, rejected}
  Terminals = {x, y}
  LastSecond = 2
  Closings = 2
  Missing = Missing
SYMMETRY Symmetry
INVARIANTS
  ExportsAreFinalized
CHECK_DEADLOCK FALSE
