SPECIFICATION Spec
CONSTANTS
  Order <- MCOrder
  Runs = {a, b}
  Analyzers = {v1, v2}
  Outcomes = {x, y}
  Edits = 2
  Failed = Failed
  Nothing = Nothing
SYMMETRY Symmetry
INVARIANTS
  EvidenceIsWhatWasScanned
  BlameIsTheAnalyzers
CHECK_DEADLOCK FALSE
