SPECIFICATION Spec
CONSTANTS
  f1 = f1
  f2 = f2
  Findings = {f1, f2}
  Frozen <- MCFrozen
  People = {p1, p2, p3}
  right = right
  incorrect = incorrect
  inapplicable = inapplicable
  Judgements = {right, incorrect, inapplicable}
  Gated <- MCGated
  Gate <- MCGate
  Agreeing = 1
  Compared = 2
  t1 = t1
  t2 = t2
  Terminals = {t1, t2}
  Seats <- MCSeats
  Desks = {t1}
  Entries <- MCEntries
  Edits = 1
  Missing = Missing
SYMMETRY Symmetry
INVARIANTS
  LabelsAreTheReviewers
  ReportsAreCalibrated
CHECK_DEADLOCK FALSE
