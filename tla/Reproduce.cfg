SPECIFICATION Spec
CONSTANTS
  Values = {u, v}
  First = u
  MaxReports = 1
  Nothing = Nothing
  Old = Old
INVARIANTS
  NothingOutlives
  CaptureIsWhole
  AgreementIsEarned
PROPERTY ReproduceEnds
