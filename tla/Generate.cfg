SPECIFICATION Spec
CONSTANTS
  Runs = {r1, r2, r3}
  Jobs = {"root", "docs", "print", "package", "refresh"}
  Together = {"package", "print"}
  MaxFaults = 1
  MaxEdits = 1
  Altered = Altered
  Missing = Missing
SYMMETRY Symmetry
INVARIANTS
  RecordedBeforeWritten
  OwnRecordComplaintsAreReal
  CleanMeansGenerated
  BundleIsOneRuns
