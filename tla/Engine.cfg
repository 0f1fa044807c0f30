SPECIFICATION Spec
CONSTANTS
  Rules <- MCPair
  Discovered <- MCPairDiscovered
  Builtin = {"b1"}
  Categories = {"core", "pack"}
  Category <- MCPairCategory
  Weight <- MCPairWeight
  CategoryWeight <- MCCategoryWeight
  Claims <- MCPairClaims
  Floor = 100
  LineCounts = {99, 100}
  Thresholds = {70}
  Commands = {"check", "baseline"}
  NoThreshold = NoThreshold
  Nobody = Nobody
  Conflicting = {"b1"}
  Confidences = {40, 50, 80, 85, 90}
INVARIANTS
  DraftsSurviveTheirAudit
  BuiltinsSpeakForThemselves
  FailuresCostOnlyCoverage
  SuppressionMovesNoNumber
  FixBuysItsPoints
  ThresholdIsEarned
  RatchetCatchesRegressions
