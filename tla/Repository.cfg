CONSTANTS
  Areas <- MCAreas
  Tools = {"seeds", "citation", "docker", "runner", "readme"}

SPECIFICATION Spec

\* every fact of an area may be there with no tool left to run
CHECK_DEADLOCK FALSE

INVARIANTS
  RulesAgree

PROPERTIES
  RemediesNeverHurt
  
  ScaffoldsAnswerTheirRules
