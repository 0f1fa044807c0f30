SPECIFICATION CRSpec
CONSTANTS
  Claims = {c1}
  People = {p1, p2, p3}
  Decisions = {verified, rejected}
  Verified = verified
  LastMoment = 6
  Versions = 2
  Reviews = 2
  Missing = Missing
SYMMETRY Symmetry
INVARIANTS
  RunsRestOnReview
  DecidedBeforeRun
CHECK_DEADLOCK FALSE
