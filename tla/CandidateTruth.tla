--------------------------- MODULE CandidateTruth ---------------------------
(***************************************************************************)
(* What one reviewer's workspace (ClaimWorkspace) and the merged review a  *)
(* candidate run rests on (ClaimReview) are both about: the claims of a    *)
(* frozen candidate truth and the decisions taken on them.                 *)
(***************************************************************************)
CONSTANTS
  Claims,
  Decisions,
  Missing    \* no file, no document read, no decision

ASSUME TruthAssumption == Missing \notin Decisions
=============================================================================
