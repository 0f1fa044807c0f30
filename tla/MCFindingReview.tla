--------------------------- MODULE MCFindingReview ---------------------------
(* Agreement on one of two.  In the first allocation, reviewers that differ  *)
(* on one finding in one field and on the other in the other just pass; the  *)
(* second has one finding, and entries left for decisions that change later. *)
EXTENDS FindingReview, TLC
CONSTANTS f1, f2, right, incorrect, inapplicable, t1, t2
MCGated == {"correctness", "applicability"}
MCGate(field, judgement) ==
  judgement = IF field = "correctness" THEN incorrect ELSE inapplicable
All(findings) == [population |-> findings, second |-> findings, calibration |-> findings]
MCFrozen == <<All({f1, f2}), All({f1})>>
MCEntries == <<4, 4>>
MCSeats == [primary |-> {t1, t2}, secondary |-> {t1}]
Symmetry == Permutations(People) \cup Permutations({incorrect, inapplicable})
=============================================================================
