--------------------------- MODULE MCClaimReview ---------------------------
EXTENDS ClaimReview, TLC

Symmetry == Permutations(People)
=============================================================================
