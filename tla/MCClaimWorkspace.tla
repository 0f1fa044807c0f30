-------------------------- MODULE MCClaimWorkspace --------------------------
EXTENDS ClaimWorkspace, TLC

Symmetry == Permutations(Terminals)
=============================================================================
