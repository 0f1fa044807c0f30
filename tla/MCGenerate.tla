----------------------------- MODULE MCGenerate -----------------------------
EXTENDS Generate, TLC

Symmetry == Permutations(Runs)
=============================================================================
