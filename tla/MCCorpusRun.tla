---------------------------- MODULE MCCorpusRun ----------------------------
EXTENDS CorpusRun, TLC

MCOrder == <<"r1", "r2">>
Symmetry == Permutations(Runs) \cup Permutations(Analyzers) \cup Permutations(Outcomes)
=============================================================================
