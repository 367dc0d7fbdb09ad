-------------------------- MODULE MCSourceSnapshots --------------------------
\* Small instances of SourceSnapshots for TLC.
EXTENDS SourceSnapshots, TLC

CONSTANTS t1, t2, t3

Symmetry == Permutations(Tasks)
=============================================================================
