---------------------------- MODULE MCExecutors ----------------------------
EXTENDS Executors, TLC

Symmetry == Permutations(Addresses)
=============================================================================
