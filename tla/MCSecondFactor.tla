--------------------------- MODULE MCSecondFactor ---------------------------
EXTENDS SecondFactor, TLC

Symmetry == Permutations(Logins)
=============================================================================
