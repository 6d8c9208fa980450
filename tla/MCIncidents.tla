---------------------------- MODULE MCIncidents ----------------------------
EXTENDS Incidents, TLC

Symmetry == Permutations(Keys) \cup Permutations(Notes)
            \cup Permutations(Calls)
=============================================================================
