------------------------- MODULE MCManagedActions -------------------------
(* ManagedActions on a small organisation.  Servers and addresses are      *)
(* interchangeable.                                                        *)
EXTENDS ManagedActions, TLC

Symmetry == Permutations(Servers) \cup Permutations(Addresses)
===========================================================================
