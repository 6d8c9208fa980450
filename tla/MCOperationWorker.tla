------------------------- MODULE MCOperationWorker -------------------------
(* OperationWorker with a machine that may be enrolled under either of two *)
(* identities.                                                             *)
EXTENDS OperationWorker, TLC

Symmetry == Permutations(Servers)
============================================================================
