---------------------------- MODULE MCScanAgent ----------------------------
(* Small instances of ScanAgent.                                           *)
EXTENDS ScanAgent, TLC

Symmetry == Permutations(Agents)
=============================================================================
