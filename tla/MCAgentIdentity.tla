-------------------------- MODULE MCAgentIdentity --------------------------
(* Two machines that register under one name, two processes at a time.     *)
EXTENDS AgentIdentity, TLC

CONSTANTS m1, m2, h1

SameName == (m1 :> h1) @@ (m2 :> h1)

Symmetry == Permutations(Machines) \cup Permutations(Enrolments)
            \cup Permutations(Commands)
=============================================================================
