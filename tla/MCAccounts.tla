---------------------------- MODULE MCAccounts ----------------------------
EXTENDS Accounts, TLC

Symmetry == Permutations(Addresses \ {Owner}) \cup Permutations(Calls)

(* Bound: two accounts are signed in, one at a time signs in, is created   *)
(* or is changed, only the first link expires, and nothing more happens    *)
(* after the third invitation.                                             *)
Bounded ==
    /\ Existing # Ids
    /\ Cardinality(sessions) <= 2
    /\ \A kind \in {"login", "create", "update"} :
          Cardinality({c \in Calls : Is(c, kind)}) <= 1
    /\ \A i \in Open : invitations[i].expired => i = 1
=============================================================================
