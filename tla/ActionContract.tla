-------------------------- MODULE ActionContract --------------------------
(***************************************************************************)
(* What the active operations promise an organisation, without table,      *)
(* worker, receipt or network: an action is decided, handed to a machine,  *)
(* carried out at most once and settled; an action withdrawn in time is    *)
(* never carried out, and only what was carried out is settled.            *)
(***************************************************************************)
EXTENDS Naturals

CONSTANT Actions

VARIABLES
    phase,      \* what the organisation is told of each action
    carried     \* the actions a machine has begun to carry out

contract == <<phase, carried>>

Phases == {"unknown", "proposed", "granted", "handed", "settled", "withdrawn"}

(* The moves of one action; it may also stay where it is.                  *)
Moves == {<<"unknown", "proposed">>, <<"unknown", "granted">>,
          <<"proposed", "granted">>, <<"proposed", "withdrawn">>,
          <<"granted", "withdrawn">>, <<"granted", "handed">>,
          <<"handed", "settled">>}

ContractInit ==
    /\ phase = [a \in Actions |-> "unknown"]
    /\ carried = {}

(* Decisions, expiry and reports: several actions may expire at once, one  *)
(* at most is handed over.                                                 *)
Decide ==
    /\ phase' \in [Actions -> Phases]
    /\ \A a \in Actions : phase'[a] # phase[a] =>
           /\ <<phase[a], phase'[a]>> \in Moves
           /\ phase'[a] = "settled" => a \in carried
    /\ \A a, b \in Actions :
           /\ phase[a] # "handed" /\ phase'[a] = "handed"
           /\ phase[b] # "handed" /\ phase'[b] = "handed"
           => a = b
    /\ UNCHANGED carried

Carry(a) ==
    /\ phase[a] = "handed"
    /\ a \notin carried
    /\ carried' = carried \cup {a}
    /\ UNCHANGED phase

ContractNext == Decide \/ \E a \in Actions : Carry(a)

ContractSpec == ContractInit /\ [][ContractNext]_contract
===========================================================================
