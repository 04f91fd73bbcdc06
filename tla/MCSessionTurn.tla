--------------------------- MODULE MCSessionTurn ---------------------------
(* An instance of SessionTurn for TLC: two messages. *)
EXTENDS SessionTurn

CONSTANTS p, q

(* A session at work, with the contract; or about to start, without it.      *)
WorkingOrStarting == {[fresh |-> FALSE, contract |-> TRUE], [fresh |-> TRUE, contract |-> FALSE]}
Working == {[fresh |-> FALSE, contract |-> TRUE]}
Contracted == {[fresh |-> TRUE, contract |-> TRUE]}
=============================================================================
