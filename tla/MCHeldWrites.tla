---------------------------- MODULE MCHeldWrites ----------------------------
(* Instances of HeldWrites for TLC. *)
EXTENDS HeldWrites, TLC

CONSTANTS a1, a2

Twins == Permutations(Asks)
=============================================================================
