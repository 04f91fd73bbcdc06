--------------------------- MODULE MCSessionQueue ---------------------------
(* Instances of SessionQueue for TLC. *)
EXTENDS QueueRefinement

CONSTANTS a, b, c, repo, lib

(* Two writers of one clone. *)
Writers == [s \in Session |-> [r \in Clone |-> "write"]]

(* Readers only: a clone everybody may share. *)
Readers == [s \in Session |-> [r \in Clone |-> "read-locked"]]

(* A writer between two readers of its clone. *)
ReadersWriter ==
  [s \in Session |-> [r \in Clone |-> IF s = b THEN "write" ELSE "read-locked"]]

(* A writer of both clones between a session that reads one of them and one  *)
(* that reads the first and writes the second.                               *)
Mixed ==
  [s \in Session |-> [r \in Clone |->
     IF s = b \/ (s = c /\ r = lib) THEN "write"
     ELSE IF r = repo THEN "read-locked" ELSE "none"]]
=============================================================================
