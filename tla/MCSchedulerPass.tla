-------------------------- MODULE MCSchedulerPass --------------------------
(* An instance of SchedulerPass for TLC. *)
EXTENDS SchedulerPass

CONSTANTS a, b, c, repo, lib

(* A session that writes one clone and reads the other, one the other way    *)
(* round, and a reader of a clone whose other reader also writes.            *)
Mixed ==
  [s \in Session |-> [r \in Clone |->
     CASE s = a -> (IF r = repo THEN "write" ELSE "read-locked")
       [] s = b -> (IF r = repo THEN "read-locked" ELSE "write")
       [] s = c -> (IF r = repo THEN "read-locked" ELSE "read")]]
=============================================================================
