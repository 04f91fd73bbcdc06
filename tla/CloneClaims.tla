---------------------------- MODULE CloneClaims ----------------------------
(***************************************************************************)
(* Clone claims: a readers-writer lock per clone of one task.              *)
(*                                                                         *)
(* A clone is one working tree, shared by every session of the task that   *)
(* picked its repository.  How a session mounts the repository decides     *)
(* what it claims: "write" is exclusive, "read-locked" is shared, "read"   *)
(* (a live view of the tree) and "none" (not picked) claim nothing.        *)
(***************************************************************************)
CONSTANTS
  Session,      \* the sessions of the task
  Clone,        \* the clones of the task
  Mode          \* how each session mounts each clone

MountModes == {"none", "read", "read-locked", "write"}

ASSUME ModeAssumption == Mode \in [Session -> [Clone -> MountModes]]

(* The clones a session claims, and those it claims exclusively. *)
Claims(s)    == {c \in Clone : Mode[s][c] \in {"read-locked", "write"}}
Exclusive(s) == {c \in Clone : Mode[s][c] = "write"}

(* Two claims on one clone conflict when at least one of them is exclusive. *)
Conflict(s, t) ==
  \E c \in Claims(s) \cap Claims(t) : c \in Exclusive(s) \cup Exclusive(t)
=============================================================================
