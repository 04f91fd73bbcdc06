-------------------------- MODULE MCContainerLife --------------------------
(* Instances of ContainerLife for TLC. *)
EXTENDS ContainerLife
=============================================================================
