---------------------------- MODULE MCMcpServers ----------------------------
(* Instances of McpServers for TLC. *)
EXTENDS McpServers, TLC

CONSTANTS s1, s2, r1, r2

Twins == Permutations(Session)
=============================================================================
