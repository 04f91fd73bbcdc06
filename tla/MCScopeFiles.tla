---------------------------- MODULE MCScopeFiles ----------------------------
(* An instance of ScopeFiles for TLC.  The sessions are interchangeable.     *)
EXTENDS ScopeFiles, TLC

CONSTANTS s1, s2

Alike == Permutations(Session)
=============================================================================
