--------------------------- MODULE MCProactiveRuns --------------------------
(* An instance of ProactiveRuns for TLC.  Calls are interchangeable, and so   *)
(* are refs and names.                                                        *)
EXTENDS ProactiveRuns, TLC

CONSTANTS c1, c2, r1, r2, x, y

Alike == Permutations(Call) \cup Permutations(Ref) \cup Permutations(Name)
=============================================================================
