--------------------------- MODULE MCCommandLink ----------------------------
(* CommandLink with two interchangeable callers, for TLC. *)
EXTENDS CommandLink, TLC

CONSTANTS c1, c2

MCCallers == {c1, c2}
Symmetry == Permutations(MCCallers)
=============================================================================
