--------------------------- MODULE MCReceiverHub ----------------------------
(***************************************************************************)
(* The instance of ReceiverHub for TLC: receivers and trackers are         *)
(* interchangeable.                                                        *)
(***************************************************************************)
EXTENDS ReceiverHub, TLC

Symmetry == Permutations(Sources) \union Permutations(Trackers)
=============================================================================
