---------------------------- MODULE MCTwinReview ----------------------------
(* Instances of TwinReview for TLC. *)
EXTENDS TwinReview, TLC

MCSymmetry == Permutations(Calls) \cup Permutations(Kinds) \cup Permutations(Texts)

=============================================================================
