---------------------------- MODULE MCOwnerLease ----------------------------
(* Instances of OwnerLease for TLC. *)
EXTENDS OwnerLease, TLC

MCSymmetry == Permutations(Procs)

=============================================================================
