---------------------------- MODULE MCTaskOwner ----------------------------
(* Instances of TaskOwner for TLC: every kind has an input of its own name. *)
EXTENDS TaskOwner

MCKind == [i \in Inputs |-> i]

=============================================================================
