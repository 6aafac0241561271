---------------------------- MODULE MCTaskBridge ----------------------------
(* Instances of TaskBridge for TLC. *)
EXTENDS TaskBridge

=============================================================================
