-------------------------- MODULE MCRecoveryService --------------------------
(* Instances of RecoveryService for TLC. *)
EXTENDS RecoveryService

CONSTANTS s1, s2
=============================================================================
