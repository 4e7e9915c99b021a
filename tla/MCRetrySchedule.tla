--------------------------- MODULE MCRetrySchedule ---------------------------
(* Instances of RetrySchedule for TLC. *)
EXTENDS RetrySchedule

CONSTANTS p1, p2
=============================================================================
