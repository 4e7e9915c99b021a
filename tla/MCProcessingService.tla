------------------------- MODULE MCProcessingService -------------------------
(* Instances of ProcessingService for TLC. *)
EXTENDS ProcessingService, TLC

CONSTANTS w1, w2, w3

\* Two workers of one process and a third one elsewhere, and any of these
\* processes may die.  Only the first two are interchangeable.
TwoProcesses == {{w1, w2}, {w3}}
Symmetry == Permutations({w1, w2})
=============================================================================
