------------------------------- MODULE MCFleet -------------------------------
(* Model values and bounds for TLC. *)
EXTENDS Fleet

CONSTANTS r1, w1, w2
=============================================================================
