---------------------------- MODULE MCDispatcher ----------------------------
(* Model values and bounds for TLC. *)
EXTENDS Dispatcher

CONSTANTS j1, j2

TwoJobs == <<j1, j2>>
=============================================================================
