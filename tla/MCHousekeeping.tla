------------------------------ MODULE MCHousekeeping ------------------------------
(* Model values for Housekeeping. *)
EXTENDS Housekeeping
CONSTANTS c1, c2, v1, v2
=============================================================================
