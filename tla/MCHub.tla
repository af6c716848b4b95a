--------------------------------- MODULE MCHub ---------------------------------
(* Instances of Uploads, and of Hub alone, for TLC.                          *)
EXTENDS Uploads
=============================================================================
