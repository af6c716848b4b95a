-------------------------------- MODULE MCCapture -------------------------------
(* The instance of Capture that TLC checks.                                  *)
EXTENDS Capture
=============================================================================
