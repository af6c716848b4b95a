--------------------------- MODULE MCTurnRunner ---------------------------
(* Instances of TurnRunner for TLC: one session at a time (loops of different *)
(* sessions share only the handlers), which handlers run is set by the cfg.  *)
EXTENDS TurnRunner
=============================================================================
