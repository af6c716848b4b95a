------------------------------ MODULE MCAccess ------------------------------
(* The instances of Access that TLC checks; strangers are interchangeable.   *)
EXTENDS Access, TLC

Strangers == Permutations(Users)
=============================================================================
