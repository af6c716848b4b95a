------------------------------- MODULE MCAccounts -------------------------------
(* Model values for Accounts. *)
EXTENDS Accounts
CONSTANTS e1, e2, d0, d1
=============================================================================
