---------------------------- MODULE MCInboxRelay ----------------------------
(* The instances of InboxRelay that TLC checks; see the cfg files.           *)
EXTENDS InboxRelay
=============================================================================
