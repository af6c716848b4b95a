-------------------------- MODULE MCBackgroundJobs --------------------------
(* The instances of BackgroundJobs that TLC checks; see the cfg files.       *)
EXTENDS BackgroundJobs
=============================================================================
