--------------------------- MODULE MCCleaningJobs ---------------------------
(***************************************************************************)
(* Instances of CleaningJobs for TLC.                                      *)
(***************************************************************************)
EXTENDS CleaningJobs

CONSTANTS r1, r2, turbo, deep
=============================================================================
