---------------------------- MODULE MCLocalTuya ----------------------------
(***************************************************************************)
(* Instances of LocalTuya for TLC: the entry, the listener, two commands   *)
(* at a time and enough device identities for one in service, one being    *)
(* opened and one a cancelled command may still hold.                      *)
(***************************************************************************)
EXTENDS LocalTuya

CONSTANTS entry, loop, s1, s2, d1, d2, d3
=============================================================================
