--------------------------- MODULE MCCloudPolling ---------------------------
(***************************************************************************)
(* An instance of CloudPolling for TLC: a device polled and a command of   *)
(* another share the session, with the intervals and the threshold of the  *)
(* code.  A client each may hold, the present one, and a new one.          *)
(***************************************************************************)
EXTENDS CloudPolling

CONSTANTS vac, cmd, c1, c2, c3, c4
=============================================================================
