-------------------------- MODULE MCEntryLifecycle --------------------------
(***************************************************************************)
(* An instance of EntryLifecycle for TLC: an account with a device of each *)
(* push transport, the local one of which may fall back to polling.        *)
(***************************************************************************)
EXTENDS EntryLifecycle, TLC

CONSTANTS vac, mop

OneOfEach == (vac :> "mqtt") @@ (mop :> "local")
=============================================================================
