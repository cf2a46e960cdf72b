---------------------------- MODULE DeviceAccess ----------------------------
(***************************************************************************)
(* What the device lock of the local Tuya transport promises about a       *)
(* device object that is not thread-safe: one call at a time touches it, a *)
(* call is made on the current device only, at most that one holds a       *)
(* socket, and nothing touches any device once the transport is closed.    *)
(***************************************************************************)
CONSTANTS Devices, None

VARIABLES inUse,    \* the operations in progress
          current,  \* the device in service, None before and after
          sockets,  \* the devices that hold a socket
          closed    \* the transport has been closed

vars == <<inUse, current, sockets, closed>>

Init == inUse = {} /\ current = None /\ sockets = {} /\ closed = FALSE

Begin(op) ==
  /\ inUse = {} /\ ~closed
  /\ op = "open" \/ current # None
  /\ inUse' = {[op |-> op, on |-> current]}
  /\ UNCHANGED <<current, sockets, closed>>

\* Opening replaces the device, whose socket is closed first.
EndOpen ==
  /\ inUse = {[op |-> "open", on |-> current]}
  /\ inUse' = {} /\ sockets' = {}
  /\ current' \in Devices \cup {current}
  /\ UNCHANGED closed

EndUse ==
  /\ \E op \in {"status", "receive", "set"} :
       inUse = {[op |-> op, on |-> current]}
  /\ inUse' = {}
  /\ sockets' \subseteq {current}
  /\ UNCHANGED <<current, closed>>

EndClose ==
  /\ inUse = {[op |-> "close", on |-> current]}
  /\ inUse' = {} /\ sockets' = {} /\ current' = None /\ closed' = TRUE

Next ==
  \/ \E op \in {"open", "status", "receive", "set", "close"} : Begin(op)
  \/ EndOpen \/ EndUse \/ EndClose

Spec == Init /\ [][Next]_vars
=============================================================================
