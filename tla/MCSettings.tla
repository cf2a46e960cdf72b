----------------------------- MODULE MCSettings -----------------------------
(***************************************************************************)
(* Instances of Settings for TLC: two settings of the dock on two          *)
(* platforms, a schedule with its switch and one of its times, and the mop *)
(* intensity, which is always available.                                   *)
(***************************************************************************)
EXTENDS Settings

CONSTANTS dust, dry, dnd, begin, mop

Dock == {dust, dry}
AllGroups == {Dock, {dnd, begin}, {mop}}
Times == {begin}
Open == {mop}
Platforms ==
  [f \in UNION AllGroups |-> IF f \in {dust, dnd} THEN "switch"
                             ELSE IF f = begin THEN "time" ELSE "select"]

\* Settings the device starts with that differ from the defaults.
MCInit == Init /\ robot = [f \in Fields |-> TRUE]

MCSpec == MCInit /\ [][Next]_vars
=============================================================================
