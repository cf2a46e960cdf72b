----------------------------- MODULE MCDecoders -----------------------------
(***************************************************************************)
(* The decoders of the three kinds of robots, one kind in each behaviour:  *)
(* the data points of a scalar or a legacy robot, the maps of a novel one. *)
(***************************************************************************)
EXTENDS PlainRobots, MapStream

SuctionNames == <<"Quiet", "Standard">>

\* Three rooms, or one along the lower edge.
Plane == (-1..1) \X (0..1)
TwoFloors ==
  {[c \in Plane |-> IF c[1] < 0 THEN 1 ELSE IF c[2] = 0 THEN 2 ELSE 3],
   [c \in Plane |-> IF c[2] < 1 THEN 1 ELSE 0]}

Rect(x, w, h) == [x |-> x, y |-> 0, w |-> w, h |-> h]

\* A map grows as the robot explores.
GrowingGrids == {Rect(0, 2, 2), Rect(-1, 3, 2)}
TwoOutlines == {Rect(-1, 3, 2), Rect(0, 2, 2)}

\* Runs and repetitions, which an encoder copies or not.  The second, cut and taken
\* for a block, copies from before its output.
TwoPictures == {<<0, 0, 0, 0, 0, 0, 0>>, <<2, 0, 1, 2, 0, 1, 2, 0>>}

ZonesOrNot == {{}, {"zone"}}

Init ==
  \/ /\ PlainInit
     /\ floor = Absent /\ mapData = Absent /\ robotPixel = Absent
     /\ last = Absent /\ outlined = Absent /\ pose = Absent
     /\ cuts = 0
  \/ /\ MapInit
     /\ apiType = "novel" /\ robot = Absent /\ uplink = <<>> /\ downlink = <<>>
     /\ view = DefaultState /\ told = "none" /\ unmoved = FALSE /\ changes = 0

Next ==
  \/ apiType # "novel" /\ PlainNext /\ UNCHANGED mapVars
  \/ apiType = "novel" /\ MapNext /\ UNCHANGED plainVars

Spec == Init /\ [][Next]_<<plainVars, mapVars>>
=============================================================================
