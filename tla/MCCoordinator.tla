--------------------------- MODULE MCCoordinator ---------------------------
(***************************************************************************)
(* Small alphabets of messages for model checking the coordinator.  A      *)
(* behaviour draws its messages, stored states and services from one       *)
(* concern: those a group of properties depends on.  A run checks the      *)
(* concerns named in Concerns.                                             *)
(***************************************************************************)
EXTENDS CoordinatorProperties, RobotMessages, FiniteSets, TLC

CONSTANTS r1, r2, pose1, pose2, pose3, px1, px2, px3, gridA, gridB, outlineA,
          Concerns     \* the concerns of the run

VARIABLE concern   \* the one of the behaviour

-----------------------------------------------------------------------------
\* Messages.
Resting == [wash |-> None, dust |-> FALSE, water |-> None]

Station(b, s) == [Blank EXCEPT !.station = [busy |-> b, state |-> s]]
Error(c)      == [Blank EXCEPT !.error = c]
Battery(b)    == [Blank EXCEPT !.battery = b]

Serviced(w, st) == [w EXCEPT !.station = st]

Frame(g, o, c, l) ==
  [kind |-> "map", grid |-> g, outline |-> o, channel |-> c, large |-> l]
Pose(p)    == [kind |-> "pose", pose |-> p]
Named(i,n) == [kind |-> "description", id |-> i, name |-> n]

BlankOnly == {Blank}
NoStore   == {None}

-----------------------------------------------------------------------------
\* Geometry: three positions on a line; a step reaches the neighbour.  In the
\* second grid the third pose is off the map.
PosePixels ==
  (gridA :> ((pose1 :> px1) @@ (pose2 :> px2) @@ (pose3 :> px3))) @@
  (gridB :> ((pose1 :> px1) @@ (pose2 :> px2) @@ (pose3 :> None)))

Near == {<<px1, px2>>, <<px2, px1>>, <<px2, px3>>, <<px3, px2>>}

Steps == [g \in {gridA, gridB} |-> Near]

-----------------------------------------------------------------------------
\* Dock: every way a dock status can arrive.
DockReports ==
  {Station({}, "Idle"), Station({}, "Washing"), Station({}, "Removing scale"),
   Station({"Cutting hair", "Recycling waste water"}, "Drying"),
   Work(Docked), Work(Cleaning),
   Work(Serviced(Docked, Resting)),
   Work(Serviced(Docked, [Resting EXCEPT !.wash = 1])),
   Work(Serviced(Docked, [Resting EXCEPT !.dust = TRUE])),
   Work(Serviced(Docked, [Resting EXCEPT !.wash = 0, !.water = 0])),
   [Station({}, "Washing") EXCEPT !.work = Docked]}

DockInitial == {Blank, Station({}, "Drying")}

\* Errors and rooms: the notification and the segment timer.
RoomReports ==
  {Error(0), Error(7), Error(9), OnMap(0, {}), OnMap(0, {r1}),
   OnMap(0, {r1, r2}), Station({}, "Washing")}

RoomInitial == {Blank, Error(7), OnMap(0, {r1})}

\* Targets: rooms, zones and scenes set by both sides.
TargetReports ==
  {Rooms({r1}), Rooms({}), Zones(2), Zones(0),
   Work(Idle), Work(Docked), Work(Cleaning), Work(WorkState(2)),
   Work(InScene(Cleaning, 1)), Work(InScene(Cleaning, 2)),
   Work(InMode(Cleaning, 1)),
   [Rooms({r2}) EXCEPT !.work = InScene(Cleaning, 1)],
   Work([Cleaning EXCEPT !.go_wash = 2]),
   Work([Docked EXCEPT !.breakpoint = 0])}

\* Maps: visiting, naming, forgetting, and what the Store held.
MapReports == {OnMap(1, {}), OnMap(2, {r1}), OnMap(0, {}), Battery(50)}
MapInitial == {Blank, OnMap(1, {})}
MapBiz     == {Named(1, "Home"), Named(2, "Attic")}
MapStores  ==
  {None} \cup
  {[maps |-> f, trail |-> <<>>, dock |-> None, map |-> None, image |-> None] :
     f \in {[i \in 1..2 |-> None], (1 :> "Home") @@ (2 :> None),
            (1 :> "") @@ (2 :> "Attic")}}

\* Sessions: the trail over pauses and dock visits, restored after a restart.
SessionReports ==
  {Work(Idle), Work(Docked), Work(Cleaning), Work(Returning), Work(Paused)}
SessionBiz == {Frame(gridA, None, 1, TRUE), Pose(pose1), Pose(pose2), Pose(pose3)}
StoredMap  == [grid |-> gridA, seq |-> 0, outline |-> None]
StoredShot ==
  [map |-> StoredMap, robot |-> px2, dock |-> px1,
   status |-> None, live |-> FALSE]
SessionStores ==
  {None, [maps |-> [i \in 1..2 |-> None], trail |-> <<px1, px2>>, dock |-> px1,
          map |-> StoredMap, image |-> StoredShot]}

\* Renders: one frame, poses, the dock badge and the battery badge; then
\* several frames on two channels, with a single pose.
RenderReports ==
  {Work(Docked), Work(Cleaning), Station({}, "Drying"), Battery(100)}
RenderBiz == {Frame(gridA, None, 1, FALSE), Pose(pose1), Pose(pose3)}
RenderStores ==
  {None, [maps |-> [i \in 1..2 |-> None], trail |-> <<>>, dock |-> px3,
          map |-> StoredMap, image |-> StoredShot]}

FrameReports == {Work(Cleaning), Battery(100)}
FrameBiz ==
  {Frame(gridA, outlineA, 1, FALSE), Frame(gridB, None, 1, FALSE),
   Frame(gridA, None, 2, FALSE), Frame(gridB, None, 2, TRUE), Pose(pose1)}

-----------------------------------------------------------------------------
\* Concerns.
ReportsOf(c) ==
  CASE c = "dock"    -> DockReports
    [] c = "rooms"   -> RoomReports
    [] c = "targets" -> TargetReports
    [] c = "maps"    -> MapReports
    [] c = "session" -> SessionReports
    [] c = "render"  -> RenderReports
    [] c = "frames"  -> FrameReports

InitialOf(c) ==
  CASE c = "dock"  -> DockInitial
    [] c = "rooms" -> RoomInitial
    [] c = "maps"  -> MapInitial
    [] OTHER       -> BlankOnly

BizOf(c) ==
  CASE c = "maps"    -> MapBiz
    [] c = "session" -> SessionBiz
    [] c = "render"  -> RenderBiz
    [] c = "frames"  -> FrameBiz
    [] OTHER         -> {}

StoresOf(c) ==
  CASE c = "maps"    -> MapStores
    [] c = "session" -> SessionStores
    [] c = "render"  -> RenderStores
    [] OTHER         -> NoStore

\* The constants Reports, InitialReports, BizMessages and StoredStates.
AllReports == UNION {ReportsOf(c) : c \in Concerns}
AllInitial == UNION {InitialOf(c) : c \in Concerns}
AllBiz     == UNION {BizOf(c) : c \in Concerns}
AllStores  == UNION {StoresOf(c) : c \in Concerns}

MCInit ==
  /\ Init
  /\ concern \in Concerns
  /\ data \in {Replace(DefaultState, UpdateState(DefaultState, m)) :
                 m \in InitialOf(concern)}

Cleanings ==
  \/ \E rooms \in SUBSET RoomIds : SetActiveCleaningTargets(rooms, 0)
  \/ \E zones \in 1..2 : SetActiveCleaningTargets({}, zones)
  \/ \E scene \in Scenes : SetActiveScene(scene)

MCNext ==
  /\ UNCHANGED concern
  /\ \/ \E m \in ReportsOf(concern) : HandleMqttMessage(m)
     \/ \E b \in BizOf(concern) : HandleBizMessage(b)
     \/ \E s \in StoresOf(concern) : Restore(s)
     \/ concern = "targets" /\ Cleanings
     \/ concern = "maps" /\ \E id \in MapIds : ForgetMap(id)
     \/ Timers
     \/ RenderDone
     \/ ShutdownTimers

MCSpec == MCInit /\ [][MCNext]_<<concern, vars>>

MCFairSpec == MCSpec /\ Fairness

-----------------------------------------------------------------------------
\* Views: what a concern reads, directly or through what feeds it; the
\* variables left out feed nothing in the view.
SessionView ==
  <<data, trail, robotPixel, dockPixel, dockAge, mapData, loaded, up>>

RenderView ==
  <<data, dockVars, robotPixel, dockPixel, dockAge, mapVars, renderVars,
    loaded, up>>

PictureView ==
  <<concern, IF concern = "session" THEN SessionView ELSE RenderView>>
=============================================================================
