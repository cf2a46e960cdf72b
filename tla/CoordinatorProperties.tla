----------------------- MODULE CoordinatorProperties -----------------------
(***************************************************************************)
(* What the coordinator must keep true: the invariants, the action         *)
(* properties, the abstract debounce it implements and its liveness.       *)
(***************************************************************************)
EXTENDS Coordinator

(***************************************************************************)
(* The messages and the states the program deals with.                     *)
(***************************************************************************)
Maybe(S) == S \cup {None}

StationReports == [busy : SUBSET DockActivityStates, state : StationStates]

WorkStation == [wash : Maybe(Nat), dust : BOOLEAN, water : Maybe(Nat)]

WorkReports ==
  [state : Nat, go_wash : Maybe(Nat), breakpoint : Maybe(Nat),
   cleaning : Maybe(Nat), go_home : Maybe(Nat), mode : Maybe(Nat),
   station : Maybe(WorkStation), scene : Maybe(Nat)]

PlayReports ==
  {p \in [rooms : SUBSET RoomIds, zones : Maybe(Nat)] :
     p.rooms = {} \/ p.zones = None}

DpsMessages ==
  [station : Maybe(StationReports), work : Maybe(WorkReports),
   play : Maybe(PlayReports), error : Maybe(Nat), battery : Maybe(Nat),
   map : Maybe([id : MapIds \cup {0}, rooms : SUBSET RoomIds])]

VacuumStates ==
  [activity : Activities, task_status : TaskStatuses,
   dock_status : Maybe(DockStatuses), error_code : Nat, battery_level : Nat,
   map_id : MapIds \cup {0}, rooms : SUBSET RoomIds, current_scene_id : Nat,
   active_room_ids : SUBSET RoomIds, active_zone_count : Nat]

Grids == DOMAIN PixelOf

Outlines == {b.outline : b \in {c \in BizMessages : c.kind = "map"}}

MapFrames == [grid : Grids, seq : Nat, outline : Maybe(Outlines)]

Badges == {"washing", "drying", "emptying", "station", "charging"}

Shots ==
  [map : MapFrames, robot : Maybe(Pixels), dock : Maybe(Pixels),
   status : Maybe(Badges), live : BOOLEAN]

StoredRecords ==
  [maps : [MapIds -> Maybe(MapNames)], trail : Seq(Pixels),
   dock : Maybe(Pixels), map : Maybe(MapFrames), image : Maybe(Shots)]

Contiguous(path) ==
  \A i \in 1..(Len(path) - 1) :
    \E g \in Grids : <<path[i], path[i + 1]>> \in TrailStep[g]

ASSUME MessagesAreTyped ==
  /\ Reports \subseteq DpsMessages
  /\ InitialReports \subseteq DpsMessages
  /\ Scenes \subseteq Nat

ASSUME MapStreamIsTyped ==
  \A b \in BizMessages :
    /\ b.kind = "description" => b.id \in MapIds /\ b.name \in MapNames
    /\ b.kind = "pose" => \A g \in Grids : PixelOf[g][b.pose] \in Maybe(Pixels)
    /\ b.kind = "map" => b.grid \in Grids

\* What a previous run saved, by the same code: its picture and its map are of
\* no frame of this run, and a dock position is saved with a map, which still
\* decodes.
ASSUME StorageIsTyped ==
  \A s \in StoredStates \ {None} :
    /\ s \in StoredRecords
    /\ Contiguous(s.trail)
    /\ s.image # None => s.image.live = FALSE
    /\ s.map # None => s.map.seq = 0
    /\ s.dock # None => s.map # None

ASSUME NoneIsNoFrame == None \notin MapFrames

ASSUME MapIdsArePositive == MapIds \subseteq Nat \ {0}

\* "" is the name of a map that was visited and never named.
ASSUME NamesAreGiven == "" \in MapNames /\ None \notin MapNames

(***************************************************************************)
(* Type correctness of the state every handler works on.                   *)
(***************************************************************************)
TypeOK ==
  /\ data \in VacuumStates
  /\ pending \in Maybe(DockStatuses)
  /\ dockTimer \in Maybe(0..Debounce)
  /\ segTimer \in Maybe(0..Debounce)
  /\ announced \in SUBSET RoomIds
  /\ shown \in Maybe(Nat)
  /\ lastNotified \in Nat
  /\ trail \in Seq(Pixels)
  /\ robotPixel \in Maybe(Pixels)
  /\ dockPixel \in Maybe(Pixels)
  /\ dockAge \in Maybe(0..BriefDock)
  /\ mapData \in Maybe(MapFrames)
  /\ renderAge \in 0..RenderGap
  /\ renders \subseteq Shots
  /\ image \in Maybe(Shots) /\ undrawn \in BOOLEAN
  /\ knownMaps \in [MapIds -> Maybe(MapNames)]
  /\ loaded \in BOOLEAN /\ seeded \in BOOLEAN /\ up \in BOOLEAN

-----------------------------------------------------------------------------
(***************************************************************************)
(* Invariants.                                                             *)
(***************************************************************************)

\* A dock status waits to be shown exactly when its timer runs, so none is
\* lost without a timer and no timer fires on nothing ("Pending dock status
\* was None when timer fired!"); only an unload drops the timer alone.
ArmedIffPending ==
  /\ dockTimer # None => pending # None
  /\ up /\ pending # None => dockTimer # None

Exclusive(d) ==
  /\ d.active_room_ids # {} =>
       d.active_zone_count = 0 /\ d.current_scene_id = 0
  /\ d.active_zone_count # 0 => d.current_scene_id = 0

\* At most one of a room selection, a zone selection and a scene is the
\* active target, whoever set it: a command, the echo of a command of the
\* app, or the robot's work status.
ExclusiveTargets == Exclusive(data)

\* The notification on screen and the code whose phone push is suppressed
\* are those of the error the robot is in: an error that cleared leaves
\* neither behind.
NotificationMatchesError ==
  /\ shown # None => shown = data.error_code /\ shown # 0
  /\ lastNotified \in {0, data.error_code}

\* Once a message has been handled after the storage load, the active map is
\* among the maps the Switch Map selector remembers, whatever was forgotten.
ActiveMapKnown ==
  seeded /\ data.map_id > 0 => knownMaps[data.map_id] # None

\* With no announcement due, the vacuum entity has compared its segments with
\* the rooms the state holds now.
RoomsAnnounced == up /\ segTimer = None => announced = data.rooms

\* A dock visit being timed has not been ended by cleaning, so its age is
\* never that of an earlier visit.
DockVisitIsOver == dockAge # None => data.activity # "cleaning"

\* No two neighbours of the trail are further apart than a step the robot can
\* make: poses that arrive while it returns or rests draw no line through a
\* wall, not even over a pause or a dock visit.
TrailIsContiguous == Contiguous(trail)

\* When no render is pending and the last one did not raise, a picture drawn
\* since the start shows the newest
\* frame, the dock and the badge of the current state, and a resting robot on
\* its dock: no change of these slipped by without a re-render, and none was
\* drawn from the state before the update.  A map the storage put back over a
\* frame already received is the exception: nothing draws it.
Current(shot) ==
  /\ shot.map = mapData
  /\ shot.dock = dockPixel
  /\ shot.status = RobotStatus(data)
  /\ AtRest(data) /\ dockPixel # None => shot.robot = dockPixel

ImageIsCurrent ==
  renders = {} /\ ~undrawn /\ image # None /\ image.live /\ mapData.seq > 0
    => Current(image)

-----------------------------------------------------------------------------
(***************************************************************************)
(* The coordinator implements the debounce of DockStatus.  A status that   *)
(* an unload left pending without a timer has been waiting for no time.    *)
(***************************************************************************)
StableFor ==
  CASE pending = None                         -> Debounce
    [] pending # None /\ dockTimer = None     -> 0
    [] OTHER                                  -> Debounce - dockTimer

Dock == INSTANCE DockStatus
          WITH Statuses <- Maybe(DockStatuses), visible <- data.dock_status,
               latest <- TargetDock, stable <- StableFor

\* The status entities see changes only to the last status reported, and only
\* after that report stood uncontradicted for the whole debounce period.
ImplementsDebounce == Dock!Spec

-----------------------------------------------------------------------------
(***************************************************************************)
(* Liveness.                                                               *)
(***************************************************************************)

\* A dock status that the robot does not take back is shown in the end,
\* however often it is repeated meanwhile.
DockStatusIsShown ==
  \A s \in DockStatuses :
    <>[](up /\ TargetDock = s) => <>[](data.dock_status = s)

\* Once nothing asks for another picture, the newest frame gets drawn, unless
\* its drawing raises: the renders that later requests cancelled do not lose it.
FrameIsDrawn ==
  <>[][renders' \subseteq renders]_renders
     => <>[](mapData # None /\ mapData.seq > 0 /\ ~undrawn =>
               image # None /\ image.map = mapData)

\* A room list the robot does not change again reaches the vacuum entity.
RoomsGetAnnounced ==
  <>[][~\E m \in Reports : m.map # None /\ HandleMqttMessage(m)]_vars
     => <>[](up => announced = data.rooms)

-----------------------------------------------------------------------------
(***************************************************************************)
(* What comments say and the code does not keep; no run checks these two.   *)
(***************************************************************************)

\* parser.py:347, "Reset to Idle if station field is present but no
\* activity": after such a work status the coordinator is not heading for a
\* dock activity.  The code does not keep it: it looks at the dock status shown,
\* not at the one that waits in the debounce.
StationWithoutActivityResets ==
  [][\A m \in Reports :
       (/\ m.station = None /\ m.work # None /\ m.work.station # None
        /\ ~HasDockActivity(m.work.station)
        /\ HandleMqttMessage(m))
       => TargetDock' \notin DockActivityStates]_vars

\* coordinator.py:404, "Remember every visited map id ... including the one
\* active at STARTUP": a map the robot leaves is remembered.  The code does not
\* keep it: the first message may already report another map.
LeftMapIsRemembered ==
  [][(data.map_id > 0 /\ data'.map_id # data.map_id)
     => knownMaps'[data.map_id] # None]_vars
=============================================================================
