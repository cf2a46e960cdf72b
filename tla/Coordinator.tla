---------------------------- MODULE Coordinator ----------------------------
(***************************************************************************)
(* coordinator.py, EufyCleanCoordinator of a device with a push transport  *)
(* (MQTT or local Tuya): the callbacks that run on the event loop, one     *)
(* action each.  A callback runs to its end before another starts; what    *)
(* interleaves is their order, the two debounce timers, the render task    *)
(* and the storage load, which may come after the first pushed messages    *)
(* because the transport is connected first.                               *)
(*                                                                         *)
(* Time advances in ticks, all of them the same length.                    *)
(***************************************************************************)
EXTENDS VacuumParser, Sequences

CONSTANTS
  Reports,          \* the DPS messages the robot may push
  InitialReports,   \* the DPS snapshots the cloud may return at setup
  BizMessages,      \* the map-stream messages the robot may push
  StoredStates,     \* what the Store may hold at start, None: no file
  MapIds, MapNames, \* saved maps and their friendly names, "" included
  Pixels,           \* grid positions
  PixelOf,          \* [grid -> [pose -> Pixels \cup {None}]]: _pose_to_pixel
  TrailStep,        \* [grid -> pixel pairs at a distance that extends the trail]
  Scenes,           \* the scene ids of the robot
  NotifyDesktop,    \* the CONF_NOTIFY_DESKTOP option
  Debounce,         \* 2.0 s, both debounce timers
  BriefDock,        \* 600 s, the longest dock visit that is a pause
  RenderGap,        \* 2.0 s between renders a pose causes
  MaxTrail, MaxFrames   \* bounds of the model: trail length, map frames

ASSUME TimesArePositive ==
  Debounce \in Nat \ {0} /\ BriefDock \in Nat \ {0} /\ RenderGap \in Nat \ {0}

VARIABLES
  data,          \* self.data, what entities show
  pending,       \* _pending_dock_status
  dockTimer,     \* ticks left on _dock_idle_cancel, None when not armed
  segTimer,      \* ticks left on _segment_update_cancel, None when not armed
  announced,     \* the rooms at the last rooms_updated signal
  shown,         \* the code of the persistent notification, None if dismissed
  lastNotified,  \* _last_notified_error_code
  trail, robotPixel, dockPixel,
  dockAge,       \* ticks since _dock_arrival_time, capped; None when unset
  mapData, mapChannel,
  renderAge,     \* ticks since _last_robot_render, capped
  renders,       \* the snapshots of the render tasks not done or cancelled
  image,         \* map_image: the shot it was drawn from
  undrawn,       \* history: the last drawing that ended raised
  knownMaps,     \* last_seen_maps, None for an id that is not a key
  loaded,        \* async_load_storage has run
  seeded,        \* history: a message was handled since the load
  up             \* the entry has not been unloaded

dockVars    == <<pending, dockTimer>>
segVars     == <<segTimer, announced>>
errorVars   == <<shown, lastNotified>>
sessionVars == <<trail, robotPixel, dockPixel, dockAge>>
mapVars     == <<mapData, mapChannel, renderAge>>
renderVars  == <<renders, image, undrawn>>
lifeVars    == <<loaded, seeded, up>>

vars == <<data, dockVars, segVars, errorVars, sessionVars, mapVars,
          renderVars, knownMaps, lifeVars>>

(***************************************************************************)
(* Rendering.  _rerender_map cancels the render in flight, whose thread    *)
(* may go on but whose result is dropped, and creates a new task.  Home    *)
(* Assistant starts a task as it creates it, up to its first await: the    *)
(* snapshot is the state at the call, the drawing ends later.              *)
(***************************************************************************)
AtRest(d) == d.activity \in {"docked", "idle"}

RobotStatus(d) ==
  CASE d.dock_status = "Washing"       -> "washing"
    [] d.dock_status = "Drying"        -> "drying"
    [] d.dock_status = "Emptying dust" -> "emptying"
    [] d.dock_status \in {"Adding clean water", "Recycling waste water",
                          "Making disinfectant", "Cutting hair"} -> "station"
    [] /\ d.dock_status \notin DockActivityStates
       /\ AtRest(d) /\ d.battery_level < 100 -> "charging"
    [] OTHER -> None

\* The snapshot _async_rerender_map takes; the trail it draws is left out.
Shot ==
  [map    |-> mapData,
   robot  |-> IF AtRest(data) THEN Given(dockPixel, robotPixel) ELSE robotPixel,
   dock   |-> dockPixel,
   status |-> RobotStatus(data),
   live   |-> TRUE]

\* Faults: the snapshot taken before the update, and a request dropped while a
\* render is in flight.
RerenderStale(wanted) == IF wanted THEN renders' = {Shot} ELSE UNCHANGED renders
RerenderUnlessBusy(wanted) ==
  IF wanted /\ renders = {} THEN renders' = {Shot'} ELSE UNCHANGED renders

RerenderIf(wanted) == IF wanted THEN renders' = {Shot'} ELSE UNCHANGED renders

\* A drawing that raises, for which an outline that came short is enough
\* (MapStream), leaves the picture there was; Home Assistant logs the error.
RenderDone ==
  \E shot \in renders :
     /\ \/ image' = shot /\ undrawn' = FALSE
        \/ undrawn' = TRUE /\ UNCHANGED image
     /\ renders' = renders \ {shot}
     /\ UNCHANGED <<data, dockVars, segVars, errorVars, sessionVars, mapVars,
                    knownMaps, lifeVars>>

(***************************************************************************)
(* _handle_mqtt_message, part by part.  ch is the changes dict, new the    *)
(* state it leads to.                                                      *)
(***************************************************************************)
\* Fault: clearing an error forgets the code kept for the phone push.
NotifyKeepsLast(ch, new) ==
  IF ch.error_code = None \/ (new.error_code = 0 /\ data.error_code = 0)
  THEN UNCHANGED errorVars
  ELSE /\ shown' = IF new.error_code = 0 THEN None
                   ELSE IF NotifyDesktop THEN new.error_code ELSE shown
       /\ lastNotified' = IF new.error_code = 0 THEN lastNotified
                          ELSE new.error_code

NotifyOrClearError(ch, new) ==
  IF ch.error_code = None \/ (new.error_code = 0 /\ data.error_code = 0)
  THEN UNCHANGED errorVars
  ELSE IF new.error_code # 0
       THEN /\ shown' = IF NotifyDesktop THEN new.error_code ELSE shown
            /\ lastNotified' = new.error_code
       ELSE /\ shown' = None
            /\ lastNotified' = 0

\* The trail is cleared for a new session and kept over a brief dock visit.
BriefVisit == dockAge # None /\ dockAge < BriefDock

\* Fault: a session that starts leaves the dock visit running.
FollowSessionDocked(ch, new) ==
  CASE /\ ch.activity = "cleaning" /\ data.activity # "cleaning" ->
         /\ trail' = IF BriefVisit THEN trail ELSE <<>>
         /\ robotPixel' = IF BriefVisit THEN robotPixel ELSE None
         /\ UNCHANGED <<dockPixel, dockAge>>
    [] ch.activity \in {"docked", "idle"} /\ robotPixel # None ->
         /\ dockAge' = Given(dockAge, 0)
         /\ dockPixel' = robotPixel
         /\ UNCHANGED <<trail, robotPixel>>
    [] OTHER -> UNCHANGED sessionVars

FollowSession(ch, new) ==
  CASE /\ ch.activity = "cleaning" /\ data.activity # "cleaning" ->
         /\ trail' = IF BriefVisit THEN trail ELSE <<>>
         /\ robotPixel' = IF BriefVisit THEN robotPixel ELSE None
         /\ dockAge' = None
         /\ UNCHANGED dockPixel
    [] ch.activity \in {"docked", "idle"} /\ robotPixel # None ->
         /\ dockAge' = Given(dockAge, 0)
         /\ dockPixel' = robotPixel
         /\ UNCHANGED <<trail, robotPixel>>
    [] OTHER -> UNCHANGED sessionVars

\* The status the coordinator is heading towards.
TargetDock == Given(pending, data.dock_status)

\* Faults: a timer not restarted for a new status, and one restarted by the
\* status that already waits.
DebounceDockEarly(ch) ==
  IF ch.dock_status # None /\ ch.dock_status # TargetDock
  THEN pending' = ch.dock_status /\ dockTimer' = Given(dockTimer, Debounce)
  ELSE UNCHANGED dockVars
DebounceDockOnRepeat(ch) ==
  IF ch.dock_status # None /\ ch.dock_status # data.dock_status
  THEN pending' = ch.dock_status /\ dockTimer' = Debounce
  ELSE UNCHANGED dockVars

DebounceDock(ch) ==
  IF ch.dock_status # None /\ ch.dock_status # TargetDock
  THEN /\ pending' = ch.dock_status
       /\ dockTimer' = Debounce          \* cancels the timer already armed
  ELSE UNCHANGED dockVars

RememberMapId(id) ==
  knownMaps' = IF id > 0 /\ knownMaps[id] = None
               THEN [knownMaps EXCEPT ![id] = ""]
               ELSE knownMaps

RerenderAfterUpdate(ch, new) ==
  /\ mapData # None
  /\ ch.activity # None \/ (ch.battery_level # None /\ AtRest(new))

\* Faults: new rooms that arm no timer, and a timer every message restarts.
DebounceSegmentsUnarmed(ch) == UNCHANGED segVars
DebounceSegmentsOnAny(ch) == segTimer' = Debounce /\ UNCHANGED announced

DebounceSegments(ch) ==
  /\ segTimer' = IF ch.rooms # None THEN Debounce ELSE segTimer
  /\ UNCHANGED announced

HandleMqttMessage(m) ==
  LET ch  == UpdateState(data, m)
      new == Replace(data, ch)
  IN  /\ NotifyOrClearError(ch, new)
      /\ FollowSession(ch, new)
      /\ DebounceDock(ch)
      /\ data' = [new EXCEPT !.dock_status = data.dock_status]
      /\ RememberMapId(new.map_id)
      /\ UNCHANGED mapVars
      /\ RerenderIf(RerenderAfterUpdate(ch, new))
      /\ DebounceSegments(ch)
      /\ seeded' = loaded
      /\ UNCHANGED <<image, undrawn, loaded, up>>

(***************************************************************************)
(* The debounce timers and their commits.                                  *)
(***************************************************************************)
CommitDockStatus ==
  /\ dockTimer = 0
  /\ dockTimer' = None
  /\ pending' = None
  /\ UNCHANGED <<segVars, errorVars, sessionVars, mapVars, image, undrawn,
                 knownMaps, lifeVars>>
  /\ IF pending = None
     THEN UNCHANGED <<data, renders>>
     ELSE /\ data' = [data EXCEPT !.dock_status = pending]
          /\ RerenderIf(mapData # None)

CommitSegmentChanges ==
  /\ segTimer = 0
  /\ segTimer' = None
  /\ announced' = data.rooms
  /\ UNCHANGED <<data, dockVars, errorVars, sessionVars, mapVars, renderVars,
                 knownMaps, lifeVars>>

CountDown(t) == IF t = None \/ t = 0 THEN t ELSE t - 1
CountUp(t, cap) == IF t = None \/ t = cap THEN t ELSE t + 1

Tick ==
  /\ dockTimer' = CountDown(dockTimer)
  /\ segTimer' = CountDown(segTimer)
  /\ dockAge' = CountUp(dockAge, BriefDock)
  /\ renderAge' = CountUp(renderAge, RenderGap)
  /\ UNCHANGED <<data, pending, announced, errorVars, trail, robotPixel,
                 dockPixel, mapData, mapChannel, renderVars, knownMaps,
                 lifeVars>>

(***************************************************************************)
(* _handle_biz_message: one action per kind of map-stream message.         *)
(***************************************************************************)
HandleMapDescription(b) ==
  /\ b.kind = "description"
  /\ knownMaps' = [knownMaps EXCEPT ![b.id] = b.name]
  /\ UNCHANGED <<data, dockVars, segVars, errorVars, sessionVars, mapVars,
                 renderVars, lifeVars>>

\* Fault: the distance measured from the robot, not from the trail's end.
ExtendedTrailFromRobot(px) ==
  IF /\ data.activity = "cleaning"
     /\ robotPixel = None \/ <<robotPixel, px>> \in TrailStep[mapData.grid]
  THEN Append(trail, px)
  ELSE trail

ExtendedTrail(px) ==
  IF /\ data.activity = "cleaning"
     /\ trail = <<>> \/ <<trail[Len(trail)], px>> \in TrailStep[mapData.grid]
  THEN Append(trail, px)
  ELSE trail

HandlePose(b) ==
  /\ b.kind = "pose"
  /\ mapData # None
  /\ UNCHANGED <<data, dockVars, segVars, errorVars, dockPixel, dockAge,
                 mapData, mapChannel, image, undrawn, knownMaps, lifeVars>>
  /\ LET px == PixelOf[mapData.grid][b.pose]
         due == px # robotPixel /\ renderAge = RenderGap
     IN  /\ px # None
         /\ trail' = ExtendedTrail(px)
         /\ Len(trail') <= MaxTrail
         /\ robotPixel' = px
         /\ renderAge' = IF due THEN 0 ELSE renderAge
         /\ RerenderIf(due)

IsMapCandidate(b) == mapChannel = None \/ b.channel = mapChannel \/ b.large

\* A plain map frame has no room outline: the cached one is kept.
HandleMapFrame(b) ==
  /\ b.kind = "map"
  /\ IsMapCandidate(b)
  /\ LET seq == IF mapData = None THEN 1 ELSE mapData.seq + 1
     IN  /\ seq <= MaxFrames
         /\ mapData' = [grid |-> b.grid, seq |-> seq,
                        outline |-> IF b.outline = None /\ mapData # None
                                    THEN mapData.outline ELSE b.outline]
  /\ mapChannel' = b.channel
  /\ UNCHANGED <<data, dockVars, segVars, errorVars, sessionVars, renderAge,
                 image, undrawn, knownMaps, lifeVars>>
  /\ RerenderIf(TRUE)

HandleBizMessage(b) ==
  HandleMapDescription(b) \/ HandlePose(b) \/ HandleMapFrame(b)

(***************************************************************************)
(* Setup, services and teardown.  Entities, and so the services, exist     *)
(* only once setup has loaded the storage.                                 *)
(***************************************************************************)
Restore(s) ==
  /\ ~loaded
  /\ loaded' = TRUE
  /\ seeded' = FALSE
  /\ IF s = None
     THEN UNCHANGED <<knownMaps, trail, dockPixel, mapData, image>>
     ELSE /\ knownMaps' = s.maps
          /\ trail' = IF s.trail # <<>> THEN s.trail ELSE trail
          /\ dockPixel' = Given(s.dock, dockPixel)
          /\ mapData' = Given(s.map, mapData)
          /\ image' = Given(s.image, image)
  /\ UNCHANGED <<data, dockVars, segVars, errorVars, robotPixel, dockAge,
                 mapChannel, renderAge, renders, undrawn, up>>

LoadStorage == \E s \in StoredStates : Restore(s)

SetActiveCleaningTargets(rooms, zones) ==
  /\ loaded
  /\ data' = [data EXCEPT !.active_room_ids   = rooms,
                          !.active_zone_count = IF rooms # {} THEN 0 ELSE zones,
                          !.current_scene_id  = 0]
  /\ UNCHANGED <<dockVars, segVars, errorVars, sessionVars, mapVars,
                 renderVars, knownMaps, lifeVars>>

SetActiveScene(scene) ==
  /\ loaded
  /\ data' = [data EXCEPT !.current_scene_id  = scene,
                          !.active_room_ids   = {},
                          !.active_zone_count = 0]
  /\ UNCHANGED <<dockVars, segVars, errorVars, sessionVars, mapVars,
                 renderVars, knownMaps, lifeVars>>

\* Fault: the active map is forgotten too.
ForgetAnyMap(id) ==
  /\ loaded
  /\ knownMaps' = [knownMaps EXCEPT ![id] = None]
  /\ UNCHANGED <<data, dockVars, segVars, errorVars, sessionVars, mapVars,
                 renderVars, lifeVars>>

\* The vacuum entity refuses to forget the active map.
ForgetMap(id) ==
  /\ loaded
  /\ id # data.map_id
  /\ knownMaps[id] # None
  /\ knownMaps' = [knownMaps EXCEPT ![id] = None]
  /\ UNCHANGED <<data, dockVars, segVars, errorVars, sessionVars, mapVars,
                 renderVars, lifeVars>>

\* async_shutdown_timers leaves the pending status where it is.
ShutdownTimers ==
  /\ loaded /\ up
  /\ up' = FALSE
  /\ dockTimer' = None
  /\ segTimer' = None
  /\ shown' = None
  /\ lastNotified' = 0
  /\ UNCHANGED <<data, pending, announced, sessionVars, mapVars, renderVars,
                 knownMaps, loaded, seeded>>

-----------------------------------------------------------------------------
Init ==
  /\ \E m \in InitialReports :
       data = Replace(DefaultState, UpdateState(DefaultState, m))
  /\ pending = None /\ dockTimer = None
  /\ segTimer = None /\ announced = data.rooms
  /\ shown = None /\ lastNotified = 0
  /\ trail = <<>> /\ robotPixel = None /\ dockPixel = None /\ dockAge = None
  /\ mapData = None /\ mapChannel = None /\ renderAge = RenderGap
  /\ renders = {} /\ image = None /\ undrawn = FALSE
  /\ knownMaps = [id \in MapIds |-> None]
  /\ loaded = FALSE /\ seeded = FALSE /\ up = TRUE

Timers == Tick \/ CommitDockStatus \/ CommitSegmentChanges

Services ==
  \/ \E rooms \in SUBSET RoomIds : SetActiveCleaningTargets(rooms, 0)
  \/ \E zones \in 1..2 : SetActiveCleaningTargets({}, zones)
  \/ \E scene \in Scenes : SetActiveScene(scene)
  \/ \E id \in MapIds : ForgetMap(id)

Next ==
  \/ \E m \in Reports : HandleMqttMessage(m)
  \/ \E b \in BizMessages : HandleBizMessage(b)
  \/ Timers
  \/ RenderDone
  \/ LoadStorage
  \/ Services
  \/ ShutdownTimers

Spec == Init /\ [][Next]_vars

\* The event loop runs what is due: time passes, a due timer fires, and the
\* executor finishes a drawing.
Fairness ==
  /\ WF_vars(Tick)
  /\ WF_vars(CommitDockStatus) /\ WF_vars(CommitSegmentChanges)
  /\ WF_vars(RenderDone)

FairSpec == Spec /\ Fairness
=============================================================================
