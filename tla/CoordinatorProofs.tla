------------------------- MODULE CoordinatorProofs -------------------------
(***************************************************************************)
(* Proofs about the coordinator, for every alphabet of messages, every     *)
(* debounce period and every bound.                                        *)
(***************************************************************************)
EXTENDS CoordinatorProperties, TLAPS

(***************************************************************************)
(* What the parser returns.                                                *)
(***************************************************************************)
Changes ==
  [activity : Maybe(Activities), task_status : Maybe(TaskStatuses),
   dock_status : Maybe(DockStatuses), error_code : Maybe(Nat),
   battery_level : Maybe(Nat), map_id : Maybe(MapIds \cup {0}),
   rooms : Maybe(SUBSET RoomIds), current_scene_id : Maybe(Nat),
   active_room_ids : Maybe(SUBSET RoomIds), active_zone_count : Maybe(Nat)]

\* A value or its default is of the type of both.
LEMMA GivenType ==
  ASSUME NEW S, NEW x \in Maybe(S), NEW d \in S
  PROVE  Given(x, d) \in S
BY DEF Given, Maybe

\* A station report names a dock status.
LEMMA MapDockStatusType ==
  ASSUME NEW station \in StationReports
  PROVE  MapDockStatus(station) \in DockStatuses
<1> DEFINE raised == {i \in 1..5 : StationFlags[i] \in station.busy}
<1>1. CASE raised = {}
  BY <1>1 DEF MapDockStatus, StationReports, DockStatuses
<1>2. CASE raised # {}
  <2>1. \E i \in raised : \A j \in raised : i <= j
    BY <1>2
  <2>2. PICK i \in 1..5 :
          i = CHOOSE k \in raised : \A j \in raised : k <= j
    BY <2>1
  <2>3. MapDockStatus(station) = StationFlags[i]
    BY <1>2, <2>2 DEF MapDockStatus
  <2>4. \A k \in 1..5 : StationFlags[k] \in DockActivityStates
    <3>1. /\ StationFlags[1] \in DockActivityStates
          /\ StationFlags[2] \in DockActivityStates
          /\ StationFlags[3] \in DockActivityStates
          /\ StationFlags[4] \in DockActivityStates
          /\ StationFlags[5] \in DockActivityStates
      BY DEF StationFlags, DockActivityStates
    <3> QED BY <3>1
  <2> QED BY <2>2, <2>3, <2>4 DEF DockStatuses
<1> QED BY <1>1, <1>2

\* The activity a work status stands for.
LEMMA MapWorkStatusType ==
  ASSUME NEW work \in WorkReports
  PROVE  MapWorkStatus(work) \in Activities
BY DEF MapWorkStatus, Activities

\* The task status a work status stands for.
LEMMA MapTaskStatusType ==
  ASSUME NEW work \in WorkReports, NEW dock
  PROVE  MapTaskStatus(work, dock) \in TaskStatuses
BY DEF MapTaskStatus, ChargingTask, ReturningTask, TaskStatuses

\* The dock status a work status implies.
LEMMA WorkDockStatusType ==
  ASSUME NEW work \in WorkReports, NEW fromStation \in Maybe(DockStatuses),
         NEW committed
  PROVE  WorkDockStatus(work, fromStation, committed) \in Maybe(DockStatuses)
BY DEF WorkDockStatus, StationActivity, Maybe, DockStatuses,
       DockActivityStates, StationStates

\* The scene a work status implies.
LEMMA WorkSceneType ==
  ASSUME NEW work \in WorkReports
  PROVE  WorkScene(work) \in Maybe(Nat)
BY DEF WorkScene, WorkReports, Maybe

\* What each handler adds to the changes keeps their types.
LEMMA StationStepType ==
  ASSUME NEW m \in DpsMessages, NEW ch \in Changes
  PROVE  ProcessStationStatus(m, ch) \in Changes
<1>1. CASE m.station = None
  BY <1>1 DEF ProcessStationStatus
<1>2. CASE m.station # None
  <2>1. m.station \in StationReports
    BY <1>2 DEF DpsMessages, Maybe
  <2>2. MapDockStatus(m.station) \in Maybe(DockStatuses)
    BY <2>1, MapDockStatusType DEF Maybe
  <2> QED BY <1>2, <2>2 DEF ProcessStationStatus, Changes
<1> QED BY <1>1, <1>2

\* The work status handler keeps the types.
LEMMA WorkStepType ==
  ASSUME NEW state \in VacuumStates, NEW m \in DpsMessages, NEW ch \in Changes
  PROVE  ProcessWorkStatus(state, m, ch) \in Changes
<1>1. CASE m.work = None
  BY <1>1 DEF ProcessWorkStatus
<1>2. CASE m.work # None
  <2> DEFINE work     == m.work
             activity == MapWorkStatus(work)
             dock     == Given(ch.dock_status, state.dock_status)
             task     == MapTaskStatus(work, dock)
             clear    == /\ HasTargets(state)
                         /\ work.scene # None \/ TaskOver(state, activity, task)
  <2>1. work \in WorkReports
    BY <1>2 DEF DpsMessages, Maybe
  <2>2. activity \in Maybe(Activities)
    BY <2>1, MapWorkStatusType DEF Maybe
  <2>3. task \in Maybe(TaskStatuses)
    BY <2>1, MapTaskStatusType DEF Maybe
  <2>4. WorkDockStatus(work, ch.dock_status, state.dock_status) \in Maybe(DockStatuses)
    BY <2>1, WorkDockStatusType DEF Changes
  <2>5. WorkScene(work) \in Maybe(Nat)
    BY <2>1, WorkSceneType
  <2>6. (IF clear THEN {} ELSE ch.active_room_ids) \in Maybe(SUBSET RoomIds)
    BY DEF Changes, Maybe
  <2>7. (IF clear THEN 0 ELSE ch.active_zone_count) \in Maybe(Nat)
    BY DEF Changes, Maybe
  <2> HIDE DEF activity, dock, task, clear, work
  <2>8. ProcessWorkStatus(state, m, ch) =
          [ch EXCEPT !.activity          = activity,
                     !.task_status       = task,
                     !.dock_status       = WorkDockStatus(work, ch.dock_status, state.dock_status),
                     !.current_scene_id  = WorkScene(work),
                     !.active_room_ids   = IF clear THEN {} ELSE ch.active_room_ids,
                     !.active_zone_count = IF clear THEN 0 ELSE ch.active_zone_count]
    BY <1>2 DEF ProcessWorkStatus, work, activity, task, dock, clear
  <2> QED BY <2>2, <2>3, <2>4, <2>5, <2>6, <2>7, <2>8 DEF Changes
<1> QED BY <1>1, <1>2

\* The play/pause handler keeps the types.
LEMMA PlayStepType ==
  ASSUME NEW m \in DpsMessages, NEW ch \in Changes
  PROVE  ProcessPlayPause(m, ch) \in Changes
<1>1. CASE m.play = None \/ (m.play.rooms = {} /\ m.play.zones = None)
  BY <1>1 DEF ProcessPlayPause
<1>2. CASE ~(m.play = None \/ (m.play.rooms = {} /\ m.play.zones = None))
  <2>1. m.play.rooms \in SUBSET RoomIds /\ m.play.zones \in Maybe(Nat)
    BY <1>2 DEF DpsMessages, PlayReports, Maybe
  <2>2. Given(m.play.zones, 0) \in Maybe(Nat)
    BY <2>1 DEF Given, Maybe
  <2> QED BY <1>2, <2>1, <2>2 DEF ProcessPlayPause, Changes, Maybe
<1> QED BY <1>1, <1>2

\* The handler of the other data points keeps the types.
LEMMA OtherStepType ==
  ASSUME NEW m \in DpsMessages, NEW ch \in Changes
  PROVE  ProcessOtherDps(m, ch) \in Changes
<1>1. (IF m.map = None THEN None ELSE m.map.id) \in Maybe(MapIds \cup {0})
  BY DEF DpsMessages, Maybe
<1>2. (IF m.map = None THEN None ELSE m.map.rooms) \in Maybe(SUBSET RoomIds)
  BY DEF DpsMessages, Maybe
<1>3. m.error \in Maybe(Nat) /\ m.battery \in Maybe(Nat)
  BY DEF DpsMessages
<1> QED BY <1>1, <1>2, <1>3 DEF ProcessOtherDps, Changes

\* The parser returns changes of the right types.
LEMMA UpdateStateType ==
  ASSUME NEW state \in VacuumStates, NEW m \in DpsMessages
  PROVE  UpdateState(state, m) \in Changes
<1>1. NoChanges \in Changes
  BY DEF NoChanges, Changes, Maybe
<1>2. ProcessStationStatus(m, NoChanges) \in Changes
  BY <1>1, StationStepType
<1>3. ProcessWorkStatus(state, m, ProcessStationStatus(m, NoChanges)) \in Changes
  BY <1>2, WorkStepType
<1> QED BY <1>3, PlayStepType, OtherStepType DEF UpdateState

\* Replacing fields of a state by changes gives a state.
LEMMA ReplaceType ==
  ASSUME NEW state \in VacuumStates, NEW ch \in Changes
  PROVE  Replace(state, ch) \in VacuumStates
BY DEF Replace, Given, Changes, VacuumStates, Maybe

\* A fresh state is of the type of the states.
LEMMA DefaultStateType == DefaultState \in VacuumStates
BY DEF DefaultState, VacuumStates, Activities, TaskStatuses, Maybe

-----------------------------------------------------------------------------
(***************************************************************************)
(* Type correctness.                                                       *)
(***************************************************************************)

\* The coordinator starts in a state of the right types.
LEMMA InitType == Init => TypeOK
<1> SUFFICES ASSUME Init PROVE TypeOK
  OBVIOUS
<1>1. data \in VacuumStates
  <2>1. PICK m \in InitialReports :
          data = Replace(DefaultState, UpdateState(DefaultState, m))
    BY DEF Init
  <2>2. m \in DpsMessages
    BY MessagesAreTyped
  <2> QED BY <2>1, <2>2, DefaultStateType, UpdateStateType, ReplaceType
<1>2. announced \in SUBSET RoomIds
  BY <1>1 DEF Init, VacuumStates
<1>3. knownMaps \in [MapIds -> Maybe(MapNames)]
  BY DEF Init, Maybe
<1>4. renderAge \in 0..RenderGap
  BY TimesArePositive DEF Init
<1>5. trail \in Seq(Pixels)
  BY DEF Init
<1> QED BY <1>1, <1>2, <1>3, <1>4, <1>5 DEF Init, TypeOK, Maybe

\* A render request snapshots a typed state.
LEMMA RerenderType ==
  ASSUME TypeOK, NEW wanted \in BOOLEAN, RerenderIf(wanted),
         wanted => mapData' \in MapFrames,
         dockPixel' \in Maybe(Pixels), robotPixel' \in Maybe(Pixels)
  PROVE  renders' \subseteq Shots
<1>1. CASE ~wanted
  BY <1>1 DEF RerenderIf, TypeOK
<1>2. CASE wanted
  <2>1. RobotStatus(data') \in Maybe(Badges)
    BY DEF RobotStatus, Badges, Maybe
  <2>2. (IF AtRest(data') THEN Given(dockPixel', robotPixel') ELSE robotPixel')
          \in Maybe(Pixels)
    BY DEF Given
  <2>3. Shot' \in Shots
    BY <1>2, <2>1, <2>2 DEF Shot, Shots
  <2> QED BY <1>2, <2>3 DEF RerenderIf
<1> QED BY <1>1, <1>2

\* A handled message leaves a typed state, except for the dock status, which
\* stays what it was.
LEMMA MessageType ==
  ASSUME TypeOK, NEW m \in Reports
  PROVE  /\ UpdateState(data, m) \in Changes
         /\ Replace(data, UpdateState(data, m)) \in VacuumStates
         /\ [Replace(data, UpdateState(data, m)) EXCEPT !.dock_status = data.dock_status]
              \in VacuumStates
<1>1. data \in VacuumStates /\ m \in DpsMessages
  BY MessagesAreTyped DEF TypeOK
<1>2. UpdateState(data, m) \in Changes
  BY <1>1, UpdateStateType
<1>3. Replace(data, UpdateState(data, m)) \in VacuumStates
  BY <1>1, <1>2, ReplaceType
<1>4. data.dock_status \in Maybe(DockStatuses)
  BY <1>1 DEF VacuumStates
<1>5. \A v \in VacuumStates : [v EXCEPT !.dock_status = data.dock_status] \in VacuumStates
  BY <1>4 DEF VacuumStates
<1> QED BY <1>2, <1>3, <1>5

\* The type invariant survives a DPS message.
LEMMA HandleMqttMessageType ==
  ASSUME TypeOK, NEW m \in Reports, HandleMqttMessage(m)
  PROVE  TypeOK'
<1> DEFINE ch  == UpdateState(data, m)
           new == Replace(data, ch)
<1>1. /\ ch \in Changes
      /\ new \in VacuumStates
      /\ [new EXCEPT !.dock_status = data.dock_status] \in VacuumStates
  BY MessageType
<1> HIDE DEF ch, new
<1>2. /\ NotifyOrClearError(ch, new)
      /\ FollowSession(ch, new)
      /\ DebounceDock(ch)
      /\ data' = [new EXCEPT !.dock_status = data.dock_status]
      /\ RememberMapId(new.map_id)
      /\ UNCHANGED mapVars
      /\ RerenderIf(RerenderAfterUpdate(ch, new))
      /\ DebounceSegments(ch)
      /\ seeded' = loaded
      /\ UNCHANGED <<image, undrawn, loaded, up>>
  BY DEF HandleMqttMessage, ch, new
<1>3. data' \in VacuumStates
  BY <1>1, <1>2
<1>4. pending' \in Maybe(DockStatuses) /\ dockTimer' \in Maybe(0..Debounce)
  BY <1>1, <1>2, TimesArePositive DEF DebounceDock, dockVars, TypeOK, Changes, Maybe
<1>5. segTimer' \in Maybe(0..Debounce) /\ announced' \in SUBSET RoomIds
  BY <1>2, TimesArePositive DEF DebounceSegments, TypeOK, Maybe
<1>6. shown' \in Maybe(Nat) /\ lastNotified' \in Nat
  BY <1>1, <1>2 DEF NotifyOrClearError, errorVars, TypeOK, VacuumStates, Maybe
<1>7. /\ trail' \in Seq(Pixels) /\ robotPixel' \in Maybe(Pixels)
      /\ dockPixel' \in Maybe(Pixels) /\ dockAge' \in Maybe(0..BriefDock)
  <2>1. <<>> \in Seq(Pixels) /\ 0 \in 0..BriefDock
    BY TimesArePositive
  <2>2. /\ trail \in Seq(Pixels) /\ robotPixel \in Maybe(Pixels)
        /\ dockPixel \in Maybe(Pixels) /\ dockAge \in Maybe(0..BriefDock)
    BY DEF TypeOK
  <2>3. None \in Maybe(Pixels) /\ None \in Maybe(0..BriefDock)
    BY DEF Maybe
  <2>4. Given(dockAge, 0) \in Maybe(0..BriefDock)
    BY <2>1, <2>2 DEF Given, Maybe
  <2> QED
    BY <1>2, <2>1, <2>2, <2>3, <2>4 DEF FollowSession, sessionVars
<1>8. knownMaps' \in [MapIds -> Maybe(MapNames)]
  BY <1>2, NamesAreGiven DEF RememberMapId, TypeOK, Maybe
<1>9. mapData' = mapData /\ renderAge' = renderAge
  BY <1>2 DEF mapVars
<1>10. renders' \subseteq Shots
  <2> DEFINE wanted == RerenderAfterUpdate(ch, new)
  <2>1. wanted \in BOOLEAN
    BY DEF RerenderAfterUpdate
  <2>2. wanted => mapData' \in MapFrames
    BY <1>9 DEF RerenderAfterUpdate, TypeOK, Maybe
  <2>3. RerenderIf(wanted)
    BY <1>2
  <2> HIDE DEF wanted
  <2> QED BY <1>7, <2>1, <2>2, <2>3, RerenderType
<1> QED
  BY <1>2, <1>3, <1>4, <1>5, <1>6, <1>7, <1>8, <1>9, <1>10 DEF TypeOK

\* The type invariant survives the map stream.
LEMMA HandleBizMessageType ==
  ASSUME TypeOK, NEW b \in BizMessages, HandleBizMessage(b)
  PROVE  TypeOK'
<1>1. CASE HandleMapDescription(b)
  <2>1. b.id \in MapIds /\ b.name \in MapNames
    BY <1>1, MapStreamIsTyped DEF HandleMapDescription
  <2>2. knownMaps' \in [MapIds -> Maybe(MapNames)]
    BY <1>1, <2>1 DEF HandleMapDescription, TypeOK, Maybe
  <2> QED
    BY <1>1, <2>2
    DEF HandleMapDescription, TypeOK, dockVars, segVars, errorVars, sessionVars,
        mapVars, renderVars, lifeVars
<1>2. CASE HandlePose(b)
  <2> DEFINE px  == PixelOf[mapData.grid][b.pose]
             due == px # robotPixel /\ renderAge = RenderGap
  <2>1. /\ b.kind = "pose"
        /\ mapData # None
        /\ px # None
        /\ trail' = ExtendedTrail(px)
        /\ robotPixel' = px
        /\ renderAge' = IF due THEN 0 ELSE renderAge
        /\ RerenderIf(due)
    BY <1>2 DEF HandlePose
  <2>2. UNCHANGED <<data, dockVars, segVars, errorVars, dockPixel, dockAge,
                    mapData, mapChannel, image, undrawn, knownMaps, lifeVars>>
    BY <1>2 DEF HandlePose
  <2>3. mapData \in MapFrames
    BY <2>1 DEF TypeOK, Maybe
  <2>4. px \in Pixels
    BY <2>1, <2>3, MapStreamIsTyped DEF MapFrames, Maybe
  <2>5. due \in BOOLEAN
    OBVIOUS
  <2> HIDE DEF px, due
  <2>6. trail' \in Seq(Pixels)
    BY <2>1, <2>4 DEF ExtendedTrail, TypeOK
  <2>7. renderAge' \in 0..RenderGap
    BY <2>1, TimesArePositive DEF TypeOK
  <2>8. renders' \subseteq Shots
    BY <2>1, <2>2, <2>3, <2>4, <2>5, RerenderType DEF TypeOK, Maybe
  <2> QED
    BY <2>1, <2>2, <2>4, <2>6, <2>7, <2>8
    DEF TypeOK, dockVars, segVars, errorVars, lifeVars, Maybe
<1>3. CASE HandleMapFrame(b)
  <2>1. b.kind = "map" /\ b.grid \in Grids /\ b.outline \in Outlines
    BY <1>3, MapStreamIsTyped DEF HandleMapFrame, Outlines
  <2>2. mapData' \in MapFrames
    BY <1>3, <2>1 DEF HandleMapFrame, MapFrames, TypeOK, Maybe
  <2>3. UNCHANGED <<data, dockVars, segVars, errorVars, sessionVars, renderAge,
                    image, undrawn, knownMaps, lifeVars>>
    BY <1>3 DEF HandleMapFrame
  <2>4. renders' \subseteq Shots
    BY <1>3, <2>2, <2>3, RerenderType DEF HandleMapFrame, TypeOK, sessionVars
  <2> QED
    BY <2>2, <2>3, <2>4
    DEF TypeOK, dockVars, segVars, errorVars, sessionVars, lifeVars, Maybe
<1> QED BY <1>1, <1>2, <1>3 DEF HandleBizMessage

\* The type invariant survives the timers and the passing of time.
LEMMA TimersType ==
  ASSUME TypeOK, Timers
  PROVE  TypeOK'
<1>1. CASE Tick
  <2>1. /\ dockTimer' \in Maybe(0..Debounce) /\ segTimer' \in Maybe(0..Debounce)
        /\ dockAge' \in Maybe(0..BriefDock)
    BY <1>1, TimesArePositive, NoneIsNoValue
    DEF Tick, CountDown, CountUp, TypeOK, Maybe
  <2>2. renderAge' \in 0..RenderGap
    BY <1>1, TimesArePositive, NoneIsNoValue DEF Tick, CountUp, TypeOK
  <2> QED
    BY <1>1, <2>1, <2>2
    DEF Tick, TypeOK, errorVars, renderVars, lifeVars
<1>2. CASE CommitDockStatus
  <2>1. UNCHANGED <<segVars, errorVars, sessionVars, mapVars, image, undrawn, knownMaps,
                    lifeVars>>
    BY <1>2 DEF CommitDockStatus
  <2>2. pending' = None /\ dockTimer' = None
    BY <1>2 DEF CommitDockStatus
  <2>3. CASE pending = None
    BY <1>2, <2>1, <2>2, <2>3
    DEF CommitDockStatus, TypeOK, segVars, errorVars, sessionVars, mapVars,
        lifeVars, Maybe
  <2>4. CASE pending # None
    <3>1. /\ data' = [data EXCEPT !.dock_status = pending]
          /\ RerenderIf(mapData # None)
      BY <1>2, <2>4 DEF CommitDockStatus
    <3>2. data' \in VacuumStates
      BY <2>4, <3>1 DEF TypeOK, VacuumStates, Maybe
    <3>3. renders' \subseteq Shots
      BY <2>1, <3>1, RerenderType DEF TypeOK, Maybe, mapVars, sessionVars
    <3> QED
      BY <2>1, <2>2, <3>2, <3>3
      DEF TypeOK, segVars, errorVars, sessionVars, mapVars, lifeVars, Maybe
  <2> QED BY <2>3, <2>4
<1>3. CASE CommitSegmentChanges
  <2>1. announced' \in SUBSET RoomIds
    BY <1>3 DEF CommitSegmentChanges, TypeOK, VacuumStates
  <2> QED
    BY <1>3, <2>1
    DEF CommitSegmentChanges, TypeOK, dockVars, errorVars, sessionVars,
        mapVars, renderVars, lifeVars, Maybe
<1> QED BY <1>1, <1>2, <1>3 DEF Timers

\* The type invariant survives a finished drawing and the storage load.
LEMMA ImageType ==
  ASSUME TypeOK, RenderDone \/ LoadStorage
  PROVE  TypeOK'
<1>1. CASE RenderDone
  <2>1. image' \in Maybe(Shots) /\ renders' \subseteq renders /\ undrawn' \in BOOLEAN
    <3>1. renders \subseteq Shots /\ image \in Maybe(Shots) /\ undrawn \in BOOLEAN
      BY DEF TypeOK
    <3>2. \A shot \in renders : shot \in Maybe(Shots)
      BY <3>1 DEF Maybe
    <3> QED
      BY <1>1, <3>1, <3>2 DEF RenderDone
  <2> QED
    BY <1>1, <2>1
    DEF RenderDone, TypeOK, dockVars, segVars, errorVars, sessionVars, mapVars,
        lifeVars, Maybe
<1>2. CASE LoadStorage
  <2>1. PICK s \in StoredStates :
          IF s = None
          THEN UNCHANGED <<knownMaps, trail, dockPixel, mapData, image>>
          ELSE /\ knownMaps' = s.maps
               /\ trail' = IF s.trail # <<>> THEN s.trail ELSE trail
               /\ dockPixel' = Given(s.dock, dockPixel)
               /\ mapData' = Given(s.map, mapData)
               /\ image' = Given(s.image, image)
    BY <1>2 DEF LoadStorage, Restore
  <2>2. s # None => s \in StoredRecords
    BY StorageIsTyped
  <2>3. /\ knownMaps' \in [MapIds -> Maybe(MapNames)] /\ trail' \in Seq(Pixels)
        /\ dockPixel' \in Maybe(Pixels) /\ mapData' \in Maybe(MapFrames)
        /\ image' \in Maybe(Shots)
    BY <2>1, <2>2 DEF StoredRecords, Given, TypeOK
  <2> QED
    BY <1>2, <2>3 DEF LoadStorage, Restore, TypeOK, dockVars, segVars, errorVars
<1> QED BY <1>1, <1>2

\* The type invariant survives the services and the unload.
LEMMA ServicesType ==
  ASSUME TypeOK, Services \/ ShutdownTimers
  PROVE  TypeOK'
<1>1. ASSUME NEW rooms \in SUBSET RoomIds, NEW zones \in Nat,
             SetActiveCleaningTargets(rooms, zones)
      PROVE  TypeOK'
  <2>1. data' \in VacuumStates
    BY <1>1 DEF SetActiveCleaningTargets, TypeOK, VacuumStates
  <2> QED
    BY <1>1, <2>1
    DEF SetActiveCleaningTargets, TypeOK, dockVars, segVars, errorVars,
        sessionVars, mapVars, renderVars, lifeVars
<1>2. ASSUME NEW scene \in Scenes, SetActiveScene(scene)
      PROVE  TypeOK'
  <2>1. data' \in VacuumStates
    BY <1>2, MessagesAreTyped DEF SetActiveScene, TypeOK, VacuumStates
  <2> QED
    BY <1>2, <2>1
    DEF SetActiveScene, TypeOK, dockVars, segVars, errorVars, sessionVars,
        mapVars, renderVars, lifeVars
<1>3. ASSUME NEW id \in MapIds, ForgetMap(id)
      PROVE  TypeOK'
  <2>1. knownMaps' \in [MapIds -> Maybe(MapNames)]
    BY <1>3 DEF ForgetMap, TypeOK, Maybe
  <2> QED
    BY <1>3, <2>1
    DEF ForgetMap, TypeOK, dockVars, segVars, errorVars, sessionVars, mapVars,
        renderVars, lifeVars
<1>4. CASE ShutdownTimers
  BY <1>4
  DEF ShutdownTimers, TypeOK, sessionVars, mapVars, renderVars, Maybe
<1> QED BY <1>1, <1>2, <1>3, <1>4 DEF Services

\* Every step keeps the state typed.
LEMMA NextType == TypeOK /\ [Next]_vars => TypeOK'
<1> SUFFICES ASSUME TypeOK, [Next]_vars PROVE TypeOK'
  OBVIOUS
<1>1. CASE \E m \in Reports : HandleMqttMessage(m)
  BY <1>1, HandleMqttMessageType
<1>2. CASE \E b \in BizMessages : HandleBizMessage(b)
  BY <1>2, HandleBizMessageType
<1>3. CASE Timers
  BY <1>3, TimersType
<1>4. CASE RenderDone \/ LoadStorage
  BY <1>4, ImageType
<1>5. CASE Services \/ ShutdownTimers
  BY <1>5, ServicesType
<1>6. CASE UNCHANGED vars
  BY <1>6
  DEF vars, TypeOK, dockVars, segVars, errorVars, sessionVars, mapVars,
      renderVars, lifeVars
<1> QED BY <1>1, <1>2, <1>3, <1>4, <1>5, <1>6 DEF Next

\* Whatever the robot sends, and in whatever order the callbacks run, the
\* coordinator's state is of the types its handlers expect.
THEOREM TypeCorrect == Spec => []TypeOK
BY InitType, NextType, PTL DEF Spec

-----------------------------------------------------------------------------
(***************************************************************************)
(* The dock status debounce.                                               *)
(***************************************************************************)

\* The steps that touch the debounce.
LEMMA DockFrame ==
  ASSUME TypeOK, [Next]_vars
  PROVE  \/ \E m \in Reports : HandleMqttMessage(m)
         \/ Tick
         \/ CommitDockStatus
         \/ ShutdownTimers
         \/ UNCHANGED <<dockVars, up>> /\ data'.dock_status = data.dock_status
<1>1. CASE \E b \in BizMessages : HandleBizMessage(b)
  BY <1>1
  DEF HandleBizMessage, HandleMapDescription, HandlePose, HandleMapFrame, lifeVars
<1>2. CASE CommitSegmentChanges \/ RenderDone \/ LoadStorage
  BY <1>2 DEF CommitSegmentChanges, RenderDone, LoadStorage, Restore, lifeVars
<1>3. CASE Services
  BY <1>3
  DEF Services, SetActiveCleaningTargets, SetActiveScene, ForgetMap, lifeVars,
      TypeOK, VacuumStates
<1>4. CASE UNCHANGED vars
  BY <1>4 DEF vars, lifeVars
<1> QED BY <1>1, <1>2, <1>3, <1>4 DEF Next, Timers

\* What a message does to the debounce.
LEMMA MessageDock ==
  ASSUME TypeOK, NEW m \in Reports, HandleMqttMessage(m)
  PROVE  /\ DebounceDock(UpdateState(data, m))
         /\ UpdateState(data, m) \in Changes
         /\ data'.dock_status = data.dock_status
         /\ up' = up
<1>1. /\ UpdateState(data, m) \in Changes
      /\ Replace(data, UpdateState(data, m)) \in VacuumStates
  BY MessageType
<1>2. data' = [Replace(data, UpdateState(data, m)) EXCEPT !.dock_status = data.dock_status]
  BY DEF HandleMqttMessage
<1>3. data'.dock_status = data.dock_status
  BY <1>1, <1>2 DEF VacuumStates
<1> QED BY <1>1, <1>3 DEF HandleMqttMessage

\* A pending status always has its timer and a timer its status.
LEMMA ArmedStep ==
  ASSUME TypeOK, ArmedIffPending, [Next]_vars
  PROVE  ArmedIffPending'
<1>1. ASSUME NEW m \in Reports, HandleMqttMessage(m)
      PROVE  ArmedIffPending'
  BY <1>1, MessageDock, TimesArePositive, NoneIsNoValue
  DEF DebounceDock, ArmedIffPending, dockVars
<1>2. CASE Tick
  BY <1>2, NoneIsNoValue DEF Tick, CountDown, ArmedIffPending, TypeOK, Maybe, lifeVars
<1>3. CASE CommitDockStatus
  BY <1>3 DEF CommitDockStatus, ArmedIffPending
<1>4. CASE ShutdownTimers
  BY <1>4 DEF ShutdownTimers, ArmedIffPending
<1>5. CASE UNCHANGED <<dockVars, up>>
  BY <1>5 DEF dockVars, ArmedIffPending
<1> QED BY <1>1, <1>2, <1>3, <1>4, <1>5, DockFrame

\* No dock status waits without a timer and no timer waits for nothing, until
\* the entry is unloaded: the warning of _async_commit_dock_status is dead code.
THEOREM PendingIsArmed == Spec => []ArmedIffPending
<1>1. Init => ArmedIffPending
  BY DEF Init, ArmedIffPending
<1>2. TypeOK /\ ArmedIffPending /\ [Next]_vars => ArmedIffPending'
  BY ArmedStep
<1> QED BY <1>1, <1>2, TypeCorrect, PTL DEF Spec

\* The coordinator starts as a debounce starts.
LEMMA DockInit ==
  ASSUME TypeOK, Init
  PROVE  Dock!Init
BY DEF Dock!Init, Init, TargetDock, Given, StableFor, TypeOK, VacuumStates

\* Every step of the coordinator is a step of the debounce or leaves it alone.
LEMMA DockStep ==
  ASSUME TypeOK, ArmedIffPending, [Next]_vars
  PROVE  [Dock!Next]_(Dock!vars)
<1> USE NoneIsNoValue, TimesArePositive
<1>0. /\ dockTimer \in Maybe(0..Debounce)
      /\ pending \in Maybe(DockStatuses)
      /\ data \in VacuumStates
      /\ dockTimer # None => pending # None
  BY DEF TypeOK, ArmedIffPending
<1>1. ASSUME NEW m \in Reports, HandleMqttMessage(m)
      PROVE  [Dock!Next]_(Dock!vars)
  <2> DEFINE ch == UpdateState(data, m)
  <2>1. /\ DebounceDock(ch)
        /\ ch \in Changes
        /\ data'.dock_status = data.dock_status
    BY <1>1, MessageDock
  <2> HIDE DEF ch
  <2>2. CASE ch.dock_status # None /\ ch.dock_status # TargetDock
    <3>1. pending' = ch.dock_status /\ dockTimer' = Debounce
      BY <2>1, <2>2 DEF DebounceDock
    <3>2. TargetDock' = ch.dock_status
      BY <2>2, <3>1 DEF TargetDock, Given
    <3>3. StableFor' = 0
      BY <2>2, <3>1 DEF StableFor
    <3>4. ch.dock_status \in Maybe(DockStatuses)
      BY <2>1 DEF Changes
    <3>5. Dock!Report(ch.dock_status)
      BY <2>1, <2>2, <3>2, <3>3 DEF Dock!Report
    <3> QED BY <3>4, <3>5 DEF Dock!Next
  <2>3. CASE ~(ch.dock_status # None /\ ch.dock_status # TargetDock)
    BY <2>1, <2>3 DEF DebounceDock, dockVars, Dock!vars, TargetDock, StableFor
  <2> QED BY <2>2, <2>3
<1>2. CASE Tick
  <2>1. UNCHANGED <<data, pending>> /\ dockTimer' = CountDown(dockTimer)
    BY <1>2 DEF Tick
  <2>2. TargetDock' = TargetDock
    BY <2>1 DEF TargetDock
  <2>3. CASE dockTimer = None \/ dockTimer = 0
    BY <2>1, <2>2, <2>3 DEF CountDown, StableFor, Dock!vars
  <2>4. CASE dockTimer # None /\ dockTimer # 0
    <3>1. StableFor = Debounce - dockTimer /\ dockTimer \in 1..Debounce
      BY <1>0, <2>4 DEF StableFor, Maybe
    <3>2. StableFor' = StableFor + 1
      BY <1>0, <2>1, <2>4, <3>1 DEF StableFor, CountDown
    <3> QED BY <2>1, <2>2, <3>1, <3>2 DEF Dock!Tick, Dock!Next
  <2> QED BY <2>3, <2>4
<1>3. CASE CommitDockStatus
  <2>1. pending # None /\ dockTimer = 0
    BY <1>0, <1>3 DEF CommitDockStatus
  <2>2. data'.dock_status = pending /\ pending' = None
    BY <1>0, <1>3, <2>1 DEF CommitDockStatus, VacuumStates
  <2>3. StableFor = Debounce /\ StableFor' = Debounce
    BY <2>1, <2>2 DEF StableFor
  <2>4. TargetDock = pending /\ TargetDock' = pending
    BY <2>1, <2>2 DEF TargetDock, Given
  <2> QED BY <2>2, <2>3, <2>4 DEF Dock!Show, Dock!Next
<1>4. CASE ShutdownTimers
  <2>1. UNCHANGED <<data, pending>> /\ dockTimer' = None
    BY <1>4 DEF ShutdownTimers
  <2>2. TargetDock' = TargetDock
    BY <2>1 DEF TargetDock
  <2>3. CASE pending = None
    BY <2>1, <2>2, <2>3 DEF StableFor, Dock!vars
  <2>4. CASE pending # None
    <3>1. StableFor' = 0
      BY <2>1, <2>4 DEF StableFor
    <3> QED BY <2>1, <2>2, <3>1 DEF Dock!Abandon, Dock!Next
  <2> QED BY <2>3, <2>4
<1>5. CASE UNCHANGED dockVars /\ data'.dock_status = data.dock_status
  BY <1>5 DEF dockVars, Dock!vars, TargetDock, StableFor
<1> QED BY <1>1, <1>2, <1>3, <1>4, <1>5, DockFrame

\* The dock status entities see is the last one reported, shown only after it
\* went uncontradicted for the whole debounce period: Coordinator implements
\* DockStatus.
THEOREM DebounceRefinement == Spec => ImplementsDebounce
<1>1. TypeOK /\ Init => Dock!Init
  BY DockInit
<1>2. TypeOK /\ ArmedIffPending /\ [Next]_vars => [Dock!Next]_(Dock!vars)
  BY DockStep
<1> QED
  BY <1>1, <1>2, TypeCorrect, PendingIsArmed, PTL
  DEF Spec, ImplementsDebounce, Dock!Spec

-----------------------------------------------------------------------------
(***************************************************************************)
(* What a message changes, field by field.                                 *)
(***************************************************************************)

\* The state after a message, in terms of the parser's changes.
LEMMA MessageData ==
  ASSUME TypeOK, NEW m \in Reports, HandleMqttMessage(m)
  PROVE  LET ch == UpdateState(data, m)
         IN  /\ data'.activity = Given(ch.activity, data.activity)
             /\ data'.error_code = Given(ch.error_code, data.error_code)
             /\ data'.map_id = Given(ch.map_id, data.map_id)
             /\ data'.rooms = Given(ch.rooms, data.rooms)
             /\ data'.current_scene_id = Given(ch.current_scene_id, data.current_scene_id)
             /\ data'.active_room_ids = Given(ch.active_room_ids, data.active_room_ids)
             /\ data'.active_zone_count = Given(ch.active_zone_count, data.active_zone_count)
BY DEF HandleMqttMessage, Replace

-----------------------------------------------------------------------------
(***************************************************************************)
(* The error notification.                                                 *)
(***************************************************************************)

\* Inductive: with the desktop option off no notification is ever shown.
NotificationInv ==
  NotificationMatchesError /\ (~NotifyDesktop => shown = None)

\* Every step keeps the notification that of the error the robot is in.
LEMMA NotificationStep ==
  ASSUME TypeOK, NotificationInv, [Next]_vars
  PROVE  NotificationInv'
<1> USE NoneIsNoValue
<1>0. data \in VacuumStates
  BY DEF TypeOK
<1>1. ASSUME NEW m \in Reports, HandleMqttMessage(m)
      PROVE  NotificationInv'
  <2> DEFINE ch == UpdateState(data, m)
             new == Replace(data, ch)
  <2>1. /\ NotifyOrClearError(ch, new)
        /\ data'.error_code = Given(ch.error_code, data.error_code)
        /\ new.error_code = Given(ch.error_code, data.error_code)
    BY <1>1, MessageData DEF HandleMqttMessage, Replace
  <2> HIDE DEF ch, new
  <2> QED
    BY <2>1
    DEF NotifyOrClearError, errorVars, Given, NotificationInv, NotificationMatchesError
<1>2. CASE ShutdownTimers
  BY <1>2 DEF ShutdownTimers, NotificationInv, NotificationMatchesError
<1>3. CASE UNCHANGED errorVars /\ data'.error_code = data.error_code
  BY <1>3 DEF errorVars, NotificationInv, NotificationMatchesError
<1>4. CASE \E b \in BizMessages : HandleBizMessage(b)
  BY <1>3, <1>4
  DEF HandleBizMessage, HandleMapDescription, HandlePose, HandleMapFrame
<1>5. CASE Timers \/ RenderDone \/ LoadStorage
  BY <1>0, <1>3, <1>5
  DEF Timers, Tick, CommitDockStatus, CommitSegmentChanges, RenderDone,
      LoadStorage, Restore, VacuumStates
<1>6. CASE Services
  BY <1>0, <1>3, <1>6
  DEF Services, SetActiveCleaningTargets, SetActiveScene, ForgetMap, VacuumStates
<1>7. CASE UNCHANGED vars
  BY <1>3, <1>7 DEF vars
<1> QED BY <1>1, <1>2, <1>4, <1>5, <1>6, <1>7 DEF Next

\* The notification on screen is always that of the error the robot is in.
THEOREM NotificationFollowsError == Spec => []NotificationMatchesError
<1>1. Init => NotificationInv
  BY DEF Init, NotificationInv, NotificationMatchesError
<1>2. TypeOK /\ NotificationInv /\ [Next]_vars => NotificationInv'
  BY NotificationStep
<1>3. NotificationInv => NotificationMatchesError
  BY DEF NotificationInv
<1> QED BY <1>1, <1>2, <1>3, TypeCorrect, PTL DEF Spec

-----------------------------------------------------------------------------
(***************************************************************************)
(* The saved maps.                                                         *)
(***************************************************************************)

\* Inductive: no message counts as handled after a load that has not run.
KnownMapsInv == ActiveMapKnown /\ (seeded => loaded)

\* Every step keeps the active map among the known ones.
LEMMA KnownMapsStep ==
  ASSUME TypeOK, KnownMapsInv, [Next]_vars
  PROVE  KnownMapsInv'
<1> USE NoneIsNoValue, MapIdsArePositive
<1>0. /\ data \in VacuumStates /\ knownMaps \in [MapIds -> Maybe(MapNames)]
      /\ data.map_id \in MapIds \cup {0} /\ data.map_id \in Nat
      /\ loaded \in BOOLEAN /\ seeded \in BOOLEAN
  <2>1. data.map_id \in MapIds \cup {0}
    BY DEF TypeOK, VacuumStates
  <2> QED BY <2>1 DEF TypeOK
<1>1. ASSUME NEW m \in Reports, HandleMqttMessage(m)
      PROVE  KnownMapsInv'
  <2> DEFINE id == Replace(data, UpdateState(data, m)).map_id
  <2>1. id \in MapIds \cup {0}
    BY MessageType DEF VacuumStates
  <2>2. RememberMapId(id) /\ seeded' = loaded /\ loaded' = loaded
    BY <1>1 DEF HandleMqttMessage
  <2>3. data'.map_id = id
    BY <1>1, MessageType DEF HandleMqttMessage, VacuumStates
  <2> HIDE DEF id
  <2>4. ASSUME id > 0
        PROVE  knownMaps'[id] # None
    <3>1. id \in MapIds
      <4>1. id \in Nat
        BY <2>1
      <4>2. id # 0
        BY <2>4, <4>1
      <4> QED BY <2>1, <4>2
    <3>2. CASE knownMaps[id] = None
      <4>1. knownMaps' = [knownMaps EXCEPT ![id] = ""]
        BY <2>2, <2>4, <3>2 DEF RememberMapId
      <4>2. knownMaps'[id] = ""
        BY <1>0, <3>1, <4>1
      <4> QED BY <4>2, NamesAreGiven, Zenon
    <3>3. CASE knownMaps[id] # None
      BY <2>2, <3>3 DEF RememberMapId
    <3> QED BY <3>2, <3>3
  <2>5. ActiveMapKnown'
    BY <2>3, <2>4 DEF ActiveMapKnown
  <2>6. seeded' => loaded'
    BY <2>2, Zenon
  <2> QED BY <2>5, <2>6 DEF KnownMapsInv
<1>2. ASSUME NEW b \in BizMessages, HandleMapDescription(b)
      PROVE  KnownMapsInv'
  <2>1. b.id \in MapIds /\ b.name \in MapNames
    BY <1>2, MapStreamIsTyped DEF HandleMapDescription
  <2>2. /\ knownMaps' = [knownMaps EXCEPT ![b.id] = b.name]
        /\ UNCHANGED <<data, loaded, seeded>>
    BY <1>2 DEF HandleMapDescription, lifeVars
  <2>3. \A id \in MapIds : knownMaps[id] # None => knownMaps'[id] # None
    BY <1>0, <2>1, <2>2, NamesAreGiven
  <2>4. (seeded' => loaded') /\ (seeded' => seeded)
    BY <2>2, Zenon DEF KnownMapsInv
  <2>5. ASSUME seeded, data.map_id > 0
        PROVE  knownMaps'[data.map_id] # None
    <3>1. data.map_id \in MapIds
      <4>1. data.map_id # 0
        BY <1>0, <2>5
      <4> QED BY <1>0, <4>1
    <3>2. knownMaps[data.map_id] # None
      BY <2>5 DEF KnownMapsInv, ActiveMapKnown
    <3> QED BY <2>3, <3>1, <3>2
  <2> QED BY <2>2, <2>4, <2>5 DEF KnownMapsInv, ActiveMapKnown
<1>3. CASE LoadStorage
  BY <1>3 DEF LoadStorage, Restore, KnownMapsInv, ActiveMapKnown
<1>4. ASSUME NEW id \in MapIds, ForgetMap(id)
      PROVE  KnownMapsInv'
  <2>1. /\ knownMaps' = [knownMaps EXCEPT ![id] = None]
        /\ id # data.map_id
        /\ UNCHANGED <<data, loaded, seeded>>
    BY <1>4 DEF ForgetMap, lifeVars
  <2>2. data.map_id # 0 => knownMaps'[data.map_id] = knownMaps[data.map_id]
    BY <1>0, <2>1
  <2>4. (seeded' => loaded') /\ (seeded' => seeded)
    BY <2>1, Zenon DEF KnownMapsInv
  <2>5. ASSUME seeded, data.map_id > 0
        PROVE  knownMaps'[data.map_id] # None
    <3>1. knownMaps[data.map_id] # None
      BY <2>5 DEF KnownMapsInv, ActiveMapKnown
    <3>2. data.map_id # 0
      BY <1>0, <2>5
    <3> QED BY <2>2, <3>1, <3>2
  <2> QED BY <2>1, <2>4, <2>5 DEF KnownMapsInv, ActiveMapKnown
<1>5. CASE /\ UNCHANGED <<knownMaps, loaded, seeded>>
           /\ data'.map_id = data.map_id
  BY <1>5 DEF KnownMapsInv, ActiveMapKnown
<1>6. ASSUME NEW b \in BizMessages, HandlePose(b) \/ HandleMapFrame(b)
      PROVE  KnownMapsInv'
  BY <1>5, <1>6 DEF HandlePose, HandleMapFrame, lifeVars
<1>7. CASE Timers \/ RenderDone \/ ShutdownTimers
  BY <1>0, <1>5, <1>7
  DEF Timers, Tick, CommitDockStatus, CommitSegmentChanges, RenderDone,
      ShutdownTimers, VacuumStates, lifeVars
<1>8. CASE \/ \E rooms \in SUBSET RoomIds : SetActiveCleaningTargets(rooms, 0)
           \/ \E zones \in 1..2 : SetActiveCleaningTargets({}, zones)
           \/ \E scene \in Scenes : SetActiveScene(scene)
  BY <1>0, <1>5, <1>8
  DEF SetActiveCleaningTargets, SetActiveScene, VacuumStates, lifeVars
<1>9. CASE UNCHANGED vars
  BY <1>5, <1>9 DEF vars, lifeVars
<1> QED
  BY <1>1, <1>2, <1>3, <1>4, <1>6, <1>7, <1>8, <1>9
  DEF Next, HandleBizMessage, Services

\* Once a message followed the load, the Switch Map selector offers the map the
\* robot is on, whatever is forgotten and whatever the store held.
THEOREM ActiveMapStaysKnown == Spec => []ActiveMapKnown
<1>1. Init => KnownMapsInv
  BY DEF Init, KnownMapsInv, ActiveMapKnown
<1>2. TypeOK /\ KnownMapsInv /\ [Next]_vars => KnownMapsInv'
  BY KnownMapsStep
<1>3. KnownMapsInv => ActiveMapKnown
  BY DEF KnownMapsInv
<1> QED BY <1>1, <1>2, <1>3, TypeCorrect, PTL DEF Spec

-----------------------------------------------------------------------------
(***************************************************************************)
(* The cleaning targets.                                                   *)
(***************************************************************************)

\* The parser replaces one kind of target by another, never adds one.
LEMMA UpdateKeepsExclusive ==
  ASSUME NEW state \in VacuumStates, NEW m \in DpsMessages, Exclusive(state)
  PROVE  Exclusive(Replace(state, UpdateState(state, m)))
<1>0. None # {} /\ None # 0 /\ \A R \in SUBSET RoomIds : R # None
  <2>1. {} \in SUBSET RoomIds
    OBVIOUS
  <2> QED BY <2>1, NoneIsNoValue
<1> DEFINE ch0 == ProcessStationStatus(m, NoChanges)
           ch1 == ProcessWorkStatus(state, m, ch0)
           ch2 == ProcessPlayPause(m, ch1)
           ch  == UpdateState(state, m)
           new == Replace(state, ch)
<1>1. ch0 \in Changes /\ ch1 \in Changes /\ ch2 \in Changes
  BY StationStepType, WorkStepType, PlayStepType DEF NoChanges, Changes, Maybe
<1>2. /\ ch.active_room_ids   = ch2.active_room_ids
      /\ ch.active_zone_count = ch2.active_zone_count
      /\ ch.current_scene_id  = ch2.current_scene_id
  <2> HIDE DEF ch2
  <2> QED BY <1>1 DEF UpdateState, ProcessOtherDps, ch2, Changes
<1>3. /\ ch0.active_room_ids = None
      /\ ch0.active_zone_count = None
      /\ ch0.current_scene_id = None
  BY DEF ProcessStationStatus, NoChanges
<1>4. \/ /\ ch1.active_room_ids = None
         /\ ch1.active_zone_count = None
         /\ ch1.current_scene_id \in {None, 0}
      \/ /\ ch1.active_room_ids = {}
         /\ ch1.active_zone_count = 0
      \/ /\ state.active_room_ids = {}
         /\ state.active_zone_count = 0
         /\ ch1.active_room_ids = None
         /\ ch1.active_zone_count = None
  <2> HIDE DEF ch0
  <2>1. CASE m.work = None
    BY <1>3, <2>1 DEF ProcessWorkStatus
  <2>2. CASE m.work # None
    <3> DEFINE clear == /\ HasTargets(state)
                        /\ \/ m.work.scene # None
                           \/ TaskOver(state, MapWorkStatus(m.work),
                                MapTaskStatus(m.work, Given(ch0.dock_status, state.dock_status)))
    <3>1. /\ ch1.current_scene_id = WorkScene(m.work)
          /\ ch1.active_room_ids = IF clear THEN {} ELSE None
          /\ ch1.active_zone_count = IF clear THEN 0 ELSE None
      BY <1>1, <1>3, <2>2 DEF ProcessWorkStatus, Changes
    <3> HIDE DEF ch1
    <3>2. CASE clear
      BY <3>1, <3>2
    <3>3. CASE ~clear /\ m.work.scene = None
      BY <3>1, <3>3 DEF WorkScene
    <3>4. CASE ~clear /\ m.work.scene # None
      BY <3>1, <3>4 DEF HasTargets
    <3> QED BY <3>2, <3>3, <3>4
  <2> QED BY <2>1, <2>2
<1> HIDE DEF ch0, ch1
<1>5. CASE m.play = None \/ (m.play.rooms = {} /\ m.play.zones = None)
  <2>1. ch2 = ch1
    BY <1>5 DEF ProcessPlayPause
  <2> HIDE DEF ch, ch2
  <2>2. /\ new.active_room_ids = Given(ch1.active_room_ids, state.active_room_ids)
        /\ new.active_zone_count = Given(ch1.active_zone_count, state.active_zone_count)
        /\ new.current_scene_id = Given(ch1.current_scene_id, state.current_scene_id)
    BY <1>2, <2>1 DEF Replace
  <2> HIDE DEF new
  <2>3. Exclusive(new)
    BY <1>0, <1>4, <2>2 DEF Given, Exclusive
  <2> QED BY <2>3 DEF new, ch
<1>6. CASE ~(m.play = None \/ (m.play.rooms = {} /\ m.play.zones = None))
  <2>1. /\ m.play.rooms \in SUBSET RoomIds
        /\ m.play.rooms = {} \/ m.play.zones = None
    BY <1>6 DEF DpsMessages, PlayReports, Maybe
  <2>2. /\ ch2.active_room_ids = m.play.rooms
        /\ ch2.active_zone_count = Given(m.play.zones, 0)
        /\ ch2.current_scene_id = 0
    BY <1>1, <1>6 DEF ProcessPlayPause, Changes
  <2> HIDE DEF ch, ch2
  <2>3. /\ new.active_room_ids = m.play.rooms
        /\ new.active_zone_count = Given(m.play.zones, 0)
        /\ new.current_scene_id = 0
    BY <1>0, <1>2, <2>1, <2>2 DEF Replace, Given
  <2> HIDE DEF new
  <2>4. Exclusive(new)
    BY <2>1, <2>3 DEF Given, Exclusive
  <2> QED BY <2>4 DEF new, ch
<1> QED BY <1>5, <1>6

\* A fresh state has no target.
LEMMA DefaultIsExclusive == Exclusive(DefaultState)
BY DEF Exclusive, DefaultState

\* Every step leaves at most one kind of target active.
LEMMA TargetsStep ==
  ASSUME TypeOK, ExclusiveTargets, [Next]_vars
  PROVE  ExclusiveTargets'
<1>0. data \in VacuumStates
  BY DEF TypeOK
<1>1. ASSUME NEW m \in Reports, HandleMqttMessage(m)
      PROVE  ExclusiveTargets'
  <2> DEFINE new == Replace(data, UpdateState(data, m))
  <2>1. new \in VacuumStates
    BY MessageType
  <2>2. Exclusive(new)
    BY <1>0, MessagesAreTyped, UpdateKeepsExclusive DEF ExclusiveTargets
  <2>3. data' = [new EXCEPT !.dock_status = data.dock_status]
    BY <1>1 DEF HandleMqttMessage
  <2> HIDE DEF new
  <2> QED BY <2>1, <2>2, <2>3 DEF Exclusive, ExclusiveTargets, VacuumStates
<1>2. ASSUME NEW rooms \in SUBSET RoomIds, NEW zones \in Nat,
             rooms = {} \/ zones = 0,
             SetActiveCleaningTargets(rooms, zones)
      PROVE  ExclusiveTargets'
  BY <1>0, <1>2
  DEF SetActiveCleaningTargets, ExclusiveTargets, Exclusive, VacuumStates
<1>3. ASSUME NEW scene \in Scenes, SetActiveScene(scene)
      PROVE  ExclusiveTargets'
  BY <1>0, <1>3 DEF SetActiveScene, ExclusiveTargets, Exclusive, VacuumStates
<1>4. CASE CommitDockStatus
  BY <1>0, <1>4 DEF CommitDockStatus, ExclusiveTargets, Exclusive, VacuumStates
<1>5. CASE data' = data
  BY <1>5 DEF ExclusiveTargets, Exclusive
<1>6. CASE \E b \in BizMessages : HandleBizMessage(b)
  BY <1>5, <1>6
  DEF HandleBizMessage, HandleMapDescription, HandlePose, HandleMapFrame
<1>7. CASE \/ Tick \/ CommitSegmentChanges \/ RenderDone \/ LoadStorage
           \/ ShutdownTimers \/ UNCHANGED vars
           \/ \E id \in MapIds : ForgetMap(id)
  BY <1>5, <1>7
  DEF Tick, CommitSegmentChanges, RenderDone, LoadStorage, Restore, ShutdownTimers,
      ForgetMap, vars
<1> QED
  BY <1>1, <1>2, <1>3, <1>4, <1>6, <1>7 DEF Next, Timers, Services

\* A room selection, a zone selection and a scene exclude each other, whatever
\* mixture of services, echoes and work reports set them.
THEOREM TargetsAreExclusive == Spec => []ExclusiveTargets
<1>1. Init => ExclusiveTargets
  <2> SUFFICES ASSUME Init PROVE ExclusiveTargets
    OBVIOUS
  <2>1. PICK m \in InitialReports :
          data = Replace(DefaultState, UpdateState(DefaultState, m))
    BY DEF Init
  <2> QED
    BY <2>1, MessagesAreTyped, DefaultStateType, DefaultIsExclusive,
       UpdateKeepsExclusive
    DEF ExclusiveTargets
<1>2. TypeOK /\ ExclusiveTargets /\ [Next]_vars => ExclusiveTargets'
  BY TargetsStep
<1> QED BY <1>1, <1>2, TypeCorrect, PTL DEF Spec

-----------------------------------------------------------------------------
(***************************************************************************)
(* What the coordinator follows over a cleaning session: the dock visit,   *)
(* the trail, the rooms and the picture of the map.                        *)
(***************************************************************************)

(***************************************************************************)
(* The steps that leave the session alone.                                 *)
(***************************************************************************)
LEMMA SessionFrame ==
  ASSUME TypeOK, [Next]_vars
  PROVE  \/ \E m \in Reports : HandleMqttMessage(m)
         \/ \E b \in BizMessages : HandlePose(b)
         \/ LoadStorage
         \/ Tick
         \/ /\ UNCHANGED sessionVars
            /\ data'.activity = data.activity
<1>0. data \in VacuumStates
  BY DEF TypeOK
<1>1. CASE \E b \in BizMessages : HandleBizMessage(b)
  BY <1>1 DEF HandleBizMessage, HandleMapDescription, HandleMapFrame
<1>2. CASE \/ CommitDockStatus \/ CommitSegmentChanges \/ RenderDone
           \/ ShutdownTimers
  BY <1>0, <1>2
  DEF CommitDockStatus, CommitSegmentChanges, RenderDone, ShutdownTimers,
      VacuumStates
<1>3. CASE Services
  BY <1>0, <1>3
  DEF Services, SetActiveCleaningTargets, SetActiveScene, ForgetMap, VacuumStates
<1>4. CASE UNCHANGED vars
  BY <1>4 DEF vars
<1> QED BY <1>1, <1>2, <1>3, <1>4 DEF Next, Timers

\* What a message does to the session.
LEMMA MessageSession ==
  ASSUME TypeOK, NEW m \in Reports, HandleMqttMessage(m)
  PROVE  LET ch == UpdateState(data, m)
         IN  /\ FollowSession(ch, Replace(data, ch))
             /\ data'.activity = Given(ch.activity, data.activity)
BY MessageData DEF HandleMqttMessage

-----------------------------------------------------------------------------
(***************************************************************************)
(* The dock visit.                                                         *)
(***************************************************************************)
LEMMA VisitStep ==
  ASSUME TypeOK, DockVisitIsOver, [Next]_vars
  PROVE  DockVisitIsOver'
<1> USE NoneIsNoValue
<1>1. ASSUME NEW m \in Reports, HandleMqttMessage(m)
      PROVE  DockVisitIsOver'
  <2> DEFINE ch == UpdateState(data, m)
             new == Replace(data, ch)
  <2>1. /\ FollowSession(ch, new)
        /\ data'.activity = Given(ch.activity, data.activity)
    BY <1>1, MessageSession
  <2> HIDE DEF ch, new
  <2>2. CASE ch.activity = "cleaning" /\ data.activity # "cleaning"
    BY <2>1, <2>2 DEF FollowSession, DockVisitIsOver
  <2>3. CASE ch.activity \in {"docked", "idle"}
    <3>1. ch.activity # None
      <4>1. "docked" # None /\ "idle" # None
        BY NoneIsNoActivity DEF Activities
      <4> QED BY <2>3, <4>1
    <3>2. data'.activity # "cleaning"
      BY <2>1, <2>3, <3>1 DEF Given
    <3> QED BY <3>2 DEF DockVisitIsOver
  <2>4. CASE /\ ~(ch.activity = "cleaning" /\ data.activity # "cleaning")
             /\ ch.activity \notin {"docked", "idle"}
    <3>1. UNCHANGED sessionVars
      BY <2>1, <2>4 DEF FollowSession
    <3>2. dockAge' = dockAge
      BY <3>1 DEF sessionVars
    <3>3. data'.activity = "cleaning" => data.activity = "cleaning"
      BY <2>1, <2>4 DEF Given
    <3> QED BY <3>2, <3>3 DEF DockVisitIsOver
  <2> QED BY <2>2, <2>3, <2>4
<1>2. CASE \E b \in BizMessages : HandlePose(b)
  BY <1>2 DEF HandlePose, DockVisitIsOver
<1>3. CASE LoadStorage
  BY <1>3 DEF LoadStorage, Restore, DockVisitIsOver
<1>4. CASE Tick
  BY <1>4 DEF Tick, CountUp, DockVisitIsOver
<1>5. CASE UNCHANGED sessionVars /\ data'.activity = data.activity
  BY <1>5 DEF sessionVars, DockVisitIsOver
<1> QED BY <1>1, <1>2, <1>3, <1>4, <1>5, SessionFrame

\* The age of a dock visit is never that of one that cleaning ended.
THEOREM VisitEndsWithCleaning == Spec => []DockVisitIsOver
<1>1. Init => DockVisitIsOver
  BY DEF Init, DockVisitIsOver
<1>2. TypeOK /\ DockVisitIsOver /\ [Next]_vars => DockVisitIsOver'
  BY VisitStep
<1> QED BY <1>1, <1>2, TypeCorrect, PTL DEF Spec

-----------------------------------------------------------------------------
(***************************************************************************)
(* The trail.                                                              *)
(***************************************************************************)

\* A step the robot can make extends a contiguous path.
LEMMA AppendContiguous ==
  ASSUME NEW path \in Seq(Pixels), NEW px \in Pixels, NEW g \in Grids,
         Contiguous(path),
         path = <<>> \/ <<path[Len(path)], px>> \in TrailStep[g]
  PROVE  Contiguous(Append(path, px))
<1> DEFINE longer == Append(path, px)
<1>1. /\ Len(longer) = Len(path) + 1
      /\ \A i \in 1..Len(path) : longer[i] = path[i]
      /\ longer[Len(path) + 1] = px
      /\ Len(path) \in Nat
  OBVIOUS
<1> HIDE DEF longer
<1> SUFFICES ASSUME NEW i \in 1..(Len(longer) - 1)
             PROVE  \E h \in Grids : <<longer[i], longer[i + 1]>> \in TrailStep[h]
  BY DEF Contiguous, longer
<1>2. CASE i = Len(path)
  <2>1. path # <<>>
    BY <1>1, <1>2
  <2>2. <<longer[i], longer[i + 1]>> = <<path[Len(path)], px>>
    BY <1>1, <1>2
  <2> QED BY <2>1, <2>2
<1>3. CASE i # Len(path)
  <2>1. i \in 1..(Len(path) - 1)
    BY <1>1, <1>3
  <2>2. longer[i] = path[i] /\ longer[i + 1] = path[i + 1]
    BY <1>1, <2>1
  <2>3. \E h \in Grids : <<path[i], path[i + 1]>> \in TrailStep[h]
    BY <2>1 DEF Contiguous
  <2> QED BY <2>2, <2>3
<1> QED BY <1>2, <1>3

\* Every step leaves the trail without a jump.
LEMMA TrailStepKeeps ==
  ASSUME TypeOK, TrailIsContiguous, [Next]_vars
  PROVE  TrailIsContiguous'
<1>0. Contiguous(<<>>)
  BY DEF Contiguous
<1>1. ASSUME NEW m \in Reports, HandleMqttMessage(m)
      PROVE  TrailIsContiguous'
  <2>1. trail' = trail \/ trail' = <<>>
    <3> DEFINE ch == UpdateState(data, m)
               new == Replace(data, ch)
    <3>1. FollowSession(ch, new)
      BY <1>1, MessageSession
    <3> HIDE DEF ch, new
    <3> QED BY <3>1 DEF FollowSession, sessionVars
  <2> QED BY <1>0, <2>1 DEF TrailIsContiguous
<1>2. ASSUME NEW b \in BizMessages, HandlePose(b)
      PROVE  TrailIsContiguous'
  <2> DEFINE px == PixelOf[mapData.grid][b.pose]
  <2>1. /\ b.kind = "pose" /\ mapData # None /\ px # None
        /\ trail' = ExtendedTrail(px)
    BY <1>2 DEF HandlePose
  <2>2. mapData.grid \in Grids
    BY <2>1 DEF TypeOK, MapFrames, Maybe
  <2>3. px \in Pixels
    BY <2>1, <2>2, MapStreamIsTyped DEF Maybe
  <2> HIDE DEF px
  <2>4. CASE trail' = trail
    BY <2>4 DEF TrailIsContiguous
  <2>5. CASE /\ trail' = Append(trail, px)
             /\ trail = <<>> \/ <<trail[Len(trail)], px>> \in TrailStep[mapData.grid]
    BY <2>2, <2>3, <2>5, AppendContiguous DEF TrailIsContiguous, TypeOK
  <2> QED BY <2>1, <2>4, <2>5 DEF ExtendedTrail
<1>3. CASE LoadStorage
  <2>1. trail' = trail \/ \E s \in StoredStates \ {None} : trail' = s.trail
    BY <1>3 DEF LoadStorage, Restore
  <2> QED BY <2>1, StorageIsTyped DEF TrailIsContiguous
<1>4. CASE Tick
  BY <1>4 DEF Tick, TrailIsContiguous
<1>5. CASE UNCHANGED sessionVars
  BY <1>5 DEF sessionVars, TrailIsContiguous
<1> QED BY <1>1, <1>2, <1>3, <1>4, <1>5, SessionFrame

\* The trail never jumps: no pose, pause, dock visit or restart joins two
\* points further apart than a step.
THEOREM TrailStaysContiguous == Spec => []TrailIsContiguous
<1>1. Init => TrailIsContiguous
  BY DEF Init, TrailIsContiguous, Contiguous
<1>2. TypeOK /\ TrailIsContiguous /\ [Next]_vars => TrailIsContiguous'
  BY TrailStepKeeps
<1> QED BY <1>1, <1>2, TypeCorrect, PTL DEF Spec

-----------------------------------------------------------------------------
(***************************************************************************)
(* The announced rooms.                                                    *)
(***************************************************************************)
LEMMA RoomsStep ==
  ASSUME TypeOK, RoomsAnnounced, [Next]_vars
  PROVE  RoomsAnnounced'
<1> USE NoneIsNoValue, TimesArePositive
<1>0. data \in VacuumStates /\ segTimer \in Maybe(0..Debounce)
  BY DEF TypeOK
<1>1. ASSUME NEW m \in Reports, HandleMqttMessage(m)
      PROVE  RoomsAnnounced'
  <2> DEFINE ch == UpdateState(data, m)
  <2>1. /\ DebounceSegments(ch) /\ up' = up
        /\ data'.rooms = Given(ch.rooms, data.rooms)
    BY <1>1, MessageData DEF HandleMqttMessage
  <2> HIDE DEF ch
  <2>2. CASE ch.rooms = None
    BY <2>1, <2>2 DEF DebounceSegments, Given, RoomsAnnounced
  <2>3. CASE ch.rooms # None
    <3>1. segTimer' = Debounce /\ Debounce # None
      BY <2>1, <2>3 DEF DebounceSegments
    <3> QED BY <3>1 DEF RoomsAnnounced
  <2> QED BY <2>2, <2>3
<1>2. CASE CommitSegmentChanges
  BY <1>2 DEF CommitSegmentChanges, RoomsAnnounced
<1>3. CASE ShutdownTimers
  BY <1>3 DEF ShutdownTimers, RoomsAnnounced
<1>4. CASE Tick
  <2>1. segTimer' = None => segTimer = None
    BY <1>0, <1>4 DEF Tick, CountDown, Maybe
  <2>2. UNCHANGED <<data, announced, up>>
    BY <1>4 DEF Tick, lifeVars
  <2> QED BY <2>1, <2>2 DEF RoomsAnnounced
<1>5. CASE UNCHANGED <<segVars, up>> /\ data'.rooms = data.rooms
  BY <1>5 DEF segVars, RoomsAnnounced
<1>6. CASE \E b \in BizMessages : HandleBizMessage(b)
  BY <1>5, <1>6
  DEF HandleBizMessage, HandleMapDescription, HandlePose, HandleMapFrame, lifeVars
<1>7. CASE CommitDockStatus \/ RenderDone \/ LoadStorage
  BY <1>0, <1>5, <1>7
  DEF CommitDockStatus, RenderDone, LoadStorage, Restore, lifeVars, VacuumStates
<1>8. CASE Services
  BY <1>0, <1>5, <1>8
  DEF Services, SetActiveCleaningTargets, SetActiveScene, ForgetMap, lifeVars,
      VacuumStates
<1>9. CASE UNCHANGED vars
  BY <1>5, <1>9 DEF vars, lifeVars
<1> QED
  BY <1>1, <1>2, <1>3, <1>4, <1>6, <1>7, <1>8, <1>9 DEF Next, Timers

\* With no announcement due, the vacuum entity knows the current rooms.
THEOREM RoomsReachTheEntity == Spec => []RoomsAnnounced
<1>1. Init => RoomsAnnounced
  BY DEF Init, RoomsAnnounced
<1>2. TypeOK /\ RoomsAnnounced /\ [Next]_vars => RoomsAnnounced'
  BY RoomsStep
<1> QED BY <1>1, <1>2, TypeCorrect, PTL DEF Spec

-----------------------------------------------------------------------------
(***************************************************************************)
(* The picture of the map.                                                 *)
(***************************************************************************)

\* Inductive: every snapshot still being drawn is current too, and a picture
\* of this run means that a map is there.
PictureInv ==
  /\ (renders # {} \/ (image # None /\ image.live)) => mapData # None
  /\ mapData # None /\ mapData.seq > 0 =>
       /\ \A shot \in renders : Current(shot)
       /\ renders = {} /\ ~undrawn /\ image # None /\ image.live => Current(image)

\* A render request, with a map there, makes the only snapshot current.
LEMMA RerenderIsCurrent ==
  ASSUME mapData' # None, RerenderIf(TRUE)
  PROVE  PictureInv'
<1>1. renders' = {Shot'}
  BY DEF RerenderIf
<1>2. Shot'.map = mapData' /\ Shot'.dock = dockPixel'
  BY DEF Shot
<1>3. Shot'.status = RobotStatus(data')
  BY DEF Shot
<1>4. AtRest(data') /\ dockPixel' # None => Shot'.robot = dockPixel'
  BY DEF Shot, Given
<1>5. Current(Shot)'
  BY <1>2, <1>3, <1>4 DEF Current
<1> QED BY <1>1, <1>5 DEF PictureInv, Current

\* Without a map no request is made, and none is needed.
LEMMA NoMapNoPicture ==
  ASSUME PictureInv, mapData = None, UNCHANGED <<mapData, renders, image, undrawn>>
  PROVE  PictureInv'
BY DEF PictureInv

\* A step that changes nothing a picture shows needs no request.
LEMMA PictureFrame ==
  ASSUME PictureInv, UNCHANGED <<mapData, dockPixel, renders, image, undrawn>>,
         RobotStatus(data') = RobotStatus(data), AtRest(data') = AtRest(data)
  PROVE  PictureInv'
BY DEF PictureInv, Current

\* Every step keeps the picture and the renders in flight up to date.
LEMMA PictureStep ==
  ASSUME TypeOK, PictureInv, [Next]_vars
  PROVE  PictureInv'
<1> USE NoneIsNoValue
<1>0. data \in VacuumStates
  BY DEF TypeOK
<1>1. ASSUME NEW m \in Reports, HandleMqttMessage(m)
      PROVE  PictureInv'
  <2> DEFINE ch == UpdateState(data, m)
             new == Replace(data, ch)
             wanted == RerenderAfterUpdate(ch, new)
  <2>1. /\ FollowSession(ch, new)
        /\ mapData' = mapData /\ UNCHANGED <<image, undrawn>>
        /\ RerenderIf(wanted)
    BY <1>1 DEF HandleMqttMessage, mapVars
  <2>2. /\ new \in VacuumStates
        /\ data' = [new EXCEPT !.dock_status = data.dock_status]
    BY <1>1, MessageType DEF HandleMqttMessage
  <2>3. /\ new.activity = Given(ch.activity, data.activity)
        /\ new.battery_level = Given(ch.battery_level, data.battery_level)
    BY DEF Replace
  <2>4. /\ data'.activity = new.activity
        /\ data'.battery_level = new.battery_level
        /\ data'.dock_status = data.dock_status
    <3> HIDE DEF new
    <3> QED BY <2>2 DEF VacuumStates
  <2>5. wanted \in BOOLEAN
    BY DEF RerenderAfterUpdate
  <2>6. wanted <=> /\ mapData # None
                   /\ \/ ch.activity # None
                      \/ ch.battery_level # None /\ AtRest(new)
    BY DEF RerenderAfterUpdate
  <2> HIDE DEF ch, new, wanted
  <2>7. CASE mapData = None
    <3>1. ~wanted
      BY <2>6, <2>7
    <3>2. renders' = renders
      BY <2>1, <3>1 DEF RerenderIf
    <3> QED BY <2>1, <2>7, <3>2, NoMapNoPicture
  <2>8. CASE wanted
    <3>1. mapData' # None
      BY <2>1, <2>6, <2>8
    <3>2. RerenderIf(TRUE)
      BY <2>1, <2>8 DEF RerenderIf
    <3> QED BY <3>1, <3>2, RerenderIsCurrent
  <2>9. CASE mapData # None /\ ~wanted
    <3>1. ch.activity = None /\ ~(ch.battery_level # None /\ AtRest(new))
      BY <2>6, <2>9
    <3>2. renders' = renders
      BY <2>1, <2>9 DEF RerenderIf
    <3>3. data'.activity = data.activity
      BY <2>3, <2>4, <3>1 DEF Given
    <3>4. AtRest(data') = AtRest(data) /\ AtRest(new) = AtRest(data)
      BY <2>4, <3>3 DEF AtRest
    <3>5. AtRest(data) => data'.battery_level = data.battery_level
      BY <2>3, <2>4, <3>1, <3>4 DEF Given
    <3>6. RobotStatus(data') = RobotStatus(data)
      BY <2>4, <3>4, <3>5 DEF RobotStatus
    <3>7. UNCHANGED sessionVars
      <4>1. ch.activity \notin {"cleaning", "docked", "idle"}
        BY <3>1, NoneIsNoActivity DEF Activities
      <4> QED BY <2>1, <4>1 DEF FollowSession
    <3> QED BY <2>1, <3>2, <3>4, <3>6, <3>7, PictureFrame DEF sessionVars
  <2> QED BY <2>5, <2>7, <2>8, <2>9
<1>2. CASE CommitDockStatus
  <2>1. mapData' = mapData /\ dockPixel' = dockPixel /\ UNCHANGED <<image, undrawn>>
    BY <1>2 DEF CommitDockStatus, mapVars, sessionVars
  <2>2. CASE pending = None
    <3>1. data' = data /\ renders' = renders
      BY <1>2, <2>2 DEF CommitDockStatus
    <3> QED BY <2>1, <3>1, PictureFrame
  <2>3. CASE pending # None /\ mapData # None
    BY <1>2, <2>1, <2>3, RerenderIsCurrent DEF CommitDockStatus, RerenderIf
  <2>4. CASE pending # None /\ mapData = None
    BY <1>2, <2>1, <2>4, NoMapNoPicture DEF CommitDockStatus, RerenderIf
  <2> QED BY <2>2, <2>3, <2>4
<1>3. ASSUME NEW b \in BizMessages, HandlePose(b)
      PROVE  PictureInv'
  <2>1. UNCHANGED <<data, dockPixel, mapData, image, undrawn>> /\ mapData # None
    BY <1>3 DEF HandlePose
  <2>2. renders' = renders \/ RerenderIf(TRUE)
    BY <1>3 DEF HandlePose, RerenderIf
  <2> QED BY <2>1, <2>2, PictureFrame, RerenderIsCurrent
<1>4. ASSUME NEW b \in BizMessages, HandleMapFrame(b)
      PROVE  PictureInv'
  <2>1. mapData' # None
    <3>1. b.kind = "map" /\ b.grid \in Grids /\ b.outline \in Outlines
      BY <1>4, MapStreamIsTyped DEF HandleMapFrame, Outlines
    <3>2. mapData' \in MapFrames
      BY <1>4, <3>1 DEF HandleMapFrame, MapFrames, TypeOK, Maybe
    <3> QED BY <3>2, NoneIsNoFrame
  <2> QED BY <1>4, <2>1, RerenderIsCurrent DEF HandleMapFrame
<1>5. ASSUME NEW b \in BizMessages, HandleMapDescription(b)
      PROVE  PictureInv'
  BY <1>5, PictureFrame DEF HandleMapDescription, sessionVars, mapVars, renderVars
<1>6. CASE RenderDone
  <2>1. PICK shot \in renders :
          /\ renders' = renders \ {shot}
          /\ \/ image' = shot /\ undrawn' = FALSE
             \/ undrawn' = TRUE /\ UNCHANGED image
    BY <1>6 DEF RenderDone
  <2>2. UNCHANGED <<data, dockPixel, mapData>>
    BY <1>6 DEF RenderDone, sessionVars, mapVars
  <2> QED BY <2>1, <2>2 DEF PictureInv, Current
<1>7. CASE LoadStorage
  <2>1. PICK s \in StoredStates :
          IF s = None
          THEN UNCHANGED <<knownMaps, trail, dockPixel, mapData, image>>
          ELSE /\ knownMaps' = s.maps
               /\ trail' = IF s.trail # <<>> THEN s.trail ELSE trail
               /\ dockPixel' = Given(s.dock, dockPixel)
               /\ mapData' = Given(s.map, mapData)
               /\ image' = Given(s.image, image)
    BY <1>7 DEF LoadStorage, Restore
  <2>2. UNCHANGED <<data, renders, undrawn>>
    BY <1>7 DEF LoadStorage, Restore
  <2>3. CASE s = None
    BY <2>1, <2>2, <2>3, PictureFrame
  <2>4. CASE s # None
    <3>1. /\ s.image # None => s.image.live = FALSE
          /\ s.map # None => s.map.seq = 0
          /\ s.dock # None => s.map # None
      BY <2>4, StorageIsTyped
    <3>2. image' # None /\ image'.live => image' = image
      BY <2>1, <2>4, <3>1 DEF Given
    <3>3. CASE s.map # None
      <4>1. mapData' # None /\ mapData'.seq = 0
        BY <2>1, <2>4, <3>1, <3>3 DEF Given
      <4> QED BY <4>1 DEF PictureInv
    <3>4. CASE s.map = None
      <4>1. mapData' = mapData /\ dockPixel' = dockPixel
        BY <2>1, <2>4, <3>1, <3>4 DEF Given
      <4> QED BY <2>2, <3>2, <4>1 DEF PictureInv, Current
    <3> QED BY <3>3, <3>4
  <2> QED BY <2>3, <2>4
<1>8. CASE Services
  <2>1. UNCHANGED <<mapData, dockPixel, renders, image, undrawn>>
    BY <1>8
    DEF Services, SetActiveCleaningTargets, SetActiveScene, ForgetMap,
        mapVars, sessionVars, renderVars
  <2>2. /\ data'.activity = data.activity
        /\ data'.dock_status = data.dock_status
        /\ data'.battery_level = data.battery_level
    BY <1>0, <1>8
    DEF Services, SetActiveCleaningTargets, SetActiveScene, ForgetMap, VacuumStates
  <2>3. RobotStatus(data') = RobotStatus(data) /\ AtRest(data') = AtRest(data)
    BY <2>2 DEF RobotStatus, AtRest
  <2> QED BY <2>1, <2>3, PictureFrame
<1>9. CASE Tick \/ CommitSegmentChanges \/ ShutdownTimers \/ UNCHANGED vars
  <2>1. UNCHANGED <<data, mapData, dockPixel, renders, image, undrawn>>
    BY <1>9
    DEF Tick, CommitSegmentChanges, ShutdownTimers, vars, mapVars, sessionVars,
        renderVars
  <2> QED BY <2>1, PictureFrame
<1> QED
  BY <1>1, <1>2, <1>3, <1>4, <1>5, <1>6, <1>7, <1>8, <1>9
  DEF Next, Timers, HandleBizMessage

\* Every picture of this run shows, once drawn, the newest frame and the state
\* of the moment, unless its drawing raised: no update, dock capture or committed
\* dock status slips by without a new picture.
THEOREM PictureStaysCurrent == Spec => []ImageIsCurrent
<1>1. Init => PictureInv
  BY DEF Init, PictureInv
<1>2. TypeOK /\ PictureInv /\ [Next]_vars => PictureInv'
  BY PictureStep
<1>3. PictureInv => ImageIsCurrent
  BY DEF PictureInv, ImageIsCurrent
<1> QED BY <1>1, <1>2, <1>3, TypeCorrect, PTL DEF Spec
=============================================================================
