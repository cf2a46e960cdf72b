---------------------------- MODULE CleaningJobs ----------------------------
(***************************************************************************)
(* Cleaning rooms, zones and scenes: the services of the vacuum entity and *)
(* the room, scene and map selects (vacuum.py, select.py), the commands    *)
(* they build (api/commands.py), and the robot that takes them.            *)
(*                                                                         *)
(* A service call runs up to the await of a send, and on from there when   *)
(* the transport has returned; everything else happens between.  Home      *)
(* Assistant runs the calls of each platform one at a time.  The vacuum    *)
(* entity sets the cleaning targets before it sends a job, the selects set *)
(* them afterwards.                                                        *)
(*                                                                         *)
(* The robot reports through VacuumParser.  What it does on a command is   *)
(* taken from what the parser and the services expect of it.               *)
(***************************************************************************)
EXTENDS RobotMessages, Sequences

CONSTANTS
  MapIds,      \* saved maps, positive numbers
  Scenes,      \* scene ids, positive numbers
  Params,      \* settings of a room: speed, water, times, mode, ...
  MaxCalls, MaxMoves, MaxFaults    \* bounds of the model

\* Map 1 is the one the commands name when no map is known.
ASSUME IdsAreNumbers == MapIds \subseteq Nat \ {0} /\ Scenes \subseteq Nat \ {0} /\ 1 \in MapIds
ASSUME NoneIsNoParam == None \notin Params

VARIABLES
  data,       \* coordinator.data, the part VacuumParser keeps
  defaults,   \* the room settings data implies, None for the factory's
  calls,      \* the call each platform runs, or None
  downlink, uplink,
  robot,      \* its job, what it does, its map and the rooms' settings
  doubtful,   \* history: what is shown is of no job the robot took
  made, moves, faults   \* counted

counts == <<made, moves, faults>>
vars == <<data, defaults, calls, downlink, uplink, robot, doubtful, counts>>

Platforms == {"vacuum", "select"}

-----------------------------------------------------------------------------
(***************************************************************************)
(* Jobs and commands.                                                      *)
(***************************************************************************)
NoJob == [rooms |-> {}, zones |-> 0, scene |-> 0, custom |-> None, map |-> 0]

RoomsJob(R, map)  == [NoJob EXCEPT !.rooms = R, !.map = map]
ZonesJob(n, map)  == [NoJob EXCEPT !.zones = n, !.map = map]
SceneJob(id)      == [NoJob EXCEPT !.scene = id]

\* custom is history: the settings the caller asked for, that the robot should
\* have by then.
CustomJob(R, map, p) == [RoomsJob(R, map) EXCEPT !.custom = p]

RoomCustom(R, map, p) ==
  [kind |-> "custom", rooms |-> R, map |-> map, param |-> p]
Start(job)   == [kind |-> "clean", job |-> job]
MapLoad(map) == [kind |-> "map", map |-> map]
Control(c)   == [kind |-> c]

\* _merge_room_clean_defaults: explicit settings, or else those of the device.
MergeRoomCleanDefaults(explicit) == Given(explicit, defaults)

\* data.map_id or 1.
CurrentMap == IF data.map_id # 0 THEN data.map_id ELSE 1

\* set_active_cleaning_targets and set_active_scene.
ShowTargets(d, job) ==
  [d EXCEPT !.active_room_ids = job.rooms, !.active_zone_count = job.zones,
            !.current_scene_id = job.scene]

\* The types of jobs, commands, calls and the robot's messages.
Jobs == [rooms : SUBSET RoomIds, zones : Nat, scene : Nat,
         custom : Params \cup {None}, map : Nat]
Commands ==
  [kind : {"clean"}, job : Jobs] \cup [kind : {"map"}, map : MapIds]
    \cup [kind : {"custom"}, rooms : SUBSET RoomIds, map : MapIds, param : Params]
    \cup [kind : {"play", "pause", "stop", "home"}]
Calls == [first : Commands, then : Jobs \cup {None}, target : Jobs \cup {None},
          early : BOOLEAN, sent : BOOLEAN]

WorkReports ==
  [state : {0, 3, 5, 7}, go_wash : {None}, breakpoint : {None}, cleaning : {None, 1},
   go_home : {None}, mode : {None, 0, 1, 2, 8}, station : {None}, scene : Scenes \cup {None}]
PlayReports == [rooms : SUBSET RoomIds, zones : Nat \cup {None}]
MapReports  == [id : MapIds, rooms : SUBSET RoomIds]

ASSUME NoneIsNoRecord ==
  None \notin Jobs \cup Calls \cup WorkReports \cup PlayReports \cup MapReports

-----------------------------------------------------------------------------
(***************************************************************************)
(* Service calls.  first is the command under way or sent, then the job    *)
(* that follows the settings of its rooms, target what the call shows late.*)
(***************************************************************************)
Begin(p, first, then, target, early) ==
  calls' = [calls EXCEPT ![p] =
    [first |-> first, then |-> then, target |-> target, early |-> early,
     sent |-> FALSE]]

MayCall(p) == made < MaxCalls /\ made' = made + 1 /\ calls[p] = None

\* Fault: the clean is sent before the settings of its rooms.
RoomCleanBackwards(R, explicit) ==
  LET param == MergeRoomCleanDefaults(explicit)
      job   == RoomsJob(R, CurrentMap)
  IN  /\ MayCall("vacuum")
      /\ IF param = None
         THEN /\ data' = ShowTargets(data, job)
              /\ Begin("vacuum", Start(job), None, None, TRUE)
         ELSE /\ data' = ShowTargets(data, job)
              /\ Begin("vacuum", Start([job EXCEPT !.custom = param]), None,
                       None, TRUE)
      /\ UNCHANGED <<defaults, downlink, uplink, robot, doubtful, moves, faults>>

\* _async_handle_room_clean: with settings, they are sent first and the targets
\* wait; without, the targets are set at once.
RoomClean(R, explicit) ==
  LET param == MergeRoomCleanDefaults(explicit)
      job   == RoomsJob(R, CurrentMap)
  IN  /\ MayCall("vacuum")
      /\ IF param = None
         THEN /\ data' = ShowTargets(data, job)
              /\ Begin("vacuum", Start(job), None, None, TRUE)
         ELSE /\ Begin("vacuum", RoomCustom(R, CurrentMap, param),
                       [job EXCEPT !.custom = param], None, FALSE)
              /\ UNCHANGED data
      /\ UNCHANGED <<defaults, downlink, uplink, robot, doubtful, moves, faults>>

\* _async_handle_zone_clean of a map that is there.
ZoneClean(n) ==
  LET job == ZonesJob(n, CurrentMap) IN
  /\ MayCall("vacuum")
  /\ data' = ShowTargets(data, job)
  /\ Begin("vacuum", Start(job), None, None, TRUE)
  /\ UNCHANGED <<defaults, downlink, uplink, robot, doubtful, moves, faults>>

\* Fault: the scene is shown before its command is sent.
SceneCleanShownFirst(p, id) ==
  /\ MayCall(p)
  /\ data' = ShowTargets(data, SceneJob(id))
  /\ Begin(p, Start(SceneJob(id)), None, None, FALSE)
  /\ UNCHANGED <<defaults, downlink, uplink, robot, doubtful, moves, faults>>

\* scene_clean of the vacuum entity, and the scene select.
SceneClean(p, id) ==
  /\ MayCall(p)
  /\ Begin(p, Start(SceneJob(id)), None, SceneJob(id), FALSE)
  /\ UNCHANGED <<data, defaults, downlink, uplink, robot, doubtful, moves, faults>>

\* The room select; it knows no settings.
SelectRoom(r) ==
  LET job == RoomsJob({r}, CurrentMap) IN
  /\ MayCall("select")
  /\ Begin("select", Start(job), None, job, FALSE)
  /\ UNCHANGED <<data, defaults, downlink, uplink, robot, doubtful, moves, faults>>

\* The map select, and the map_load service.
SelectMap(p, map) ==
  /\ MayCall(p)
  /\ Begin(p, MapLoad(map), None, None, FALSE)
  /\ UNCHANGED <<data, defaults, downlink, uplink, robot, doubtful, moves, faults>>

\* async_start resumes what is shown as paused and otherwise starts anew;
\* async_pause, async_stop, async_return_to_base.
ControlClean(c) ==
  /\ MayCall("vacuum")
  /\ Begin("vacuum",
           IF c # "start" THEN Control(c)
           ELSE IF data.activity = "paused" THEN Control("play")
           ELSE Start(NoJob),
           None, None, FALSE)
  /\ UNCHANGED <<data, defaults, downlink, uplink, robot, doubtful, moves, faults>>

\* async_send_command of the coordinator.
Send(p) ==
  /\ calls[p] # None /\ ~calls[p].sent
  /\ calls' = [calls EXCEPT ![p].sent = TRUE]
  /\ downlink' = Append(downlink, calls[p].first)
  /\ UNCHANGED <<data, defaults, uplink, robot, doubtful, counts>>

\* The MQTT client is not connected and drops the command: a job without its
\* settings then is a job nobody asked for, see CustomisedAsAsked.
Lose(p) ==
  /\ faults < MaxFaults /\ faults' = faults + 1
  /\ calls[p] # None /\ ~calls[p].sent
  /\ calls' = [calls EXCEPT ![p].sent = TRUE,
                 ![p].then = IF @ = None THEN None ELSE [@ EXCEPT !.custom = None]]
  /\ doubtful' = (doubtful \/ calls[p].early \/ calls[p].target # None)
  /\ UNCHANGED <<data, defaults, downlink, uplink, robot, made, moves>>

\* The Tuya transports raise; the targets the vacuum entity has set remain.
Refuse(p) ==
  /\ faults < MaxFaults /\ faults' = faults + 1
  /\ calls[p] # None /\ ~calls[p].sent
  /\ calls' = [calls EXCEPT ![p] = None]
  /\ doubtful' = (doubtful \/ calls[p].early)
  /\ UNCHANGED <<data, defaults, downlink, uplink, robot, made, moves>>

\* The rest of a call: the job after the settings of its rooms, or the targets.
Resume(p) ==
  /\ calls[p] # None /\ calls[p].sent
  /\ LET c == calls[p] IN
     IF c.then # None
     THEN /\ data' = ShowTargets(data, c.then)
          /\ Begin(p, Start(c.then), None, None, TRUE)
     ELSE /\ data' = IF c.target = None THEN data ELSE ShowTargets(data, c.target)
          /\ calls' = [calls EXCEPT ![p] = None]
  /\ UNCHANGED <<defaults, downlink, uplink, robot, doubtful, counts>>

-----------------------------------------------------------------------------
(***************************************************************************)
(* The robot.                                                              *)
(***************************************************************************)
JobReport(job) ==
  CASE job.rooms # {} -> [Rooms(job.rooms) EXCEPT !.work = InMode(Cleaning, 1)]
    [] job.zones # 0  -> [Zones(job.zones) EXCEPT !.work = InMode(Cleaning, 2)]
    [] job.scene # 0  -> Work(InScene(Cleaning, job.scene))
    [] OTHER          -> Work(InMode(Cleaning, 0))

Tell(m) == uplink' = Append(uplink, m)

TakeJob(job) ==
  /\ robot' = [robot EXCEPT !.job = job, !.does = "cleaning"]
  /\ Tell(JobReport(job))

TakeControl(c) ==
  /\ CASE c = "pause" /\ robot.does = "cleaning" ->
            robot' = [robot EXCEPT !.does = "paused"] /\ Tell(Work(Paused))
       [] c = "play" /\ robot.does = "paused" ->
            robot' = [robot EXCEPT !.does = "cleaning"] /\ Tell(Work(Cleaning))
       [] c = "stop" /\ robot.does # "resting" ->
            robot' = [robot EXCEPT !.job = NoJob, !.does = "resting"]
            /\ Tell(Work(Idle))
       [] c = "home" /\ robot.does # "resting" ->
            robot' = [robot EXCEPT !.does = "returning"] /\ Tell(Work(Returning))
       [] OTHER -> UNCHANGED <<robot, uplink>>

Apply ==
  /\ downlink # <<>>
  /\ downlink' = Tail(downlink)
  /\ LET c == Head(downlink) IN
     CASE c.kind = "custom" ->
            /\ robot' = [robot EXCEPT !.custom[c.map] =
                           [r \in RoomIds |-> IF r \in c.rooms THEN c.param
                                             ELSE @[r]]]
            /\ UNCHANGED uplink
       [] c.kind = "clean" -> TakeJob(c.job)
       [] c.kind = "map" ->
            /\ robot' = [robot EXCEPT !.map = c.map]
            /\ Tell(OnMap(c.map, RoomIds))
       [] OTHER -> TakeControl(c.kind)
  /\ UNCHANGED <<data, defaults, calls, doubtful, counts>>

Move == moves < MaxMoves /\ moves' = moves + 1

\* A job started in the vendor's app.
StartItself(job) ==
  /\ Move
  /\ TakeJob(job)
  /\ UNCHANGED <<data, defaults, calls, downlink, doubtful, made, faults>>

\* The robot is done, drives home and docks.
GoHome ==
  /\ Move
  /\ robot.does = "cleaning"
  /\ robot' = [robot EXCEPT !.does = "returning"]
  /\ Tell(Work(Returning))
  /\ UNCHANGED <<data, defaults, calls, downlink, doubtful, made, faults>>

Dock ==
  /\ robot.does = "returning"
  /\ robot' = [robot EXCEPT !.job = NoJob, !.does = "resting"]
  /\ Tell(Work(Docked))
  /\ UNCHANGED <<data, defaults, calls, downlink, doubtful, counts>>

\* A report of the suction level and the other settings RoomClean falls back on.
ReportDefaults(p) ==
  /\ Move
  /\ defaults' = p
  /\ UNCHANGED <<data, calls, downlink, uplink, robot, doubtful, made, faults>>

Shows(d, job) ==
  d.active_room_ids = job.rooms /\ d.active_zone_count = job.zones

\* A select that has sent its job will show it whatever the robot reports
\* meanwhile.
Outdated(c, d) ==
  c # None /\ c.sent /\ c.target # None
    /\ ~(Shows(d, c.target) /\ d.current_scene_id = c.target.scene)

NamesTargets(m) == m.play # None \/ (m.work # None /\ m.work.scene # None)

\* An automatic clean names no targets: those of a job it displaces remain.
KeepsTargets(m, d) ==
  m.work # None /\ m.work.mode = 0 /\ ~Shows(d, NoJob)

Handle ==
  /\ uplink # <<>>
  /\ uplink' = Tail(uplink)
  /\ LET m == Head(uplink) IN
     /\ data' = Replace(data, UpdateState(data, m))
     /\ doubtful' = \/ \E p \in Platforms : Outdated(calls[p], data')
                    \/ KeepsTargets(m, data')
                    \/ doubtful /\ ~NamesTargets(m)
  /\ UNCHANGED <<defaults, calls, downlink, robot, counts>>

-----------------------------------------------------------------------------
Init ==
  /\ data = [DefaultState EXCEPT !.activity = "docked", !.task_status = "Completed",
                                 !.map_id = 1, !.rooms = RoomIds]
  /\ defaults = None
  /\ calls = [p \in Platforms |-> None]
  /\ downlink = <<>> /\ uplink = <<>>
  /\ robot = [job |-> NoJob, does |-> "resting", map |-> 1,
              custom |-> [m \in MapIds |-> [r \in RoomIds |-> None]]]
  /\ doubtful = FALSE
  /\ made = 0 /\ moves = 0 /\ faults = 0

RoomSets == SUBSET RoomIds \ {{}}

Services ==
  \/ \E R \in RoomSets, p \in Params \cup {None} : RoomClean(R, p)
  \/ ZoneClean(1)
  \/ \E p \in Platforms, id \in Scenes : SceneClean(p, id)
  \/ \E r \in RoomIds : SelectRoom(r)
  \/ \E p \in Platforms, m \in MapIds : SelectMap(p, m)
  \/ \E c \in {"start", "pause", "stop", "home"} : ControlClean(c)

Next ==
  \/ Services
  \/ \E p \in Platforms : Send(p) \/ Lose(p) \/ Refuse(p) \/ Resume(p)
  \/ Apply \/ Handle
  \/ \E r \in RoomIds : StartItself(RoomsJob({r}, robot.map))
  \/ GoHome \/ Dock
  \/ \E p \in Params \cup {None} : ReportDefaults(p)

Spec == Init /\ [][Next]_vars

-----------------------------------------------------------------------------
(***************************************************************************)
(* What should hold.                                                       *)
(***************************************************************************)
Settled == (\A p \in Platforms : calls[p] = None) /\ downlink = <<>> /\ uplink = <<>>

\* Once nothing is under way the entity shows the targets of the job the robot
\* has, and none when it has none, though vacuum calls, selects, the vendor's
\* app and the robot itself all change them: except after a send that failed
\* with the targets set, a select that resumed late, and an automatic clean over
\* an unfinished job, until the next job.
TargetsAreTheJobs ==
  Settled /\ ~doubtful =>
    /\ Shows(data, robot.job)
    /\ robot.does = "cleaning" => data.current_scene_id = robot.job.scene
    /\ data.activity = "docked" => data.current_scene_id = 0

\* A robot never starts a customised clean before the settings its caller asked
\* for, given or implied by the device, are those of every room of the job, on
\* the job's map; except when the transport dropped them.
CustomisedAsAsked ==
  [][downlink # <<>> /\ downlink' = Tail(downlink) /\ Head(downlink).kind = "clean"
     => LET job == Head(downlink).job IN
        job.custom # None =>
          \A r \in job.rooms : robot.custom[job.map][r] = job.custom]_vars
=============================================================================
