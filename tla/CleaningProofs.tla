--------------------------- MODULE CleaningProofs ---------------------------
(***************************************************************************)
(* Proofs about cleaning jobs, for any rooms, maps, scenes and settings,   *)
(* any number of calls, faults and moves of the robot: a customised clean  *)
(* starts with its settings in place, and when nothing is under way the    *)
(* targets shown are those of the robot's job.                             *)
(***************************************************************************)
EXTENDS CleaningJobs, SequenceTheorems, TLAPS

-----------------------------------------------------------------------------
(***************************************************************************)
(* The messages of the robot: of a job it took, of an end that leaves it   *)
(* without one, and of its way between.                                    *)
(***************************************************************************)
\* A job has targets of one kind; settings go with rooms of a saved map.
OneKind(job) ==
  /\ job.rooms # {} => job.zones = 0 /\ job.scene = 0
  /\ job.zones # 0 => job.scene = 0
  /\ job.scene \in Scenes \cup {0}
  /\ job.custom # None => job.map \in MapIds

Messages ==
  [station : {None}, work : WorkReports \cup {None}, play : PlayReports \cup {None},
   error : {None}, battery : {None}, map : MapReports \cup {None}]

IsJob(m) == m.work # None /\ m.work.mode # None
IsEnd(m) == m.work # None /\ m.work.state \in {0, 3}
IsReturning(m) == m.work # None /\ m.work.state = 7

MessageOK(m) ==
  \/ \E job \in Jobs : OneKind(job) /\ m = JobReport(job)
  \/ m \in {Work(Idle), Work(Docked), Work(Paused), Work(Cleaning), Work(Returning)}
  \/ \E i \in MapIds : m = OnMap(i, RoomIds)

\* What is shown is a task under way.
Active(d) ==
  d.activity \in {"cleaning", "paused", "returning"} /\ d.task_status # "Completed"

-----------------------------------------------------------------------------
(***************************************************************************)
(* Types.                                                                  *)
(***************************************************************************)
DataOK(d) ==
  /\ d = [activity |-> d.activity, task_status |-> d.task_status,
          dock_status |-> d.dock_status, error_code |-> d.error_code,
          battery_level |-> d.battery_level, map_id |-> d.map_id, rooms |-> d.rooms,
          current_scene_id |-> d.current_scene_id, active_room_ids |-> d.active_room_ids,
          active_zone_count |-> d.active_zone_count]
  /\ d.active_room_ids \in SUBSET RoomIds /\ d.active_zone_count \in Nat
  /\ d.current_scene_id \in Nat /\ d.map_id \in MapIds

CommandOK(c) == c.kind = "clean" => OneKind(c.job)

\* What each platform's calls are like: only the vacuum entity's have settings,
\* or set their targets early.
CallOK(p, c) ==
  /\ CommandOK(c.first)
  /\ c.first.kind = "custom" \/ (c.first.kind = "clean" /\ c.first.job.custom # None)
       => p = "vacuum"
  /\ c.then # None => /\ OneKind(c.then)
                      /\ p = "vacuum" /\ ~c.early /\ c.target = None
                      /\ c.first.kind = "custom"
  /\ c.early => c.first.kind = "clean" /\ c.target = None
  /\ c.target # None => OneKind(c.target) /\ c.first = Start(c.target)

Robots ==
  [job : Jobs, does : {"cleaning", "paused", "returning", "resting"}, map : MapIds,
   custom : [MapIds -> [RoomIds -> Params \cup {None}]]]

CallsTyped ==
  /\ calls \in [Platforms -> Calls \cup {None}]
  /\ \A p \in Platforms : calls[p] # None => CallOK(p, calls[p])
DownlinkTyped ==
  downlink \in Seq(Commands) /\ \A i \in 1..Len(downlink) : CommandOK(downlink[i])
UplinkTyped == uplink \in Seq(Messages) /\ \A i \in 1..Len(uplink) : MessageOK(uplink[i])
RobotTyped == robot \in Robots /\ OneKind(robot.job)

TypeInv ==
  /\ DataOK(data) /\ defaults \in Params \cup {None} /\ doubtful \in BOOLEAN
  /\ CallsTyped /\ DownlinkTyped /\ UplinkTyped /\ RobotTyped

-----------------------------------------------------------------------------
(***************************************************************************)
(* Settings.                                                               *)
(***************************************************************************)
\* Command c gives the rooms of a job the settings it was asked with.
Sets(c, job) ==
  c.kind = "custom" /\ c.rooms = job.rooms /\ c.map = job.map /\ c.param = job.custom

HasSettings(table, job) == \A r \in job.rooms : table[job.map][r] = job.custom

\* Once the first n commands have arrived, the rooms of the job have theirs.
Ready(commands, table, n, job) ==
  \/ \E i \in 1..n : /\ Sets(commands[i], job)
                     /\ \A k \in 1..n : k > i => commands[k].kind # "custom"
  \/ (\A k \in 1..n : commands[k].kind # "custom") /\ HasSettings(table, job)

\* The job a call will send next, now that its settings are sent.
ToStart(c) == IF c.sent THEN c.then ELSE IF c.first.kind = "clean" THEN c.first.job ELSE None

QueueReady ==
  \A i \in 1..Len(downlink) :
    downlink[i].kind = "clean" /\ downlink[i].job.custom # None
      => Ready(downlink, robot.custom, i - 1, downlink[i].job)

CallReady(c, commands, table) ==
  /\ ToStart(c) # None /\ ToStart(c).custom # None
       => Ready(commands, table, Len(commands), ToStart(c))
  /\ ~c.sent /\ c.then # None /\ c.then.custom # None => Sets(c.first, c.then)

SettingsInv ==
  QueueReady
    /\ \A p \in Platforms : calls[p] # None => CallReady(calls[p], downlink, robot.custom)

-----------------------------------------------------------------------------
(***************************************************************************)
(* Reports.                                                                *)
(***************************************************************************)
JobBetween(u, i, j) == \E k \in 1..Len(u) : i < k /\ k < j /\ IsJob(u[k])
JobBefore(u, j) == \E k \in 1..Len(u) : k < j /\ IsJob(u[k])
JobAfter(u, i)  == \E k \in 1..Len(u) : i < k /\ IsJob(u[k])
HasJob(u)       == \E k \in 1..Len(u) : IsJob(u[k])
HasEnd(u)       == \E k \in 1..Len(u) : IsEnd(u[k])
EndAfter(u, i)  == \E k \in 1..Len(u) : i < k /\ IsEnd(u[k])

\* What ends was under way, at first or since a job reported before, and ends once.
EndsAreOfJobs(u, active) ==
  /\ \A i \in 1..Len(u) : IsEnd(u[i]) => active \/ JobBefore(u, i)
  /\ \A i, j \in 1..Len(u) : i < j /\ IsEnd(u[i]) /\ IsEnd(u[j]) => JobBetween(u, i, j)

\* A job of the robot's is under way, or reported after any end.
JobIsReported(u, active) ==
  /\ active \/ HasJob(u)
  /\ \A i \in 1..Len(u) : IsEnd(u[i]) => JobAfter(u, i)

NotReturning(u) == \A i \in 1..Len(u) : IsReturning(u[i]) => JobAfter(u, i)

\* The last job reported is this one, if it did not end.
LastJobIs(u, job) ==
  \A i \in 1..Len(u) : IsJob(u[i]) /\ ~JobAfter(u, i) => EndAfter(u, i) \/ u[i] = JobReport(job)

ReportsInv ==
  /\ robot.does = "resting" => robot.job = NoJob
  /\ EndsAreOfJobs(uplink, Active(data))
  /\ robot.does # "resting" => JobIsReported(uplink, Active(data))
  /\ robot.does \in {"cleaning", "paused"} => NotReturning(uplink)
  /\ LastJobIs(uplink, robot.job)

-----------------------------------------------------------------------------
(***************************************************************************)
(* Targets.                                                                *)
(***************************************************************************)
\* No job is on its way, to the robot or from it.
Quiet ==
  /\ ~HasJob(uplink)
  /\ \A i \in 1..Len(downlink) : downlink[i].kind # "clean"
  /\ \A p \in Platforms : calls[p] # None /\ calls[p].early => calls[p].sent

ShowsAll(d, job) == Shows(d, job) /\ d.current_scene_id = job.scene

TargetsShown ==
  /\ ~HasEnd(uplink) => Shows(data, robot.job)
  /\ robot.does \in {"cleaning", "paused"} => data.current_scene_id = robot.job.scene
  /\ data.activity = "docked" => data.current_scene_id = 0

\* What a call would show late is shown already.
LateIsShown(c, d) == c # None /\ c.sent /\ c.target # None => ShowsAll(d, c.target)

TargetsInv ==
  Quiet /\ ~doubtful =>
    TargetsShown /\ \A p \in Platforms : LateIsShown(calls[p], data)

-----------------------------------------------------------------------------
(***************************************************************************)
(* What the parser makes of the robot's messages.                          *)
(***************************************************************************)
After(d, m) == Replace(d, UpdateState(d, m))

PlayNames(m) == m.play # None /\ ~(m.play.rooms = {} /\ m.play.zones = None)

Clears(d, m) ==
  /\ HasTargets(d)
  /\ \/ m.work.scene # None
     \/ TaskOver(d, MapWorkStatus(m.work), MapTaskStatus(m.work, d.dock_status))

LEMMA NumbersAreGiven ==
  /\ \A i \in MapIds : i \in Nat /\ i # 0 /\ i # None
  /\ \A id \in Scenes : id \in Nat /\ id # 0 /\ id # None
  /\ \A n \in Nat : n # None
<1>1. \A n \in Nat : n # None
  BY NoneIsNoValue
<1> QED
  BY <1>1, IdsAreNumbers

LEMMA MessageParts ==
  ASSUME NEW m \in Messages
  PROVE  /\ m.station = None /\ m.error = None /\ m.battery = None
         /\ m.work # None => m.work \in WorkReports
         /\ m.play # None => m.play \in PlayReports
         /\ m.map # None => m.map \in MapReports
BY DEF Messages

LEMMA WorkIsTyped ==
  ASSUME NEW w \in WorkReports, NEW dock
  PROVE  /\ MapWorkStatus(w) \in Activities /\ MapWorkStatus(w) # None
         /\ MapTaskStatus(w, dock) \in TaskStatuses /\ MapTaskStatus(w, dock) # None
         /\ WorkScene(w) \in Nat \cup {None}
<1>1. MapWorkStatus(w) \in Activities
  BY DEF MapWorkStatus, Activities
<1>2. MapTaskStatus(w, dock) \in TaskStatuses
  BY DEF MapTaskStatus, ChargingTask, ReturningTask, TaskStatuses
<1>3. WorkScene(w) \in Nat \cup {None}
  BY IdsAreNumbers DEF WorkScene, WorkReports
<1> QED
  BY <1>1, <1>2, <1>3, NoneIsNoActivity, NoneIsNoTask

WorkChanges(d, m) ==
  [activity |-> MapWorkStatus(m.work), task_status |-> MapTaskStatus(m.work, d.dock_status),
   dock_status |-> WorkDockStatus(m.work, None, d.dock_status),
   error_code |-> None, battery_level |-> None, map_id |-> None, rooms |-> None,
   current_scene_id |-> WorkScene(m.work),
   active_room_ids |-> IF Clears(d, m) THEN {} ELSE None,
   active_zone_count |-> IF Clears(d, m) THEN 0 ELSE None]

LEMMA WorkChangesAre ==
  ASSUME NEW d, NEW m \in Messages
  PROVE  ProcessWorkStatus(d, m, ProcessStationStatus(m, NoChanges)) =
           IF m.work = None THEN NoChanges ELSE WorkChanges(d, m)
<1>1. ProcessStationStatus(m, NoChanges) = NoChanges
  BY MessageParts DEF ProcessStationStatus
<1>2. /\ NoChanges.dock_status = None /\ Given(None, d.dock_status) = d.dock_status
      /\ NoChanges.active_room_ids = None /\ NoChanges.active_zone_count = None
  BY DEF NoChanges, Given
<1>3. m.work # None => ProcessWorkStatus(d, m, NoChanges) =
        [NoChanges EXCEPT
           !.activity          = MapWorkStatus(m.work),
           !.task_status       = MapTaskStatus(m.work, d.dock_status),
           !.dock_status       = WorkDockStatus(m.work, None, d.dock_status),
           !.current_scene_id  = WorkScene(m.work),
           !.active_room_ids   = IF Clears(d, m) THEN {} ELSE None,
           !.active_zone_count = IF Clears(d, m) THEN 0 ELSE None]
  BY <1>2 DEF ProcessWorkStatus, Clears
<1>4. m.work = None => ProcessWorkStatus(d, m, NoChanges) = NoChanges
  BY DEF ProcessWorkStatus
<1> QED
  BY <1>1, <1>3, <1>4 DEF NoChanges, WorkChanges

\* The state after a message, field by field.
LEMMA Parsed ==
  ASSUME NEW d, DataOK(d), NEW m \in Messages
  PROVE  /\ After(d, m).activity = IF m.work = None THEN d.activity ELSE MapWorkStatus(m.work)
         /\ After(d, m).task_status =
              IF m.work = None THEN d.task_status ELSE MapTaskStatus(m.work, d.dock_status)
         /\ After(d, m).map_id = IF m.map = None THEN d.map_id ELSE m.map.id
         /\ After(d, m).current_scene_id =
              IF PlayNames(m) THEN 0
              ELSE IF m.work = None THEN d.current_scene_id
              ELSE Given(WorkScene(m.work), d.current_scene_id)
         /\ After(d, m).active_room_ids =
              IF PlayNames(m) THEN m.play.rooms
              ELSE IF m.work # None /\ Clears(d, m) THEN {} ELSE d.active_room_ids
         /\ After(d, m).active_zone_count =
              IF PlayNames(m) THEN Given(m.play.zones, 0)
              ELSE IF m.work # None /\ Clears(d, m) THEN 0 ELSE d.active_zone_count
         /\ DataOK(After(d, m))
<1> USE NoneIsNoValue DEF Given
<1> DEFINE work == IF m.work = None THEN NoChanges ELSE WorkChanges(d, m)
           play == ProcessPlayPause(m, work)
           all  == ProcessOtherDps(m, play)
<1>1. UpdateState(d, m) = all
  BY WorkChangesAre DEF UpdateState
<1>2. DOMAIN work = DOMAIN NoChanges
  BY DEF WorkChanges, NoChanges
<1>3. /\ work.activity = IF m.work = None THEN None ELSE MapWorkStatus(m.work)
      /\ work.task_status = IF m.work = None THEN None ELSE MapTaskStatus(m.work, d.dock_status)
      /\ work.current_scene_id = IF m.work = None THEN None ELSE WorkScene(m.work)
      /\ work.active_room_ids = IF m.work # None /\ Clears(d, m) THEN {} ELSE None
      /\ work.active_zone_count = IF m.work # None /\ Clears(d, m) THEN 0 ELSE None
  BY DEF WorkChanges, NoChanges
<1> HIDE DEF work
<1>4. play = IF ~PlayNames(m) THEN work
             ELSE [work EXCEPT !.active_room_ids = m.play.rooms,
                               !.active_zone_count = Given(m.play.zones, 0),
                               !.current_scene_id = 0]
  BY DEF ProcessPlayPause, PlayNames
<1>5. /\ DOMAIN play = DOMAIN NoChanges
      /\ play.activity = work.activity /\ play.task_status = work.task_status
      /\ play.current_scene_id = IF PlayNames(m) THEN 0 ELSE work.current_scene_id
      /\ play.active_room_ids = IF PlayNames(m) THEN m.play.rooms ELSE work.active_room_ids
      /\ play.active_zone_count =
           IF PlayNames(m) THEN Given(m.play.zones, 0) ELSE work.active_zone_count
  BY <1>2, <1>4 DEF NoChanges
<1> HIDE DEF play
<1>6. /\ all.activity = play.activity /\ all.task_status = play.task_status
      /\ all.current_scene_id = play.current_scene_id
      /\ all.active_room_ids = play.active_room_ids
      /\ all.active_zone_count = play.active_zone_count
      /\ all.map_id = IF m.map = None THEN None ELSE m.map.id
  BY <1>5 DEF ProcessOtherDps, NoChanges
<1> HIDE DEF all
<1>7. /\ m.work # None => /\ MapWorkStatus(m.work) # None
                          /\ MapTaskStatus(m.work, d.dock_status) # None
                          /\ WorkScene(m.work) \in Nat \cup {None}
      /\ m.play # None => m.play.rooms \in SUBSET RoomIds /\ m.play.zones \in Nat \cup {None}
      /\ m.map # None => m.map.id \in MapIds
  BY MessageParts, WorkIsTyped DEF PlayReports, MapReports
<1>8. /\ After(d, m).activity = Given(all.activity, d.activity)
      /\ After(d, m).task_status = Given(all.task_status, d.task_status)
      /\ After(d, m).map_id = Given(all.map_id, d.map_id)
      /\ After(d, m).current_scene_id = Given(all.current_scene_id, d.current_scene_id)
      /\ After(d, m).active_room_ids = Given(all.active_room_ids, d.active_room_ids)
      /\ After(d, m).active_zone_count = Given(all.active_zone_count, d.active_zone_count)
  BY <1>1 DEF After, Replace
<1>9. /\ After(d, m).activity = IF m.work = None THEN d.activity ELSE MapWorkStatus(m.work)
      /\ After(d, m).task_status =
           IF m.work = None THEN d.task_status ELSE MapTaskStatus(m.work, d.dock_status)
  BY <1>3, <1>5, <1>6, <1>7, <1>8
<1>10. /\ m.map # None => m.map.id # None
       /\ PlayNames(m) => m.play # None /\ m.play.rooms # None
       /\ PlayNames(m) /\ m.play.zones # None => m.play.zones \in Nat
  <2>1. m.map # None => m.map.id # None
    BY <1>7, NumbersAreGiven
  <2>2. PlayNames(m) => m.play # None
    BY DEF PlayNames
  <2>3. m.play # None => m.play.rooms # None
    BY <1>7
  <2>4. m.play # None /\ m.play.zones # None => m.play.zones \in Nat
    BY <1>7
  <2> QED
    BY <2>1, <2>2, <2>3, <2>4
<1>11. After(d, m).map_id = IF m.map = None THEN d.map_id ELSE m.map.id
  BY <1>6, <1>8, <1>10
<1>12. After(d, m).current_scene_id =
         IF PlayNames(m) THEN 0
         ELSE IF m.work = None THEN d.current_scene_id
         ELSE Given(WorkScene(m.work), d.current_scene_id)
  BY <1>3, <1>5, <1>6, <1>8
<1>13. After(d, m).active_room_ids =
         IF PlayNames(m) THEN m.play.rooms
         ELSE IF m.work # None /\ Clears(d, m) THEN {} ELSE d.active_room_ids
  BY <1>3, <1>5, <1>6, <1>8, <1>10
<1>14. After(d, m).active_zone_count =
         IF PlayNames(m) THEN Given(m.play.zones, 0)
         ELSE IF m.work # None /\ Clears(d, m) THEN 0 ELSE d.active_zone_count
  BY <1>3, <1>5, <1>6, <1>8, <1>10
<1>15. DataOK(After(d, m))
  <2>1. /\ After(d, m).active_room_ids \in SUBSET RoomIds
        /\ After(d, m).active_zone_count \in Nat
        /\ After(d, m).current_scene_id \in Nat /\ After(d, m).map_id \in MapIds
    BY <1>7, <1>10, <1>11, <1>12, <1>13, <1>14 DEF DataOK
  <2> QED
    BY <2>1 DEF DataOK, After, Replace
<1> QED
  BY <1>9, <1>11, <1>12, <1>13, <1>14, <1>15

\* The reports of the jobs of each kind.
LEMMA JobReportIs ==
  ASSUME NEW job \in Jobs, OneKind(job)
  PROVE  /\ JobReport(job) \in Messages
         /\ JobReport(job).map = None
         /\ JobReport(job).work =
              IF job.rooms # {} THEN InMode(Cleaning, 1)
              ELSE IF job.zones # 0 THEN InMode(Cleaning, 2)
              ELSE IF job.scene # 0 THEN InScene(Cleaning, job.scene)
              ELSE InMode(Cleaning, 0)
         /\ JobReport(job).play =
              IF job.rooms # {} THEN [rooms |-> job.rooms, zones |-> None]
              ELSE IF job.zones # 0 THEN [rooms |-> {}, zones |-> job.zones] ELSE None
<1>1. /\ InMode(Cleaning, 0) \in WorkReports /\ InMode(Cleaning, 1) \in WorkReports
      /\ InMode(Cleaning, 2) \in WorkReports
      /\ \A id \in Scenes : InScene(Cleaning, id) \in WorkReports
  BY DEF InMode, InScene, Cleaning, WorkState, WorkReports
<1>2. job.scene \in Scenes \cup {0} /\ job.rooms \in SUBSET RoomIds /\ job.zones \in Nat
  BY DEF OneKind, Jobs
<1>3. CASE job.rooms # {}
  <2>1. JobReport(job) = [station |-> None, work |-> InMode(Cleaning, 1),
                          play |-> [rooms |-> job.rooms, zones |-> None],
                          error |-> None, battery |-> None, map |-> None]
    BY <1>3 DEF JobReport, Rooms, Blank, OneKind
  <2>2. [rooms |-> job.rooms, zones |-> None] \in PlayReports
    BY <1>2 DEF PlayReports
  <2> QED
    BY <1>1, <1>3, <2>1, <2>2 DEF Messages
<1>4. CASE job.rooms = {} /\ job.zones # 0
  <2>1. JobReport(job) = [station |-> None, work |-> InMode(Cleaning, 2),
                          play |-> [rooms |-> {}, zones |-> job.zones],
                          error |-> None, battery |-> None, map |-> None]
    BY <1>4 DEF JobReport, Zones, Blank, OneKind
  <2>2. [rooms |-> {}, zones |-> job.zones] \in PlayReports
    BY <1>2 DEF PlayReports
  <2> QED
    BY <1>1, <1>4, <2>1, <2>2 DEF Messages
<1>5. CASE job.rooms = {} /\ job.zones = 0 /\ job.scene # 0
  BY <1>1, <1>2, <1>5 DEF JobReport, Work, Blank, Messages
<1>6. CASE job.rooms = {} /\ job.zones = 0 /\ job.scene = 0
  BY <1>1, <1>2, <1>6 DEF JobReport, Work, Blank, Messages
<1> QED
  BY <1>3, <1>4, <1>5, <1>6

\* A cleaning that is none of the robot's station.
LEMMA CleaningIsActive ==
  ASSUME NEW w, w.state = 5, w.go_wash = None, w.station = None, w.cleaning = None, NEW dock
  PROVE  MapWorkStatus(w) = "cleaning" /\ MapTaskStatus(w, dock) = "Cleaning"
BY NoneIsNoValue DEF MapWorkStatus, MapTaskStatus, InStation, PausedByUser, GoWashDecides

\* A job's report: a task is under way, shown with all its targets; one without
\* targets leaves those there are.
LEMMA JobHandled ==
  ASSUME NEW d, DataOK(d), NEW job \in Jobs, OneKind(job), NEW m, m = JobReport(job)
  PROVE  /\ IsJob(m) /\ ~IsEnd(m) /\ ~IsReturning(m)
         /\ Active(After(d, m)) /\ After(d, m).activity = "cleaning"
         /\ After(d, m).map_id = d.map_id
         /\ NamesTargets(m) \/ ~KeepsTargets(m, After(d, m)) => ShowsAll(After(d, m), job)
<1> USE NoneIsNoValue
<1>1. /\ m \in Messages /\ m.map = None
      /\ m.work =
           IF job.rooms # {} THEN InMode(Cleaning, 1)
           ELSE IF job.zones # 0 THEN InMode(Cleaning, 2)
           ELSE IF job.scene # 0 THEN InScene(Cleaning, job.scene) ELSE InMode(Cleaning, 0)
      /\ m.play =
           IF job.rooms # {} THEN [rooms |-> job.rooms, zones |-> None]
           ELSE IF job.zones # 0 THEN [rooms |-> {}, zones |-> job.zones] ELSE None
  BY JobReportIs
<1>2. /\ m.work \in WorkReports /\ m.work # None
      /\ m.work.state = 5 /\ m.work.go_wash = None /\ m.work.station = None
      /\ m.work.cleaning = None /\ m.work.mode \in {0, 1, 2, 8}
  <2>1. job.scene = 0 \/ job.scene \in Scenes
    BY DEF OneKind
  <2>2. /\ m.work.state = 5 /\ m.work.go_wash = None /\ m.work.station = None
        /\ m.work.cleaning = None /\ m.work.mode \in {0, 1, 2, 8}
    BY <1>1 DEF InMode, InScene, Cleaning, WorkState
  <2>3. m.work \in WorkReports
    BY <1>1, <2>1 DEF InMode, InScene, Cleaning, WorkState, WorkReports
  <2> QED
    BY <2>2, <2>3, NoneIsNoRecord
<1>3. IsJob(m) /\ ~IsEnd(m) /\ ~IsReturning(m)
  BY <1>2 DEF IsJob, IsEnd, IsReturning
<1>4. Active(After(d, m)) /\ After(d, m).activity = "cleaning" /\ After(d, m).map_id = d.map_id
  BY <1>1, <1>2, CleaningIsActive, Parsed DEF Active
<1>5. job.rooms \in SUBSET RoomIds /\ job.zones \in Nat /\ job.scene \in Nat
  BY DEF Jobs
<1>6. CASE job.rooms # {}
  <2>1. m.play = [rooms |-> job.rooms, zones |-> None] /\ m.play # None
    BY <1>1, <1>5, <1>6, NoneIsNoRecord DEF PlayReports
  <2>2. PlayNames(m)
    BY <1>6, <2>1 DEF PlayNames
  <2>3. job.zones = 0 /\ job.scene = 0
    BY <1>6 DEF OneKind
  <2>4. ShowsAll(After(d, m), job)
    BY <1>1, <2>1, <2>2, <2>3, Parsed DEF ShowsAll, Shows, Given
  <2> QED
    BY <1>3, <1>4, <2>4
<1>7. CASE job.rooms = {} /\ job.zones # 0
  <2>1. m.play = [rooms |-> {}, zones |-> job.zones] /\ m.play # None
    BY <1>1, <1>5, <1>7, NoneIsNoRecord DEF PlayReports
  <2>2. PlayNames(m) /\ job.zones # None
    BY <1>5, <2>1 DEF PlayNames
  <2>3. job.scene = 0
    BY <1>7 DEF OneKind
  <2>4. ShowsAll(After(d, m), job)
    BY <1>1, <1>7, <2>1, <2>2, <2>3, Parsed DEF ShowsAll, Shows, Given
  <2> QED
    BY <1>3, <1>4, <2>4
<1>8. CASE job.rooms = {} /\ job.zones = 0 /\ job.scene # 0
  <2>1. m.play = None /\ m.work.scene = job.scene /\ job.scene # None
    BY <1>1, <1>5, <1>8, NumbersAreGiven DEF InScene, Cleaning, WorkState
  <2>2. ~PlayNames(m) /\ WorkScene(m.work) = job.scene /\ (Clears(d, m) <=> HasTargets(d))
    BY <2>1 DEF PlayNames, WorkScene, Clears
  <2>3. ShowsAll(After(d, m), job)
    BY <1>1, <1>2, <1>8, <2>1, <2>2, Parsed DEF ShowsAll, Shows, Given, HasTargets
  <2> QED
    BY <1>3, <1>4, <2>3
<1>9. CASE job.rooms = {} /\ job.zones = 0 /\ job.scene = 0
  <2>1. m.play = None /\ m.work.scene = None /\ m.work.mode = 0
    BY <1>1, <1>9 DEF InMode, Cleaning, WorkState
  <2>2. ~PlayNames(m) /\ WorkScene(m.work) = 0 /\ ~NamesTargets(m)
    BY <2>1 DEF PlayNames, WorkScene, NamesTargets
  <2>3. After(d, m).current_scene_id = 0
    BY <1>1, <1>2, <2>2, Parsed DEF Given
  <2>4. KeepsTargets(m, After(d, m)) <=> ~Shows(After(d, m), NoJob)
    BY <1>2, <2>1 DEF KeepsTargets
  <2>5. Shows(After(d, m), NoJob) => ShowsAll(After(d, m), job)
    BY <1>9, <2>3 DEF ShowsAll, Shows, NoJob
  <2> QED
    BY <1>3, <1>4, <2>2, <2>4, <2>5
<1> QED
  BY <1>6, <1>7, <1>8, <1>9

\* The end of a task takes its targets away.
LEMMA EndHandled ==
  ASSUME NEW d, DataOK(d), NEW m \in {Work(Idle), Work(Docked)}
  PROVE  /\ m \in Messages /\ ~IsJob(m) /\ IsEnd(m) /\ ~IsReturning(m)
         /\ ~NamesTargets(m) /\ ~KeepsTargets(m, After(d, m))
         /\ After(d, m).map_id = d.map_id
         /\ After(d, m).activity = "docked" => After(d, m).current_scene_id = 0
         /\ Active(d) => Shows(After(d, m), NoJob)
<1> USE NoneIsNoValue
<1>1. PICK s \in {0, 3} : m = Work(WorkState(s))
  BY DEF Idle, Docked
<1>2. WorkState(s) \in WorkReports /\ WorkState(s) # None
  BY NoneIsNoRecord DEF WorkState, WorkReports
<1>3. m \in Messages /\ m.work = WorkState(s) /\ m.play = None /\ m.map = None
  BY <1>1, <1>2 DEF Work, Blank, Messages
<1>4. /\ m.work # None /\ m.work.state = s /\ m.work.mode = None /\ m.work.scene = None
      /\ m.work.go_wash = None /\ m.work.station = None /\ m.work.cleaning = None
      /\ m.work.breakpoint = None
  BY <1>2, <1>3 DEF WorkState
<1>5. ~IsJob(m) /\ IsEnd(m) /\ ~IsReturning(m)
  BY <1>4 DEF IsJob, IsEnd, IsReturning
<1>6. ~PlayNames(m) /\ ~NamesTargets(m) /\ ~KeepsTargets(m, After(d, m))
  BY <1>3, <1>4 DEF PlayNames, NamesTargets, KeepsTargets
<1>7. /\ s = 0 => MapWorkStatus(m.work) = "idle"
      /\ s = 3 => MapWorkStatus(m.work) = "docked" /\ WorkScene(m.work) = 0
  BY <1>4 DEF MapWorkStatus, WorkScene
<1>8. s = 3 => MapTaskStatus(m.work, d.dock_status) = "Completed"
  BY <1>4 DEF MapTaskStatus, GoWashDecides, ChargingTask, Resumable
<1>9. Active(d) => (Clears(d, m) <=> HasTargets(d))
  BY <1>1, <1>4, <1>7, <1>8 DEF Active, Clears, TaskOver
<1>10. Active(d) => Shows(After(d, m), NoJob)
  BY <1>3, <1>4, <1>6, <1>9, Parsed DEF Shows, NoJob, HasTargets
<1>11. After(d, m).activity = "docked" => After(d, m).current_scene_id = 0
  BY <1>1, <1>3, <1>4, <1>6, <1>7, Parsed DEF Given
<1>12. After(d, m).map_id = d.map_id
  BY <1>3, Parsed
<1> QED
  BY <1>3, <1>5, <1>6, <1>10, <1>11, <1>12

\* Between, the targets stay; a robot that returns has no scene.
LEMMA WayHandled ==
  ASSUME NEW d, DataOK(d), NEW m \in {Work(Paused), Work(Cleaning), Work(Returning)}
  PROVE  /\ m \in Messages /\ ~IsJob(m) /\ ~IsEnd(m)
         /\ IsReturning(m) <=> m = Work(Returning)
         /\ ~NamesTargets(m) /\ ~KeepsTargets(m, After(d, m))
         /\ Active(After(d, m)) /\ After(d, m).activity # "docked"
         /\ After(d, m).map_id = d.map_id
         /\ After(d, m).active_room_ids = d.active_room_ids
         /\ After(d, m).active_zone_count = d.active_zone_count
         /\ ~IsReturning(m) => After(d, m).current_scene_id = d.current_scene_id
<1> USE NoneIsNoValue
<1>1. PICK w \in {Paused, Cleaning, Returning} : m = Work(w)
  OBVIOUS
<1>2. /\ w.mode = None /\ w.scene = None /\ w.go_wash = None /\ w.station = None
      /\ w.breakpoint = None /\ w.go_home = None /\ w.cleaning \in {None, 1}
      /\ w.state \in {5, 7} /\ (w.state = 7 <=> w = Returning)
      /\ w \in WorkReports
  BY DEF Paused, Cleaning, Returning, WorkState, WorkReports
<1>3. m \in Messages /\ m.work = w /\ m.play = None /\ m.map = None /\ w # None
  BY <1>1, <1>2, NoneIsNoRecord DEF Work, Blank, Messages
<1>4. ~IsJob(m) /\ ~IsEnd(m) /\ (IsReturning(m) <=> w.state = 7)
  BY <1>2, <1>3 DEF IsJob, IsEnd, IsReturning
<1>5. w.state = 7 <=> m = Work(Returning)
  <2>1. m = Work(Returning) => w = Returning
    BY <1>1 DEF Work, Blank
  <2> QED
    BY <1>1, <1>2, <2>1
<1>6. ~PlayNames(m) /\ ~NamesTargets(m) /\ ~KeepsTargets(m, After(d, m))
  BY <1>2, <1>3 DEF PlayNames, NamesTargets, KeepsTargets
<1>7. MapWorkStatus(w) \in {"cleaning", "paused", "returning"}
  BY <1>2 DEF MapWorkStatus, InStation, PausedByUser
<1>8. MapTaskStatus(w, d.dock_status) \in {"Cleaning", "Paused", "Returning"}
  BY <1>2 DEF MapTaskStatus, GoWashDecides, ReturningTask, Resumable, PausedByUser
<1>9. ~Clears(d, m)
  BY <1>2, <1>3, <1>7 DEF Clears, TaskOver
<1>10. w.state # 7 => WorkScene(w) = None
  BY <1>2 DEF WorkScene
<1>11. Active(After(d, m)) /\ After(d, m).activity # "docked" /\ After(d, m).map_id = d.map_id
  BY <1>3, <1>7, <1>8, Parsed DEF Active
<1>12. /\ After(d, m).active_room_ids = d.active_room_ids
       /\ After(d, m).active_zone_count = d.active_zone_count
       /\ w.state # 7 => After(d, m).current_scene_id = d.current_scene_id
  BY <1>3, <1>6, <1>9, <1>10, Parsed DEF Given
<1> QED
  BY <1>3, <1>4, <1>5, <1>6, <1>11, <1>12

\* A map leaves the task alone.
LEMMA MapHandled ==
  ASSUME NEW d, DataOK(d), NEW i \in MapIds, NEW m, m = OnMap(i, RoomIds)
  PROVE  /\ m \in Messages /\ ~IsJob(m) /\ ~IsEnd(m) /\ ~IsReturning(m)
         /\ ~NamesTargets(m) /\ ~KeepsTargets(m, After(d, m))
         /\ Active(After(d, m)) <=> Active(d)
         /\ After(d, m).activity = d.activity
         /\ After(d, m).active_room_ids = d.active_room_ids
         /\ After(d, m).active_zone_count = d.active_zone_count
         /\ After(d, m).current_scene_id = d.current_scene_id
<1>1. m \in Messages /\ m.work = None /\ m.play = None
  BY DEF OnMap, Blank, Messages, MapReports
<1>2. ~IsJob(m) /\ ~IsEnd(m) /\ ~IsReturning(m)
  BY <1>1 DEF IsJob, IsEnd, IsReturning
<1>3. ~PlayNames(m) /\ ~NamesTargets(m) /\ ~KeepsTargets(m, After(d, m))
  BY <1>1 DEF PlayNames, NamesTargets, KeepsTargets
<1> QED
  BY <1>1, <1>2, <1>3, Parsed DEF Active

-----------------------------------------------------------------------------
(***************************************************************************)
(* What the steps do.                                                      *)
(***************************************************************************)
LEMMA AppendFacts ==
  ASSUME NEW S, NEW s \in Seq(S), NEW e \in S
  PROVE  /\ Append(s, e) \in Seq(S) /\ Len(Append(s, e)) = Len(s) + 1
         /\ \A i \in 1..Len(s) : Append(s, e)[i] = s[i]
         /\ Append(s, e)[Len(s) + 1] = e
OBVIOUS

LEMMA TailFacts ==
  ASSUME NEW S, NEW s \in Seq(S), s # <<>>
  PROVE  /\ Tail(s) \in Seq(S) /\ Len(Tail(s)) = Len(s) - 1 /\ Len(s) \in Nat /\ Len(s) > 0
         /\ \A i \in 1..Len(s) - 1 : Tail(s)[i] = s[i + 1]
         /\ Head(s) = s[1] /\ s[1] \in S
OBVIOUS

LEMMA JobsAreOfOneKind ==
  /\ NoJob \in Jobs /\ OneKind(NoJob)
  /\ \A R \in SUBSET RoomIds, map \in MapIds :
       RoomsJob(R, map) \in Jobs /\ OneKind(RoomsJob(R, map)) /\ RoomsJob(R, map).custom = None
  /\ \A map \in MapIds :
       ZonesJob(1, map) \in Jobs /\ OneKind(ZonesJob(1, map)) /\ ZonesJob(1, map).custom = None
  /\ \A id \in Scenes :
       SceneJob(id) \in Jobs /\ OneKind(SceneJob(id)) /\ SceneJob(id).custom = None
<1> USE NumbersAreGiven
<1>1. NoJob \in Jobs /\ OneKind(NoJob)
  BY DEF NoJob, Jobs, OneKind
<1>2. ASSUME NEW R \in SUBSET RoomIds, NEW map \in MapIds
      PROVE  RoomsJob(R, map) \in Jobs /\ OneKind(RoomsJob(R, map)) /\ RoomsJob(R, map).custom = None
  BY DEF RoomsJob, NoJob, Jobs, OneKind
<1>3. ASSUME NEW map \in MapIds
      PROVE  ZonesJob(1, map) \in Jobs /\ OneKind(ZonesJob(1, map)) /\ ZonesJob(1, map).custom = None
  BY DEF ZonesJob, NoJob, Jobs, OneKind
<1>4. ASSUME NEW id \in Scenes
      PROVE  SceneJob(id) \in Jobs /\ OneKind(SceneJob(id)) /\ SceneJob(id).custom = None
  BY DEF SceneJob, NoJob, Jobs, OneKind
<1> QED
  BY <1>1, <1>2, <1>3, <1>4

\* A call as it begins.
Begun(p, c) ==
  /\ c \in Calls /\ CallOK(p, c) /\ ~c.sent
  /\ calls[p] = None /\ calls' = [calls EXCEPT ![p] = c]
  /\ c.first.kind = "clean" => c.first.job.custom = None
  /\ c.then # None => Sets(c.first, c.then)
  /\ IF c.early THEN data' = ShowTargets(data, c.first.job) ELSE UNCHANGED data

LEMMA StartIsCommand ==
  ASSUME NEW job \in Jobs
  PROVE  Start(job) \in Commands /\ Start(job).kind = "clean" /\ Start(job).job = job
BY DEF Start, Commands

\* What all services do: begin a call.
LEMMA CallsBegin ==
  ASSUME TypeInv, Services
  PROVE  /\ \E p \in Platforms, c \in Calls : Begun(p, c)
         /\ UNCHANGED <<defaults, downlink, uplink, robot, doubtful>>
<1> DEFINE call(first, then, target, early) ==
             [first |-> first, then |-> then, target |-> target, early |-> early, sent |-> FALSE]
<1> USE DEF MayCall, Begin
<1>1. CurrentMap \in MapIds /\ CurrentMap = data.map_id
  BY NumbersAreGiven DEF CurrentMap, TypeInv, DataOK
<1>2. \A p \in Platforms, job \in Jobs : OneKind(job) /\ job.custom = None =>
        /\ call(Start(job), None, None, TRUE) \in Calls
        /\ CallOK(p, call(Start(job), None, None, TRUE))
        /\ call(Start(job), None, job, FALSE) \in Calls
        /\ CallOK(p, call(Start(job), None, job, FALSE))
        /\ call(Start(job), None, None, FALSE) \in Calls
        /\ CallOK(p, call(Start(job), None, None, FALSE))
  BY StartIsCommand DEF Calls, CallOK, CommandOK
<1>3. \A p \in Platforms, c \in Commands : c.kind \notin {"clean", "custom"} =>
        /\ call(c, None, None, FALSE) \in Calls /\ CallOK(p, call(c, None, None, FALSE))
  BY DEF Calls, CallOK, CommandOK
<1>4. ASSUME NEW R \in RoomSets, NEW explicit \in Params \cup {None}, RoomClean(R, explicit)
      PROVE  \E c \in Calls : Begun("vacuum", c)
  <2> DEFINE param == MergeRoomCleanDefaults(explicit)
             job   == RoomsJob(R, CurrentMap)
  <2>1. job \in Jobs /\ OneKind(job) /\ job.custom = None /\ param \in Params \cup {None}
    BY <1>1, JobsAreOfOneKind DEF RoomSets, MergeRoomCleanDefaults, Given, TypeInv
  <2>2. CASE param = None
    <3>1. Begun("vacuum", call(Start(job), None, None, TRUE))
      <4> HIDE DEF job
      <4> QED
        BY <1>2, <1>4, <2>1, <2>2, StartIsCommand DEF RoomClean, Begun, Platforms, job
    <3> QED
      BY <1>2, <2>1, <3>1 DEF Platforms
  <2>3. CASE param # None
    <3> DEFINE first == RoomCustom(R, CurrentMap, param)
               then  == [job EXCEPT !.custom = param]
               c     == call(first, then, None, FALSE)
    <3>1. first \in Commands /\ first.kind = "custom"
      BY <1>1, <2>1, <2>3 DEF RoomCustom, Commands, RoomSets
    <3>2. then \in Jobs /\ OneKind(then) /\ Sets(first, then)
      BY <1>1, <2>1, <2>3, NumbersAreGiven
      DEF RoomsJob, NoJob, Jobs, OneKind, Sets, RoomCustom, RoomSets
    <3>3. data' = data /\ calls[ "vacuum"] = None /\ calls' = [calls EXCEPT !["vacuum"] = c]
      BY <1>4, <2>3 DEF RoomClean
    <3> HIDE DEF first, then
    <3>4. c \in Calls /\ CallOK("vacuum", c)
      BY <3>1, <3>2 DEF Calls, CallOK, CommandOK
    <3> QED
      BY <3>1, <3>2, <3>3, <3>4 DEF Begun
  <2> QED
    BY <2>2, <2>3
<1>5. ASSUME ZoneClean(1) PROVE \E c \in Calls : Begun("vacuum", c)
  <2>1. ZonesJob(1, CurrentMap) \in Jobs /\ OneKind(ZonesJob(1, CurrentMap))
        /\ ZonesJob(1, CurrentMap).custom = None
    BY <1>1, JobsAreOfOneKind
  <2>2. Begun("vacuum", call(Start(ZonesJob(1, CurrentMap)), None, None, TRUE))
    BY <1>2, <1>5, <2>1, StartIsCommand DEF ZoneClean, Begun, Platforms
  <2> QED
    BY <1>2, <2>1, <2>2 DEF Platforms
<1>6. ASSUME NEW p \in Platforms, NEW id \in Scenes, SceneClean(p, id)
      PROVE  \E c \in Calls : Begun(p, c)
  <2>1. SceneJob(id) \in Jobs /\ OneKind(SceneJob(id)) /\ SceneJob(id).custom = None
    BY JobsAreOfOneKind
  <2>2. Begun(p, call(Start(SceneJob(id)), None, SceneJob(id), FALSE))
    BY <1>2, <1>6, <2>1, StartIsCommand DEF SceneClean, Begun
  <2> QED
    BY <1>2, <2>1, <2>2
<1>7. ASSUME NEW r \in RoomIds, SelectRoom(r) PROVE \E c \in Calls : Begun("select", c)
  <2>1. RoomsJob({r}, CurrentMap) \in Jobs /\ OneKind(RoomsJob({r}, CurrentMap))
        /\ RoomsJob({r}, CurrentMap).custom = None
    BY <1>1, JobsAreOfOneKind
  <2>2. Begun("select", call(Start(RoomsJob({r}, CurrentMap)), None,
                             RoomsJob({r}, CurrentMap), FALSE))
    BY <1>2, <1>7, <2>1, StartIsCommand DEF SelectRoom, Begun, Platforms
  <2> QED
    BY <1>2, <2>1, <2>2 DEF Platforms
<1>8. ASSUME NEW p \in Platforms, NEW map \in MapIds, SelectMap(p, map)
      PROVE  \E c \in Calls : Begun(p, c)
  <2>1. MapLoad(map) \in Commands /\ MapLoad(map).kind = "map"
    BY DEF MapLoad, Commands
  <2>2. Begun(p, call(MapLoad(map), None, None, FALSE))
    BY <1>3, <1>8, <2>1 DEF SelectMap, Begun
  <2> QED
    BY <1>3, <2>1, <2>2
<1>9. ASSUME NEW c \in {"start", "pause", "stop", "home"}, ControlClean(c)
      PROVE  \E d \in Calls : Begun("vacuum", d)
  <2>1. \A k \in {"play", "pause", "stop", "home"} :
          Control(k) \in Commands /\ Control(k).kind = k
    BY DEF Control, Commands
  <2>2. CASE c # "start"
    <3>1. Begun("vacuum", call(Control(c), None, None, FALSE))
      BY <1>3, <1>9, <2>1, <2>2 DEF ControlClean, Begun, Platforms
    <3> QED
      BY <1>3, <2>1, <2>2, <3>1 DEF Platforms
  <2>3. CASE c = "start" /\ data.activity = "paused"
    <3>1. Begun("vacuum", call(Control("play"), None, None, FALSE))
      BY <1>3, <1>9, <2>1, <2>3 DEF ControlClean, Begun, Platforms
    <3> QED
      BY <1>3, <2>1, <3>1 DEF Platforms
  <2>4. CASE c = "start" /\ data.activity # "paused"
    <3>1. NoJob \in Jobs /\ OneKind(NoJob) /\ NoJob.custom = None
      BY JobsAreOfOneKind DEF NoJob
    <3>2. Begun("vacuum", call(Start(NoJob), None, None, FALSE))
      BY <1>2, <1>9, <2>4, <3>1, StartIsCommand DEF ControlClean, Begun, Platforms
    <3> QED
      BY <1>2, <3>1, <3>2 DEF Platforms
  <2> QED
    BY <2>2, <2>3, <2>4
<1>10. \E p \in Platforms, c \in Calls : Begun(p, c)
  BY <1>4, <1>5, <1>6, <1>7, <1>8, <1>9 DEF Services, Platforms
<1>11. UNCHANGED <<defaults, downlink, uplink, robot, doubtful>>
  BY DEF Services, RoomClean, ZoneClean, SceneClean, SelectRoom, SelectMap, ControlClean
<1> QED
  BY <1>10, <1>11

\* What the robot does, and tells.
Told(m) == uplink' = Append(uplink, m)

Takes(job) == job \in Jobs /\ OneKind(job) /\ TakeJob(job)

Pauses ==
  robot.does = "cleaning" /\ robot' = [robot EXCEPT !.does = "paused"] /\ Told(Work(Paused))
Plays ==
  robot.does = "paused" /\ robot' = [robot EXCEPT !.does = "cleaning"] /\ Told(Work(Cleaning))
Returns ==
  /\ robot.does # "resting"
  /\ robot' = [robot EXCEPT !.does = "returning"] /\ Told(Work(Returning))
Ends ==
  /\ robot.does # "resting"
  /\ robot' = [robot EXCEPT !.job = NoJob, !.does = "resting"]
  /\ Told(Work(Idle)) \/ Told(Work(Docked))
MapChanges ==
  \E i \in MapIds : robot' = [robot EXCEPT !.map = i] /\ Told(OnMap(i, RoomIds))

Customises(c) ==
  /\ robot' = [robot EXCEPT !.custom[c.map] =
                 [r \in RoomIds |-> IF r \in c.rooms THEN c.param ELSE @[r]]]
  /\ UNCHANGED uplink

RobotMoves == Pauses \/ Plays \/ Returns \/ Ends \/ MapChanges \/ UNCHANGED <<robot, uplink>>

\* The robot takes a command: a job, the settings of rooms, or another.
LEMMA ApplyDoes ==
  ASSUME TypeInv, Apply
  PROVE  /\ downlink # <<>> /\ downlink' = Tail(downlink)
         /\ Head(downlink) = downlink[1] /\ downlink[1] \in Commands
         /\ UNCHANGED <<data, defaults, calls, doubtful>>
         /\ CASE downlink[1].kind = "custom" -> Customises(downlink[1])
              [] downlink[1].kind = "clean"  -> Takes(downlink[1].job)
              [] OTHER -> RobotMoves
<1>1. /\ downlink # <<>> /\ downlink' = Tail(downlink)
      /\ UNCHANGED <<data, defaults, calls, doubtful>>
  BY DEF Apply
<1>2. Head(downlink) = downlink[1] /\ downlink[1] \in Commands /\ Len(downlink) \in Nat
      /\ Len(downlink) > 0
  BY <1>1, TailFacts DEF TypeInv, DownlinkTyped
<1> DEFINE c == downlink[1]
<1>3. CASE c.kind = "custom"
  BY <1>1, <1>2, <1>3 DEF Apply, Customises
<1>4. CASE c.kind = "clean"
  <2>1. OneKind(c.job) /\ c.job \in Jobs
    BY <1>2, <1>4 DEF TypeInv, DownlinkTyped, CommandOK, Commands
  <2>2. TakeJob(c.job)
    BY <1>1, <1>2, <1>4 DEF Apply
  <2> QED
    BY <1>1, <1>2, <1>4, <2>1, <2>2 DEF Takes
<1>5. CASE c.kind = "map"
  <2>1. c.map \in MapIds
    BY <1>2, <1>5 DEF Commands
  <2>2. robot' = [robot EXCEPT !.map = c.map] /\ Tell(OnMap(c.map, RoomIds))
    BY <1>1, <1>2, <1>5 DEF Apply
  <2>3. MapChanges
    BY <2>1, <2>2 DEF MapChanges, Tell, Told
  <2> QED
    BY <1>1, <1>2, <1>5, <2>3 DEF RobotMoves
<1>6. CASE c.kind \notin {"custom", "clean", "map"}
  <2>1. TakeControl(c.kind)
    BY <1>1, <1>2, <1>6 DEF Apply
  <2>2. RobotMoves
    BY <2>1 DEF TakeControl, RobotMoves, Pauses, Plays, Returns, Ends, Tell, Told
  <2> QED
    BY <1>1, <1>2, <1>6, <2>2
<1> QED
  BY <1>3, <1>4, <1>5, <1>6

LEMMA OwnMoves ==
  ASSUME TypeInv, GoHome \/ Dock
  PROVE  RobotMoves /\ UNCHANGED <<data, defaults, calls, downlink, doubtful>>
BY DEF GoHome, Dock, RobotMoves, Returns, Ends, Tell, Told

LEMMA OwnJob ==
  ASSUME TypeInv, NEW r \in RoomIds, StartItself(RoomsJob({r}, robot.map))
  PROVE  /\ Takes(RoomsJob({r}, robot.map)) /\ RoomsJob({r}, robot.map).custom = None
         /\ UNCHANGED <<data, defaults, calls, downlink, doubtful>>
<1>1. robot.map \in MapIds
  BY DEF TypeInv, RobotTyped, Robots
<1> QED
  BY <1>1, JobsAreOfOneKind DEF StartItself, Takes

-----------------------------------------------------------------------------
(***************************************************************************)
(* Type correctness.                                                       *)
(***************************************************************************)
LEMMA MessagesAreTyped ==
  ASSUME NEW m, MessageOK(m)
  PROVE  m \in Messages
<1> DEFINE d == [activity |-> None, task_status |-> None, dock_status |-> None,
                 error_code |-> None, battery_level |-> None, map_id |-> 1, rooms |-> {},
                 current_scene_id |-> 0, active_room_ids |-> {}, active_zone_count |-> 0]
<1>1. DataOK(d)
  BY IdsAreNumbers DEF DataOK
<1> HIDE DEF d
<1>2. CASE \E job \in Jobs : OneKind(job) /\ m = JobReport(job)
  BY <1>2, JobReportIs
<1>3. CASE m \in {Work(Idle), Work(Docked)}
  BY <1>1, <1>3, EndHandled
<1>4. CASE m \in {Work(Paused), Work(Cleaning), Work(Returning)}
  BY <1>1, <1>4, WayHandled
<1>5. CASE \E i \in MapIds : m = OnMap(i, RoomIds)
  BY <1>1, <1>5, MapHandled
<1> QED
  BY <1>2, <1>3, <1>4, <1>5 DEF MessageOK

LEMMA ToldTyped ==
  ASSUME UplinkTyped, NEW m, MessageOK(m), Told(m)
  PROVE  UplinkTyped'
<1>1. m \in Messages
  BY MessagesAreTyped
<1>2. /\ uplink' \in Seq(Messages) /\ Len(uplink') = Len(uplink) + 1
      /\ \A i \in 1..Len(uplink) : uplink'[i] = uplink[i]
      /\ uplink'[Len(uplink) + 1] = m
  BY <1>1, AppendFacts DEF Told, UplinkTyped
<1>3. \A i \in 1..Len(uplink') : i \in 1..Len(uplink) \/ i = Len(uplink) + 1
  BY <1>2 DEF UplinkTyped
<1>4. \A i \in 1..Len(uplink') : MessageOK(uplink'[i])
  BY <1>2, <1>3 DEF UplinkTyped
<1> QED
  BY <1>2, <1>4 DEF UplinkTyped

LEMMA RobotKeepsTypes ==
  ASSUME RobotTyped, UplinkTyped,
         RobotMoves \/ (\E c \in Commands : c.kind = "custom" /\ Customises(c))
           \/ (\E job \in Jobs : Takes(job))
  PROVE  RobotTyped' /\ UplinkTyped'
<1>1. ASSUME NEW job \in Jobs, Takes(job) PROVE RobotTyped' /\ UplinkTyped'
  <2>1. MessageOK(JobReport(job)) /\ Told(JobReport(job))
    BY <1>1 DEF Takes, TakeJob, Tell, Told, MessageOK
  <2>2. RobotTyped'
    BY <1>1 DEF Takes, TakeJob, RobotTyped, Robots
  <2> QED
    BY <2>1, <2>2, ToldTyped
<1>2. ASSUME NEW c \in Commands, c.kind = "custom", Customises(c)
      PROVE  RobotTyped' /\ UplinkTyped'
  <2>1. c.map \in MapIds /\ c.param \in Params /\ c.rooms \in SUBSET RoomIds
    BY <1>2 DEF Commands
  <2>2. robot.custom \in [MapIds -> [RoomIds -> Params \cup {None}]]
    BY DEF RobotTyped, Robots
  <2> DEFINE row == [r \in RoomIds |-> IF r \in c.rooms THEN c.param ELSE robot.custom[c.map][r]]
  <2>3. row \in [RoomIds -> Params \cup {None}]
    BY <2>1, <2>2
  <2>4. robot' = [robot EXCEPT !.custom = [robot.custom EXCEPT ![c.map] = row]]
    BY <1>2, <2>1, <2>2 DEF Customises, RobotTyped, Robots
  <2> HIDE DEF row
  <2>5. [robot.custom EXCEPT ![c.map] = row] \in [MapIds -> [RoomIds -> Params \cup {None}]]
    BY <2>1, <2>2, <2>3
  <2>6. RobotTyped'
    BY <2>4, <2>5 DEF RobotTyped, Robots
  <2> QED
    BY <1>2, <2>6 DEF Customises, UplinkTyped
<1>3. CASE Pauses \/ Plays \/ Returns
  <2>1. RobotTyped'
    BY <1>3 DEF Pauses, Plays, Returns, RobotTyped, Robots
  <2> QED
    BY <1>3, <2>1, ToldTyped DEF Pauses, Plays, Returns, MessageOK
<1>4. CASE Ends
  <2>1. RobotTyped'
    BY <1>4, JobsAreOfOneKind DEF Ends, RobotTyped, Robots
  <2> QED
    BY <1>4, <2>1, ToldTyped DEF Ends, MessageOK
<1>5. CASE MapChanges
  <2>1. PICK i \in MapIds : robot' = [robot EXCEPT !.map = i] /\ Told(OnMap(i, RoomIds))
    BY <1>5 DEF MapChanges
  <2>2. RobotTyped'
    BY <2>1 DEF RobotTyped, Robots
  <2> QED
    BY <2>1, <2>2, ToldTyped DEF MessageOK
<1>6. CASE UNCHANGED <<robot, uplink>>
  BY <1>6 DEF RobotTyped, UplinkTyped
<1> QED
  BY <1>1, <1>2, <1>3, <1>4, <1>5, <1>6 DEF RobotMoves

LEMMA ShowTyped ==
  ASSUME NEW d, DataOK(d), NEW job \in Jobs
  PROVE  /\ DataOK(ShowTargets(d, job)) /\ ShowsAll(ShowTargets(d, job), job)
         /\ ShowTargets(d, job).activity = d.activity
         /\ ShowTargets(d, job).task_status = d.task_status
         /\ ShowTargets(d, job).map_id = d.map_id
<1> DEFINE data1 == [d EXCEPT !.active_room_ids = job.rooms]
           data2 == [data1 EXCEPT !.active_zone_count = job.zones]
           shown == [data2 EXCEPT !.current_scene_id = job.scene]
<1>1. ShowTargets(d, job) = shown
  BY DEF ShowTargets
<1>2. job.rooms \in SUBSET RoomIds /\ job.zones \in Nat /\ job.scene \in Nat
  BY DEF Jobs
<1>3. DataOK(data1) /\ data1.active_room_ids = job.rooms
      /\ data1.activity = d.activity /\ data1.task_status = d.task_status
      /\ data1.map_id = d.map_id
  BY <1>2 DEF DataOK
<1> HIDE DEF data1
<1>4. DataOK(data2) /\ data2.active_room_ids = job.rooms /\ data2.active_zone_count = job.zones
      /\ data2.activity = d.activity /\ data2.task_status = d.task_status
      /\ data2.map_id = d.map_id
  BY <1>2, <1>3 DEF DataOK
<1> HIDE DEF data2
<1>5. DataOK(shown) /\ ShowsAll(shown, job)
      /\ shown.activity = d.activity /\ shown.task_status = d.task_status
      /\ shown.map_id = d.map_id
  BY <1>2, <1>4 DEF DataOK, ShowsAll, Shows
<1> QED
  BY <1>1, <1>5

\* The call of p becomes c, or is over.
LEMMA CallBecomes ==
  ASSUME CallsTyped, NEW p \in Platforms, NEW c \in Calls \cup {None}, c # None => CallOK(p, c),
         calls' = [calls EXCEPT ![p] = c]
  PROVE  /\ CallsTyped' /\ calls'[p] = c
         /\ \A q \in Platforms : q # p => calls'[q] = calls[q]
<1>1. calls' \in [Platforms -> Calls \cup {None}] /\ calls'[p] = c
      /\ \A q \in Platforms : q # p => calls'[q] = calls[q]
  BY DEF CallsTyped
<1> QED
  BY <1>1 DEF CallsTyped

\* A command sent, or lost with the settings of the job that follows it.
Sent(c) == [c EXCEPT !.sent = TRUE]
Lost(c) == [c EXCEPT !.sent = TRUE,
                     !.then = IF @ = None THEN None ELSE [@ EXCEPT !.custom = None]]
Next1(c) == [first |-> Start(c.then), then |-> None, target |-> None, early |-> TRUE, sent |-> FALSE]

LEMMA CallForms ==
  ASSUME NEW p \in Platforms, NEW c \in Calls, CallOK(p, c)
  PROVE  /\ Sent(c) \in Calls /\ CallOK(p, Sent(c)) /\ Sent(c).sent
         /\ Sent(c).first = c.first /\ Sent(c).then = c.then /\ Sent(c).target = c.target
         /\ Sent(c).early = c.early
         /\ Lost(c) \in Calls /\ CallOK(p, Lost(c)) /\ Lost(c).sent
         /\ Lost(c).target = c.target /\ Lost(c).early = c.early
         /\ Lost(c).then # None => Lost(c).then.custom = None
         /\ c.then # None => Next1(c) \in Calls /\ CallOK(p, Next1(c))
<1>1. /\ Sent(c) \in Calls /\ Sent(c).sent
      /\ Sent(c).first = c.first /\ Sent(c).then = c.then /\ Sent(c).target = c.target
      /\ Sent(c).early = c.early
  BY DEF Sent, Calls
<1>2. CallOK(p, Sent(c))
  BY <1>1 DEF CallOK
<1> DEFINE then == IF c.then = None THEN None ELSE [c.then EXCEPT !.custom = None]
<1>3. /\ then \in Jobs \cup {None}
      /\ c.then = None => then = None
      /\ c.then # None => then.custom = None /\ (OneKind(c.then) => OneKind(then))
  BY DEF Calls, Jobs, OneKind
<1>4. Lost(c) = [c EXCEPT !.sent = TRUE, !.then = then]
  BY DEF Lost, Calls
<1> HIDE DEF then
<1>5. /\ Lost(c) \in Calls /\ Lost(c).sent /\ Lost(c).first = c.first /\ Lost(c).then = then
      /\ Lost(c).target = c.target /\ Lost(c).early = c.early
  BY <1>3, <1>4 DEF Calls
<1>6. CallOK(p, Lost(c))
  BY <1>3, <1>5 DEF CallOK
<1>7. ASSUME c.then # None PROVE Next1(c) \in Calls /\ CallOK(p, Next1(c))
  <2>1. c.then \in Jobs /\ OneKind(c.then) /\ p = "vacuum"
    BY <1>7 DEF Calls, CallOK
  <2> QED
    BY <2>1, StartIsCommand DEF Next1, Calls, CallOK, CommandOK
<1> QED
  BY <1>1, <1>2, <1>3, <1>5, <1>6, <1>7

\* Only p's call changes: it becomes c, or None when it is over.
CallIs(p, c) ==
  /\ calls[p] \in Calls /\ CallOK(p, calls[p])
  /\ c # None => c \in Calls /\ CallOK(p, c)
  /\ CallsTyped' /\ calls'[p] = c /\ \A q \in Platforms : q # p => calls'[q] = calls[q]

LEMMA CallChanges ==
  ASSUME TypeInv, NEW p \in Platforms, calls[p] # None, NEW c,
         c # None => c \in Calls /\ CallOK(p, c), calls' = [calls EXCEPT ![p] = c]
  PROVE  CallIs(p, c)
<1>1. calls[p] \in Calls /\ CallOK(p, calls[p])
  BY DEF TypeInv, CallsTyped
<1> QED
  BY <1>1, CallBecomes DEF TypeInv, CallIs

LEMMA TypedCall ==
  ASSUME TypeInv, NEW p \in Platforms, calls[p] # None
  PROVE  /\ calls[p] \in Calls /\ CallOK(p, calls[p]) /\ calls[p] # None
         /\ Sent(calls[p]) # None /\ Lost(calls[p]) # None
         /\ calls[p].then # None => Next1(calls[p]) # None
<1>1. calls[p] \in Calls /\ CallOK(p, calls[p])
  BY DEF TypeInv, CallsTyped
<1> QED
  BY <1>1, CallForms, NoneIsNoRecord

\* The steps of a call.
LEMMA SendDoes ==
  ASSUME TypeInv, NEW p \in Platforms, Send(p)
  PROVE  /\ CallIs(p, Sent(calls[p])) /\ ~calls[p].sent /\ calls[p] # None
         /\ downlink' = Append(downlink, calls[p].first)
         /\ UNCHANGED <<data, defaults, uplink, robot, doubtful>>
<1>1. /\ calls[p] # None /\ ~calls[p].sent
      /\ calls' = [calls EXCEPT ![p] = Sent(calls[p])]
      /\ downlink' = Append(downlink, calls[p].first)
      /\ UNCHANGED <<data, defaults, uplink, robot, doubtful>>
  BY DEF Send, Sent
<1>2. Sent(calls[p]) \in Calls /\ CallOK(p, Sent(calls[p]))
  BY <1>1, TypedCall, CallForms
<1> QED
  BY <1>1, <1>2, CallChanges

LEMMA LoseDoes ==
  ASSUME TypeInv, NEW p \in Platforms, Lose(p)
  PROVE  /\ CallIs(p, Lost(calls[p])) /\ ~calls[p].sent /\ calls[p] # None
         /\ doubtful' = (doubtful \/ calls[p].early \/ calls[p].target # None)
         /\ UNCHANGED <<data, defaults, downlink, uplink, robot>>
<1>1. /\ calls[p] # None /\ ~calls[p].sent
      /\ doubtful' = (doubtful \/ calls[p].early \/ calls[p].target # None)
      /\ UNCHANGED <<data, defaults, downlink, uplink, robot>>
  BY DEF Lose
<1>2. Lost(calls[p]) \in Calls /\ CallOK(p, Lost(calls[p]))
  BY <1>1, TypedCall, CallForms
<1>3. calls' = [calls EXCEPT ![p] = Lost(calls[p])]
  BY DEF TypeInv, Lose, Lost, CallsTyped
<1> QED
  BY <1>1, <1>2, <1>3, CallChanges

LEMMA RefuseDoes ==
  ASSUME TypeInv, NEW p \in Platforms, Refuse(p)
  PROVE  /\ CallIs(p, None) /\ ~calls[p].sent /\ calls[p] # None
         /\ doubtful' = (doubtful \/ calls[p].early)
         /\ UNCHANGED <<data, defaults, downlink, uplink, robot>>
BY CallChanges DEF Refuse

LEMMA ResumeDoes ==
  ASSUME TypeInv, NEW p \in Platforms, Resume(p)
  PROVE  /\ calls[p].sent /\ calls[p] # None
         /\ \/ /\ calls[p].then # None /\ CallIs(p, Next1(calls[p]))
               /\ data' = ShowTargets(data, calls[p].then)
            \/ /\ calls[p].then = None /\ CallIs(p, None)
               /\ data' = IF calls[p].target = None THEN data
                          ELSE ShowTargets(data, calls[p].target)
         /\ UNCHANGED <<defaults, downlink, uplink, robot, doubtful>>
<1>1. calls[p] # None /\ calls[p].sent /\ UNCHANGED <<defaults, downlink, uplink, robot, doubtful>>
  BY DEF Resume
<1>2. CASE calls[p].then # None
  <2>1. Next1(calls[p]) \in Calls /\ CallOK(p, Next1(calls[p]))
    BY <1>1, <1>2, TypedCall, CallForms
  <2>2. /\ data' = ShowTargets(data, calls[p].then)
        /\ calls' = [calls EXCEPT ![p] = Next1(calls[p])]
    BY <1>2 DEF Resume, Begin, Next1
  <2> QED
    BY <1>1, <1>2, <2>1, <2>2, CallChanges
<1>3. CASE calls[p].then = None
  BY <1>1, <1>3, CallChanges DEF Resume
<1> QED
  BY <1>1, <1>2, <1>3

\* A message leaves the uplink and becomes part of data.
LEMMA HandleDoes ==
  ASSUME TypeInv, Handle
  PROVE  /\ uplink # <<>> /\ uplink' = Tail(uplink) /\ UplinkTyped'
         /\ Len(uplink) \in Nat /\ Len(uplink) > 0 /\ Len(uplink') = Len(uplink) - 1
         /\ \A i \in 1..Len(uplink') : i + 1 \in 1..Len(uplink) /\ uplink'[i] = uplink[i + 1]
         /\ uplink[1] \in Messages /\ MessageOK(uplink[1])
         /\ data' = After(data, uplink[1]) /\ DataOK(data')
         /\ doubtful' = \/ \E p \in Platforms : Outdated(calls[p], data')
                        \/ KeepsTargets(uplink[1], data')
                        \/ doubtful /\ ~NamesTargets(uplink[1])
         /\ UNCHANGED <<defaults, calls, downlink, robot>>
<1>1. /\ uplink # <<>> /\ uplink' = Tail(uplink)
      /\ UNCHANGED <<defaults, calls, downlink, robot>>
  BY DEF Handle
<1>2. uplink \in Seq(Messages) /\ DataOK(data)
  BY DEF TypeInv, UplinkTyped
<1>3. /\ Tail(uplink) \in Seq(Messages) /\ Len(Tail(uplink)) = Len(uplink) - 1
      /\ Len(uplink) \in Nat /\ Len(uplink) > 0
      /\ \A i \in 1..Len(uplink) - 1 : Tail(uplink)[i] = uplink[i + 1]
      /\ Head(uplink) = uplink[1] /\ uplink[1] \in Messages
  BY <1>1, <1>2, TailFacts
<1>4. \A i \in 1..Len(uplink') : i + 1 \in 1..Len(uplink) /\ uplink'[i] = uplink[i + 1]
  BY <1>1, <1>3
<1>5. MessageOK(uplink[1]) /\ UplinkTyped'
  BY <1>1, <1>3, <1>4 DEF TypeInv, UplinkTyped
<1>6. data' = After(data, uplink[1]) /\ DataOK(data')
  BY <1>2, <1>3, Parsed DEF Handle, After
<1>7. doubtful' = \/ \E p \in Platforms : Outdated(calls[p], data')
                  \/ KeepsTargets(uplink[1], data')
                  \/ doubtful /\ ~NamesTargets(uplink[1])
  BY <1>3 DEF Handle
<1> QED
  BY <1>1, <1>3, <1>4, <1>5, <1>6, <1>7

LEMMA TypesHold == Init => TypeInv
<1> SUFFICES ASSUME Init PROVE TypeInv
  OBVIOUS
<1> USE DEF Init
<1>1. DataOK(data)
  BY IdsAreNumbers DEF DataOK, DefaultState
<1>2. RobotTyped
  BY JobsAreOfOneKind, IdsAreNumbers DEF RobotTyped, Robots
<1>3. CallsTyped
  BY DEF CallsTyped
<1>4. DownlinkTyped /\ UplinkTyped
  BY DEF DownlinkTyped, UplinkTyped
<1>5. defaults \in Params \cup {None} /\ doubtful \in BOOLEAN
  OBVIOUS
<1> QED
  BY <1>1, <1>2, <1>3, <1>4, <1>5 DEF TypeInv

LEMMA TypesStep ==
  ASSUME TypeInv, [Next]_vars
  PROVE  TypeInv'
<1> USE DEF TypeInv
<1>1. CASE Services
  <2>1. PICK p \in Platforms, c \in Calls : Begun(p, c)
    BY <1>1, CallsBegin
  <2>2. UNCHANGED <<defaults, downlink, uplink, robot, doubtful>>
    BY <1>1, CallsBegin
  <2>3. CallsTyped'
    BY <2>1, CallBecomes, NoneIsNoRecord DEF Begun
  <2>4. CASE c.early
    <3>1. c.first.kind = "clean" /\ c.first \in Commands /\ data' = ShowTargets(data, c.first.job)
      BY <2>1, <2>4 DEF Begun, CallOK, Calls
    <3>2. c.first.job \in Jobs
      BY <3>1 DEF Commands
    <3>3. DataOK(data')
      BY <3>1, <3>2, ShowTyped
    <3> QED
      BY <2>2, <2>3, <3>3 DEF DownlinkTyped, RobotTyped, UplinkTyped
  <2>5. CASE ~c.early
    BY <2>1, <2>2, <2>3, <2>5 DEF Begun, DownlinkTyped, RobotTyped, UplinkTyped
  <2> QED
    BY <2>4, <2>5
<1>2. ASSUME NEW p \in Platforms, Send(p) PROVE TypeInv'
  <2>1. calls[p] \in Calls /\ CallOK(p, calls[p])
    BY <1>2, SendDoes DEF CallIs
  <2>2. calls[p].first \in Commands /\ CommandOK(calls[p].first)
    BY <2>1 DEF Calls, CallOK
  <2>3. downlink' = Append(downlink, calls[p].first)
    BY <1>2, SendDoes
  <2>4. DownlinkTyped'
    BY <2>2, <2>3, AppendFacts DEF DownlinkTyped
  <2> QED
    BY <1>2, <2>4, SendDoes DEF CallIs, RobotTyped, UplinkTyped
<1>3. ASSUME NEW p \in Platforms, Lose(p) \/ Refuse(p) PROVE TypeInv'
  <2>1. CallsTyped' /\ doubtful' \in BOOLEAN
    BY <1>3, LoseDoes, RefuseDoes DEF CallIs
  <2> QED
    BY <1>3, <2>1, LoseDoes, RefuseDoes DEF DownlinkTyped, RobotTyped, UplinkTyped
<1>4. ASSUME NEW p \in Platforms, Resume(p) PROVE TypeInv'
  <2>1. calls[p] \in Calls /\ CallsTyped'
    BY <1>4, ResumeDoes DEF CallIs
  <2>2. calls[p].then # None => calls[p].then \in Jobs
    BY <2>1 DEF Calls
  <2>3. calls[p].target # None => calls[p].target \in Jobs
    BY <2>1 DEF Calls
  <2>4. DataOK(data')
    BY <1>4, <2>2, <2>3, ResumeDoes, ShowTyped
  <2> QED
    BY <1>4, <2>1, <2>4, ResumeDoes DEF DownlinkTyped, RobotTyped, UplinkTyped
<1>5. CASE Apply
  <2>1. /\ downlink # <<>> /\ downlink' = Tail(downlink) /\ downlink[1] \in Commands
        /\ UNCHANGED <<data, defaults, calls, doubtful>>
    BY <1>5, ApplyDoes
  <2>2. DownlinkTyped'
    <3>1. /\ Tail(downlink) \in Seq(Commands) /\ Len(Tail(downlink)) = Len(downlink) - 1
          /\ Len(downlink) \in Nat
          /\ \A i \in 1..Len(downlink) - 1 : Tail(downlink)[i] = downlink[i + 1]
      BY <2>1, TailFacts DEF DownlinkTyped
    <3> QED
      BY <2>1, <3>1 DEF DownlinkTyped
  <2>3. \/ RobotMoves
        \/ downlink[1].kind = "custom" /\ Customises(downlink[1])
        \/ downlink[1].job \in Jobs /\ Takes(downlink[1].job)
    BY <1>5, ApplyDoes DEF Takes
  <2>4. RobotTyped' /\ UplinkTyped'
    BY <2>1, <2>3, RobotKeepsTypes
  <2> QED
    BY <2>1, <2>2, <2>4 DEF CallsTyped
<1>6. CASE Handle
  BY <1>6, HandleDoes DEF CallsTyped, DownlinkTyped, RobotTyped
<1>7. ASSUME NEW r \in RoomIds, StartItself(RoomsJob({r}, robot.map)) PROVE TypeInv'
  <2>1. RoomsJob({r}, robot.map) \in Jobs /\ Takes(RoomsJob({r}, robot.map))
        /\ UNCHANGED <<data, defaults, calls, downlink, doubtful>>
    BY <1>7, OwnJob DEF Takes
  <2> QED
    BY <2>1, RobotKeepsTypes DEF CallsTyped, DownlinkTyped
<1>8. CASE GoHome \/ Dock
  BY <1>8, OwnMoves, RobotKeepsTypes DEF CallsTyped, DownlinkTyped
<1>9. ASSUME NEW p \in Params \cup {None}, ReportDefaults(p) PROVE TypeInv'
  BY <1>9 DEF ReportDefaults, CallsTyped, DownlinkTyped, RobotTyped, UplinkTyped
<1>10. CASE UNCHANGED vars
  BY <1>10 DEF vars, CallsTyped, DownlinkTyped, RobotTyped, UplinkTyped
<1> QED
  BY <1>1, <1>2, <1>3, <1>4, <1>5, <1>6, <1>7, <1>8, <1>9, <1>10 DEF Next

-----------------------------------------------------------------------------
(***************************************************************************)
(* Settings arrive before the clean that needs them.                       *)
(***************************************************************************)
LEMMA ReadyAppended ==
  ASSUME NEW commands \in Seq(Commands), NEW c \in Commands, NEW table, NEW job
  PROVE  /\ \A n \in 0..Len(commands) :
              Ready(commands, table, n, job) => Ready(Append(commands, c), table, n, job)
         /\ c.kind # "custom" /\ Ready(commands, table, Len(commands), job)
              => Ready(Append(commands, c), table, Len(commands) + 1, job)
         /\ Sets(c, job) => Ready(Append(commands, c), table, Len(commands) + 1, job)
<1> DEFINE more == Append(commands, c)
<1>1. /\ Len(commands) \in Nat /\ \A i \in 1..Len(commands) : more[i] = commands[i]
      /\ more[Len(commands) + 1] = c
  BY AppendFacts
<1> HIDE DEF more
<1>2. ASSUME NEW n \in 0..Len(commands), Ready(commands, table, n, job)
      PROVE  Ready(more, table, n, job)
  <2>1. \A i \in 1..n : more[i] = commands[i]
    BY <1>1
  <2> QED
    BY <1>2, <2>1 DEF Ready
<1>3. ASSUME c.kind # "custom", Ready(commands, table, Len(commands), job)
      PROVE  Ready(more, table, Len(commands) + 1, job)
  <2>1. \A k \in 1..Len(commands) + 1 : k \in 1..Len(commands) \/ k = Len(commands) + 1
    BY <1>1
  <2>2. \A k \in 1..Len(commands) : k \in 1..Len(commands) + 1
    BY <1>1
  <2>3. CASE HasSettings(table, job) /\ \A k \in 1..Len(commands) : commands[k].kind # "custom"
    BY <1>1, <1>3, <2>1, <2>3 DEF Ready
  <2>4. CASE \E i \in 1..Len(commands) :
               /\ Sets(commands[i], job)
               /\ \A k \in 1..Len(commands) : k > i => commands[k].kind # "custom"
    BY <1>1, <1>3, <2>1, <2>2, <2>4 DEF Ready
  <2> QED
    BY <1>3, <2>3, <2>4 DEF Ready
<1>4. ASSUME Sets(c, job) PROVE Ready(more, table, Len(commands) + 1, job)
  <2>1. Len(commands) + 1 \in 1..Len(commands) + 1
        /\ \A k \in 1..Len(commands) + 1 : ~(k > Len(commands) + 1)
    BY <1>1
  <2> QED
    BY <1>1, <1>4, <2>1 DEF Ready
<1> QED
  BY <1>2, <1>3, <1>4 DEF more

LEMMA ReadyShifted ==
  ASSUME NEW commands \in Seq(Commands), commands # <<>>, NEW table, NEW table2, NEW job,
         commands[1].kind # "custom" => table2 = table,
         Sets(commands[1], job) => HasSettings(table2, job),
         NEW n \in 1..Len(commands), Ready(commands, table, n, job)
  PROVE  Ready(Tail(commands), table2, n - 1, job)
<1> DEFINE rest == Tail(commands)
<1>1. Len(commands) \in Nat /\ \A i \in 1..Len(commands) - 1 : rest[i] = commands[i + 1]
  BY TailFacts
<1> HIDE DEF rest
<1>2. n - 1 \in Nat /\ \A k \in 1..n - 1 : k + 1 \in 1..n /\ rest[k] = commands[k + 1]
  BY <1>1
<1>3. CASE HasSettings(table, job) /\ \A k \in 1..n : commands[k].kind # "custom"
  <2>1. 1 \in 1..n
    OBVIOUS
  <2> QED
    BY <1>2, <1>3, <2>1 DEF Ready, rest
<1>4. ASSUME NEW i \in 1..n, Sets(commands[i], job),
             \A k \in 1..n : k > i => commands[k].kind # "custom"
      PROVE  Ready(rest, table2, n - 1, job)
  <2>1. CASE i = 1
    <3>1. HasSettings(table2, job)
      BY <1>4, <2>1
    <3>2. \A k \in 1..n - 1 : k + 1 > 1 /\ k + 1 \in 1..n
      OBVIOUS
    <3> QED
      BY <1>2, <1>4, <2>1, <3>1, <3>2 DEF Ready
  <2>2. CASE i # 1
    <3>1. i - 1 \in 1..n - 1 /\ i - 1 + 1 = i
      BY <2>2
    <3>2. \A k \in 1..n - 1 : k > i - 1 => k + 1 > i
      OBVIOUS
    <3>3. Sets(rest[i - 1], job)
      BY <1>2, <1>4, <3>1
    <3> QED
      BY <1>2, <1>4, <3>1, <3>2, <3>3 DEF Ready
  <2> QED
    BY <2>1, <2>2
<1> QED
  BY <1>3, <1>4 DEF Ready, rest

\* Only the vacuum entity sends settings, and cleans that need them.
LEMMA SettingsAreTheVacuums ==
  ASSUME NEW p \in Platforms, NEW c \in Calls, CallOK(p, c)
  PROVE  /\ c.first.kind = "custom" => p = "vacuum"
         /\ ToStart(c) # None /\ ToStart(c).custom # None => p = "vacuum"
BY DEF CallOK, ToStart

LEMMA SettingsKept ==
  ASSUME SettingsInv, UNCHANGED <<calls, downlink>>, robot'.custom = robot.custom
  PROVE  SettingsInv'
BY DEF SettingsInv, QueueReady

LEMMA TableKept ==
  ASSUME RobotTyped, RobotMoves \/ (\E job : Takes(job))
  PROVE  robot'.custom = robot.custom
BY DEF RobotTyped, Robots, RobotMoves, Pauses, Plays, Returns, Ends, MapChanges, Takes, TakeJob

LEMMA SettingsHold == Init => SettingsInv
BY DEF Init, SettingsInv, QueueReady

LEMMA SettingsStep ==
  ASSUME TypeInv, SettingsInv, [Next]_vars
  PROVE  SettingsInv'
<1> DEFINE table == robot.custom
<1>1. /\ downlink \in Seq(Commands) /\ Len(downlink) \in Nat
      /\ \A i \in 1..Len(downlink) : downlink[i] \in Commands
  BY DEF TypeInv, DownlinkTyped
<1>2. CASE Services
  <2>1. PICK p \in Platforms, c \in Calls : Begun(p, c)
    BY <1>2, CallsBegin
  <2>2. UNCHANGED <<downlink, robot>>
    BY <1>2, CallsBegin
  <2>3. calls'[p] = c /\ \A q \in Platforms : q # p => calls'[q] = calls[q]
    BY <2>1, CallBecomes, NoneIsNoRecord DEF TypeInv, Begun
  <2>4. CallReady(c, downlink, table)
    BY <2>1 DEF Begun, CallReady, ToStart
  <2> QED
    BY <2>2, <2>3, <2>4 DEF SettingsInv, QueueReady
<1>3. ASSUME NEW p \in Platforms, Send(p) PROVE SettingsInv'
  <2> DEFINE c == calls[p]
             more == Append(downlink, c.first)
  <2>1. /\ c \in Calls /\ CallOK(p, c) /\ c # None /\ ~c.sent /\ Sent(c) # None
        /\ downlink' = more /\ robot' = robot
        /\ calls'[p] = Sent(c) /\ \A q \in Platforms : q # p => calls'[q] = calls[q]
    BY <1>3, SendDoes, TypedCall DEF CallIs
  <2>2. c.first \in Commands
    BY <2>1 DEF Calls
  <2>3. /\ Sent(c).sent /\ Sent(c).then = c.then /\ CallReady(c, downlink, table)
    BY <2>1, CallForms DEF SettingsInv
  <2>4. /\ Len(more) = Len(downlink) + 1 /\ more[Len(downlink) + 1] = c.first
        /\ \A i \in 1..Len(downlink) : more[i] = downlink[i]
    BY <1>1, <2>2, AppendFacts
  <2>5. QueueReady'
    <3>1. ASSUME NEW i \in 1..Len(downlink), more[i].kind = "clean", more[i].job.custom # None
          PROVE  Ready(more, table, i - 1, more[i].job)
      <4>1. Ready(downlink, table, i - 1, more[i].job)
        BY <2>4, <3>1 DEF SettingsInv, QueueReady
      <4>2. i - 1 \in 0..Len(downlink)
        BY <1>1
      <4> HIDE DEF more
      <4> QED
        BY <1>1, <2>2, <4>1, <4>2, ReadyAppended DEF more
    <3>2. ASSUME c.first.kind = "clean", c.first.job.custom # None
          PROVE  Ready(more, table, Len(downlink), c.first.job)
      <4>1. c.first.job \in Jobs
        BY <2>2, <3>2 DEF Commands
      <4>2. ToStart(c) = c.first.job /\ ToStart(c) # None
        BY <2>1, <3>2, <4>1, NoneIsNoRecord DEF ToStart
      <4>3. Ready(downlink, table, Len(downlink), c.first.job)
        BY <2>3, <3>2, <4>2 DEF CallReady
      <4> QED
        BY <1>1, <2>2, <4>3, ReadyAppended
    <3>3. \A i \in 1..Len(downlink) + 1 : i \in 1..Len(downlink) \/ i = Len(downlink) + 1
      BY <1>1
    <3>4. Len(downlink) + 1 - 1 = Len(downlink)
      BY <1>1
    <3> HIDE DEF more, c
    <3>5. ASSUME NEW i \in 1..Len(more), more[i].kind = "clean", more[i].job.custom # None
          PROVE  Ready(more, table, i - 1, more[i].job)
      BY <2>4, <3>1, <3>2, <3>3, <3>4, <3>5
    <3> QED
      BY <2>1, <3>5 DEF QueueReady
  <2>6. CallReady(Sent(c), more, table)
    <3>1. ASSUME c.then # None, c.then.custom # None
          PROVE  Ready(more, table, Len(downlink) + 1, c.then)
      <4>1. Sets(c.first, c.then)
        BY <2>1, <2>3, <3>1 DEF CallReady
      <4> QED
        BY <1>1, <2>2, <4>1, ReadyAppended
    <3> HIDE DEF c, more
    <3> QED
      BY <2>3, <2>4, <3>1 DEF CallReady, ToStart
  <2>7. ASSUME NEW q \in Platforms, q # p, calls[q] # None PROVE CallReady(calls[q], more, table)
    <3> DEFINE b == calls[q]
    <3>1. CallReady(b, downlink, table) /\ b \in Calls /\ CallOK(q, b)
      BY <2>7, TypedCall DEF SettingsInv
    <3>2. ASSUME ToStart(b) # None, ToStart(b).custom # None
          PROVE  Ready(more, table, Len(downlink) + 1, ToStart(b))
      <4>1. c.first.kind # "custom"
        BY <2>1, <2>7, <3>1, <3>2, SettingsAreTheVacuums
      <4>2. Ready(downlink, table, Len(downlink), ToStart(b))
        BY <3>1, <3>2 DEF CallReady
      <4> QED
        BY <1>1, <2>2, <4>1, <4>2, ReadyAppended
    <3> HIDE DEF more, b
    <3> QED
      BY <2>4, <3>1, <3>2 DEF CallReady, b
  <2> HIDE DEF c, more
  <2> QED
    BY <2>1, <2>5, <2>6, <2>7 DEF SettingsInv
<1>4. ASSUME NEW p \in Platforms, Lose(p) \/ Refuse(p) PROVE SettingsInv'
  <2>1. /\ downlink' = downlink /\ robot' = robot /\ calls[p] # None
        /\ calls'[p] = Lost(calls[p]) \/ calls'[p] = None
        /\ \A q \in Platforms : q # p => calls'[q] = calls[q]
    BY <1>4, LoseDoes, RefuseDoes DEF CallIs
  <2>2. Lost(calls[p]).sent /\ (Lost(calls[p]).then # None => Lost(calls[p]).then.custom = None)
    BY <2>1, TypedCall, CallForms
  <2>3. CallReady(Lost(calls[p]), downlink, table)
    BY <2>2 DEF CallReady, ToStart
  <2> QED
    BY <2>1, <2>3 DEF SettingsInv, QueueReady
<1>5. ASSUME NEW p \in Platforms, Resume(p) PROVE SettingsInv'
  <2> DEFINE c == calls[p]
  <2>1. /\ c # None /\ c.sent /\ CallReady(c, downlink, table) /\ c \in Calls
        /\ downlink' = downlink /\ robot' = robot
        /\ (c.then # None /\ calls'[p] = Next1(c)) \/ calls'[p] = None
        /\ \A q \in Platforms : q # p => calls'[q] = calls[q]
    BY <1>5, ResumeDoes DEF CallIs, SettingsInv
  <2>2. ASSUME c.then # None PROVE CallReady(Next1(c), downlink, table)
    <3>1. c.then \in Jobs
      BY <2>1, <2>2 DEF Calls
    <3>2. ToStart(c) = c.then /\ ToStart(Next1(c)) = c.then /\ Next1(c).then = None
      BY <2>1, <3>1, StartIsCommand DEF ToStart, Next1
    <3> QED
      BY <2>1, <3>2 DEF CallReady
  <2> HIDE DEF c
  <2> QED
    BY <2>1, <2>2 DEF SettingsInv, QueueReady
<1>6. CASE Apply
  <2> DEFINE rest == Tail(downlink)
  <2>1. /\ downlink # <<>> /\ downlink' = rest /\ downlink[1] \in Commands /\ calls' = calls
    BY <1>6, ApplyDoes
  <2>2. /\ Len(rest) = Len(downlink) - 1 /\ Len(downlink) > 0
        /\ \A i \in 1..Len(downlink) - 1 : rest[i] = downlink[i + 1]
    BY <1>1, <2>1, TailFacts
  <2>3. downlink[1].kind # "custom" => robot'.custom = table
    <3>1. downlink[1].kind # "custom" => RobotMoves \/ Takes(downlink[1].job)
      BY <1>6, ApplyDoes
    <3> QED
      BY <3>1, TableKept DEF TypeInv
  <2>4. ASSUME NEW job, Sets(downlink[1], job) PROVE HasSettings(robot'.custom, job)
    <3> DEFINE c == downlink[1]
    <3>1. c.kind = "custom" /\ c.rooms = job.rooms /\ c.map = job.map /\ c.param = job.custom
      BY <2>4 DEF Sets
    <3>2. Customises(c) /\ c.map \in MapIds /\ c.rooms \in SUBSET RoomIds
      BY <1>6, <2>1, <3>1, ApplyDoes DEF Commands
    <3>3. robot'.custom[c.map] =
            [r \in RoomIds |-> IF r \in c.rooms THEN c.param ELSE robot.custom[c.map][r]]
      BY <3>2 DEF Customises, TypeInv, RobotTyped, Robots
    <3> HIDE DEF c
    <3> QED
      BY <3>1, <3>2, <3>3 DEF HasSettings
  <2>5. ASSUME NEW job, NEW n \in 1..Len(downlink), Ready(downlink, table, n, job)
        PROVE  Ready(rest, robot'.custom, n - 1, job)
    BY <1>1, <2>1, <2>3, <2>4, <2>5, ReadyShifted
  <2> HIDE DEF rest
  <2>6. ASSUME NEW i \in 1..Len(rest), rest[i].kind = "clean", rest[i].job.custom # None
        PROVE  Ready(rest, robot'.custom, i - 1, rest[i].job)
    <3>1. i + 1 \in 1..Len(downlink) /\ i \in 1..Len(downlink) /\ rest[i] = downlink[i + 1]
          /\ i + 1 - 1 = i
      BY <1>1, <2>2
    <3>2. Ready(downlink, table, i, rest[i].job)
      BY <2>6, <3>1 DEF SettingsInv, QueueReady
    <3> QED
      BY <2>5, <3>1, <3>2
  <2>7. ASSUME NEW p \in Platforms, calls[p] # None
        PROVE  CallReady(calls[p], rest, robot'.custom)
    <3>1. CallReady(calls[p], downlink, table)
      BY <2>7 DEF SettingsInv
    <3>2. Len(downlink) \in 1..Len(downlink)
      BY <1>1, <2>2
    <3> QED
      BY <2>2, <2>5, <3>1, <3>2 DEF CallReady
  <2> QED
    BY <2>1, <2>6, <2>7 DEF SettingsInv, QueueReady
<1>7. CASE Handle
  BY <1>7, HandleDoes, SettingsKept
<1>8. ASSUME NEW r \in RoomIds, StartItself(RoomsJob({r}, robot.map)) PROVE SettingsInv'
  BY <1>8, OwnJob, TableKept, SettingsKept DEF TypeInv
<1>9. CASE GoHome \/ Dock
  BY <1>9, OwnMoves, TableKept, SettingsKept DEF TypeInv
<1>10. ASSUME NEW p \in Params \cup {None}, ReportDefaults(p) PROVE SettingsInv'
  BY <1>10, SettingsKept DEF ReportDefaults
<1>11. CASE UNCHANGED vars
  BY <1>11, SettingsKept DEF vars
<1> QED
  BY <1>2, <1>3, <1>4, <1>5, <1>6, <1>7, <1>8, <1>9, <1>10, <1>11 DEF Next

-----------------------------------------------------------------------------
(***************************************************************************)
(* What the robot reports.                                                 *)
(***************************************************************************)
\* Both ways a queue of messages changes: one more, of any of three kinds.
LEMMA JobAppended ==
  ASSUME NEW u \in Seq(Messages), NEW m \in Messages, IsJob(m), ~IsEnd(m), ~IsReturning(m),
         NEW active, EndsAreOfJobs(u, active), NEW more, more = Append(u, m)
  PROVE  /\ EndsAreOfJobs(more, active) /\ JobIsReported(more, active) /\ NotReturning(more)
         /\ \A job : m = JobReport(job) => LastJobIs(more, job)
<1>1. /\ Len(u) \in Nat /\ Len(more) = Len(u) + 1 /\ more[Len(u) + 1] = m
      /\ \A i \in 1..Len(u) : more[i] = u[i]
  BY AppendFacts
<1>2. \A i \in 1..Len(more) : i \in 1..Len(u) \/ i = Len(u) + 1
  BY <1>1
<1>3. Len(u) + 1 \in 1..Len(more) /\ \A i \in 1..Len(u) : i \in 1..Len(more) /\ i < Len(u) + 1
  BY <1>1
<1>4. \A i \in 1..Len(u) : JobAfter(more, i)
  BY <1>1, <1>3 DEF JobAfter
<1>5. HasJob(more)
  BY <1>1, <1>3 DEF HasJob
<1>6. \A i \in 1..Len(u) : JobBefore(u, i) => JobBefore(more, i)
  BY <1>1, <1>3 DEF JobBefore
<1>7. \A i, j \in 1..Len(u) : JobBetween(u, i, j) => JobBetween(more, i, j)
  BY <1>1, <1>3 DEF JobBetween
<1>8. EndsAreOfJobs(more, active)
  BY <1>1, <1>2, <1>6, <1>7 DEF EndsAreOfJobs
<1>9. JobIsReported(more, active) /\ NotReturning(more)
  BY <1>1, <1>2, <1>4, <1>5 DEF JobIsReported, NotReturning
<1>10. ASSUME NEW job, m = JobReport(job) PROVE LastJobIs(more, job)
  BY <1>1, <1>2, <1>4, <1>10 DEF LastJobIs
<1> QED
  BY <1>8, <1>9, <1>10

LEMMA EndAppended ==
  ASSUME NEW u \in Seq(Messages), NEW m \in Messages, ~IsJob(m), IsEnd(m),
         NEW active, EndsAreOfJobs(u, active), JobIsReported(u, active),
         NEW more, more = Append(u, m)
  PROVE  EndsAreOfJobs(more, active) /\ \A job : LastJobIs(more, job)
<1>1. /\ Len(u) \in Nat /\ Len(more) = Len(u) + 1 /\ more[Len(u) + 1] = m
      /\ \A i \in 1..Len(u) : more[i] = u[i]
  BY AppendFacts
<1>2. \A i \in 1..Len(more) : i \in 1..Len(u) \/ i = Len(u) + 1
  BY <1>1
<1>3. Len(u) + 1 \in 1..Len(more) /\ \A i \in 1..Len(u) : i \in 1..Len(more) /\ i < Len(u) + 1
  BY <1>1
<1>4. \A i \in 1..Len(u) : JobBefore(u, i) => JobBefore(more, i)
  BY <1>1, <1>3 DEF JobBefore
<1>5. HasJob(u) => JobBefore(more, Len(u) + 1)
  BY <1>1, <1>3 DEF JobBefore, HasJob
<1>6. \A i, j \in 1..Len(u) : JobBetween(u, i, j) => JobBetween(more, i, j)
  BY <1>1, <1>3 DEF JobBetween
<1>7. \A i \in 1..Len(u) : JobAfter(u, i) => JobBetween(more, i, Len(u) + 1)
  BY <1>1, <1>3 DEF JobBetween, JobAfter
<1>8. \A i \in 1..Len(more) : IsEnd(more[i]) => active \/ JobBefore(more, i)
  BY <1>1, <1>2, <1>4, <1>5 DEF EndsAreOfJobs, JobIsReported
<1>9. ASSUME NEW i \in 1..Len(more), NEW j \in 1..Len(more), i < j, IsEnd(more[i]), IsEnd(more[j])
      PROVE  JobBetween(more, i, j)
  <2>1. i \in 1..Len(u)
    BY <1>1, <1>2, <1>9
  <2>2. CASE j \in 1..Len(u)
    BY <1>1, <1>6, <1>9, <2>1, <2>2 DEF EndsAreOfJobs
  <2>3. CASE j = Len(u) + 1
    BY <1>1, <1>7, <1>9, <2>1, <2>3 DEF JobIsReported
  <2> QED
    BY <1>2, <2>2, <2>3
<1>10. \A i \in 1..Len(u) : EndAfter(more, i)
  BY <1>1, <1>3 DEF EndAfter
<1>11. \A job : LastJobIs(more, job)
  BY <1>1, <1>2, <1>10 DEF LastJobIs
<1> QED
  BY <1>8, <1>9, <1>11 DEF EndsAreOfJobs

LEMMA OtherAppended ==
  ASSUME NEW u \in Seq(Messages), NEW m \in Messages, ~IsJob(m), ~IsEnd(m),
         NEW more, more = Append(u, m)
  PROVE  /\ \A active : EndsAreOfJobs(u, active) => EndsAreOfJobs(more, active)
         /\ \A active : JobIsReported(u, active) => JobIsReported(more, active)
         /\ \A job : LastJobIs(u, job) => LastJobIs(more, job)
         /\ NotReturning(u) /\ ~IsReturning(m) => NotReturning(more)
<1>1. /\ Len(u) \in Nat /\ Len(more) = Len(u) + 1 /\ more[Len(u) + 1] = m
      /\ \A i \in 1..Len(u) : more[i] = u[i]
  BY AppendFacts
<1>2. \A i \in 1..Len(more) : i \in 1..Len(u) \/ i = Len(u) + 1
  BY <1>1
<1>3. \A i \in 1..Len(u) : i \in 1..Len(more)
  BY <1>1
<1>4. \A i \in 1..Len(u) : JobBefore(u, i) => JobBefore(more, i)
  BY <1>1, <1>3 DEF JobBefore
<1>5. HasJob(u) => HasJob(more)
  BY <1>1, <1>3 DEF HasJob
<1>6. \A i, j \in 1..Len(u) : JobBetween(u, i, j) => JobBetween(more, i, j)
  BY <1>1, <1>3 DEF JobBetween
<1>7. \A i \in 1..Len(u) : /\ JobAfter(u, i) => JobAfter(more, i)
                           /\ EndAfter(u, i) => EndAfter(more, i)
  BY <1>1, <1>3 DEF JobAfter, EndAfter
<1>8. ASSUME NEW active, EndsAreOfJobs(u, active) PROVE EndsAreOfJobs(more, active)
  BY <1>1, <1>2, <1>4, <1>6, <1>8 DEF EndsAreOfJobs
<1>9. ASSUME NEW active, JobIsReported(u, active) PROVE JobIsReported(more, active)
  BY <1>1, <1>2, <1>5, <1>7, <1>9 DEF JobIsReported
<1>10. ASSUME NEW job, LastJobIs(u, job) PROVE LastJobIs(more, job)
  BY <1>1, <1>2, <1>7, <1>10 DEF LastJobIs
<1>11. ASSUME NotReturning(u), ~IsReturning(m) PROVE NotReturning(more)
  BY <1>1, <1>2, <1>7, <1>11 DEF NotReturning
<1> QED
  BY <1>8, <1>9, <1>10, <1>11

\* And the first one handled: it leaves what is shown active, or was the end of
\* what was, or changed nothing.
LEMMA FirstHandled ==
  ASSUME NEW u \in Seq(Messages), u # <<>>, NEW active, NEW then, NEW rest, rest = Tail(u),
         \/ then
         \/ ~IsJob(u[1]) /\ (IsEnd(u[1]) \/ (active => then)),
         EndsAreOfJobs(u, active)
  PROVE  /\ EndsAreOfJobs(rest, then)
         /\ JobIsReported(u, active) => JobIsReported(rest, then)
         /\ NotReturning(u) => NotReturning(rest)
         /\ \A job : LastJobIs(u, job) => LastJobIs(rest, job)
<1>1. /\ Len(u) \in Nat /\ Len(u) > 0 /\ Len(rest) = Len(u) - 1
      /\ \A i \in 1..Len(rest) : i + 1 \in 1..Len(u) /\ rest[i] = u[i + 1]
  BY TailFacts
<1>2. \A k \in 1..Len(u) : k > 1 => k - 1 \in 1..Len(rest) /\ rest[k - 1] = u[k]
  BY <1>1
<1>3. ASSUME NEW i \in 1..Len(rest), JobAfter(u, i + 1) PROVE JobAfter(rest, i)
  <2>1. PICK k \in 1..Len(u) : i + 1 < k /\ IsJob(u[k])
    BY <1>3 DEF JobAfter
  <2>2. k > 1 /\ i < k - 1
    BY <2>1
  <2> QED
    BY <1>2, <2>1, <2>2 DEF JobAfter
<1>4. ASSUME NEW i \in 1..Len(rest), EndAfter(u, i + 1) PROVE EndAfter(rest, i)
  <2>1. PICK k \in 1..Len(u) : i + 1 < k /\ IsEnd(u[k])
    BY <1>4 DEF EndAfter
  <2>2. k > 1 /\ i < k - 1
    BY <2>1
  <2> QED
    BY <1>2, <2>1, <2>2 DEF EndAfter
<1>5. ASSUME NEW i \in 1..Len(rest), ~JobAfter(rest, i) PROVE ~JobAfter(u, i + 1)
  BY <1>3, <1>5
<1>6. ASSUME NEW i \in 1..Len(rest), NEW j \in 1..Len(rest), JobBetween(u, i + 1, j + 1)
      PROVE  JobBetween(rest, i, j)
  <2>1. PICK k \in 1..Len(u) : i + 1 < k /\ k < j + 1 /\ IsJob(u[k])
    BY <1>6 DEF JobBetween
  <2>2. k > 1 /\ i < k - 1 /\ k - 1 < j
    BY <2>1
  <2> QED
    BY <1>2, <2>1, <2>2 DEF JobBetween
<1>7. ASSUME NEW j \in 1..Len(rest),
             \E k \in 1..Len(u) : k > 1 /\ k < j + 1 /\ IsJob(u[k])
      PROVE  JobBefore(rest, j)
  <2>1. PICK k \in 1..Len(u) : k > 1 /\ k < j + 1 /\ IsJob(u[k])
    BY <1>7
  <2>2. k - 1 < j
    BY <2>1
  <2> QED
    BY <1>2, <2>1, <2>2 DEF JobBefore
<1>8. EndsAreOfJobs(rest, then)
  <2>1. ASSUME NEW j \in 1..Len(rest), IsEnd(rest[j]), ~then PROVE JobBefore(rest, j)
    <3>1. j + 1 \in 1..Len(u) /\ IsEnd(u[j + 1]) /\ 1 \in 1..Len(u) /\ 1 < j + 1
      BY <1>1, <2>1
    <3>2. CASE IsEnd(u[1])
      <4>1. JobBetween(u, 1, j + 1)
        BY <3>1, <3>2 DEF EndsAreOfJobs
      <4> QED
        BY <1>7, <4>1 DEF JobBetween
    <3>3. CASE ~IsEnd(u[1])
      <4>1. ~active /\ ~IsJob(u[1])
        BY <2>1, <3>3
      <4>2. PICK k \in 1..Len(u) : k < j + 1 /\ IsJob(u[k])
        BY <3>1, <4>1 DEF EndsAreOfJobs, JobBefore
      <4>3. k > 1
        BY <4>1, <4>2
      <4> QED
        BY <1>7, <4>2, <4>3
    <3> QED
      BY <3>2, <3>3
  <2>2. ASSUME NEW i \in 1..Len(rest), NEW j \in 1..Len(rest), i < j,
               IsEnd(rest[i]), IsEnd(rest[j])
        PROVE  JobBetween(rest, i, j)
    <3>1. i + 1 < j + 1 /\ i + 1 \in 1..Len(u) /\ j + 1 \in 1..Len(u)
          /\ IsEnd(u[i + 1]) /\ IsEnd(u[j + 1])
      BY <1>1, <2>2
    <3>2. JobBetween(u, i + 1, j + 1)
      BY <3>1 DEF EndsAreOfJobs
    <3> QED
      BY <1>6, <3>2
  <2> QED
    BY <2>1, <2>2 DEF EndsAreOfJobs
<1>9. ASSUME JobIsReported(u, active) PROVE JobIsReported(rest, then)
  <2>1. ASSUME ~then PROVE HasJob(rest)
    <3>1. \E k \in 1..Len(u) : k > 1 /\ IsJob(u[k])
      <4>1. 1 \in 1..Len(u)
        BY <1>1
      <4>2. CASE IsEnd(u[1])
        BY <1>9, <4>1, <4>2 DEF JobIsReported, JobAfter
      <4>3. CASE ~IsEnd(u[1])
        <5>1. ~active /\ ~IsJob(u[1])
          BY <2>1, <4>3
        <5>2. PICK k \in 1..Len(u) : IsJob(u[k])
          BY <1>9, <5>1 DEF JobIsReported, HasJob
        <5>3. k > 1
          BY <5>1, <5>2
        <5> QED
          BY <5>2, <5>3
      <4> QED
        BY <4>2, <4>3
    <3> QED
      BY <1>2, <3>1 DEF HasJob
  <2>2. \A i \in 1..Len(rest) : IsEnd(rest[i]) => JobAfter(rest, i)
    BY <1>1, <1>3, <1>9 DEF JobIsReported
  <2> QED
    BY <2>1, <2>2 DEF JobIsReported
<1>10. ASSUME NotReturning(u) PROVE NotReturning(rest)
  BY <1>1, <1>3, <1>10 DEF NotReturning
<1>11. ASSUME NEW job, LastJobIs(u, job) PROVE LastJobIs(rest, job)
  BY <1>1, <1>4, <1>5, <1>11 DEF LastJobIs
<1> QED
  BY <1>8, <1>9, <1>10, <1>11

LEMMA JobTold ==
  ASSUME TypeInv, ReportsInv, NEW job, Takes(job), Active(data') <=> Active(data)
  PROVE  /\ ReportsInv' /\ uplink' = Append(uplink, JobReport(job))
         /\ JobReport(job) \in Messages /\ IsJob(JobReport(job))
         /\ robot'.job = job /\ robot'.does = "cleaning"
<1> DEFINE m == JobReport(job)
<1>1. job \in Jobs /\ OneKind(job) /\ uplink' = Append(uplink, m)
  BY DEF Takes, TakeJob, Tell
<1>2. robot'.job = job /\ robot'.does = "cleaning"
  BY DEF Takes, TakeJob, TypeInv, RobotTyped, Robots
<1>3. m \in Messages /\ IsJob(m) /\ ~IsEnd(m) /\ ~IsReturning(m)
  BY <1>1, JobReportIs, JobHandled DEF TypeInv
<1>4. uplink \in Seq(Messages) /\ EndsAreOfJobs(uplink, Active(data))
  BY DEF TypeInv, UplinkTyped, ReportsInv
<1> HIDE DEF m
<1>5. /\ EndsAreOfJobs(uplink', Active(data)) /\ JobIsReported(uplink', Active(data))
      /\ NotReturning(uplink')
      /\ \A j : m = JobReport(j) => LastJobIs(uplink', j)
  BY <1>1, <1>3, <1>4, JobAppended
<1>6. EndsAreOfJobs(uplink', Active(data')) /\ JobIsReported(uplink', Active(data'))
  BY <1>5 DEF EndsAreOfJobs, JobIsReported
<1>7. LastJobIs(uplink', robot'.job)
  BY <1>2, <1>5 DEF m
<1>8. ReportsInv'
  BY <1>2, <1>5, <1>6, <1>7 DEF ReportsInv
<1> QED
  BY <1>1, <1>2, <1>3, <1>8 DEF m

LEMMA MovesTold ==
  ASSUME TypeInv, ReportsInv, RobotMoves, Active(data') <=> Active(data)
  PROVE  ReportsInv'
<1> DEFINE active == Active(data)
<1>1. /\ DataOK(data) /\ uplink \in Seq(Messages) /\ EndsAreOfJobs(uplink, active)
      /\ robot.does # "resting" => JobIsReported(uplink, active)
      /\ robot.does \in {"cleaning", "paused"} => NotReturning(uplink)
      /\ LastJobIs(uplink, robot.job)
      /\ robot.does = "resting" => robot.job = NoJob
      /\ robot.does \in {"cleaning", "paused", "returning", "resting"}
  BY DEF TypeInv, UplinkTyped, ReportsInv, RobotTyped, Robots
<1>2. /\ EndsAreOfJobs(uplink', active) => EndsAreOfJobs(uplink', Active(data'))
      /\ JobIsReported(uplink', active) => JobIsReported(uplink', Active(data'))
  BY DEF EndsAreOfJobs, JobIsReported
<1> HIDE DEF active
<1>3. CASE Pauses \/ Plays
  <2>1. PICK m \in {Work(Paused), Work(Cleaning)} : uplink' = Append(uplink, m)
    BY <1>3 DEF Pauses, Plays, Told
  <2>2. Paused.state = 5 /\ Cleaning.state = 5
    BY DEF Paused, Cleaning, WorkState
  <2>3. m \in Messages /\ ~IsJob(m) /\ ~IsEnd(m) /\ ~IsReturning(m)
    BY <1>1, <2>2, WayHandled DEF IsReturning, Work, Blank
  <2>4. robot.does \in {"cleaning", "paused"} /\ robot'.does \in {"cleaning", "paused"}
        /\ robot'.job = robot.job
    BY <1>3 DEF Pauses, Plays, TypeInv, RobotTyped, Robots
  <2>5. /\ EndsAreOfJobs(uplink', active) /\ JobIsReported(uplink', active)
        /\ LastJobIs(uplink', robot.job) /\ NotReturning(uplink')
    BY <1>1, <2>1, <2>3, <2>4, OtherAppended
  <2> QED
    BY <1>2, <2>4, <2>5 DEF ReportsInv
<1>4. CASE Returns
  <2>1. uplink' = Append(uplink, Work(Returning))
    BY <1>4 DEF Returns, Told
  <2>2. Work(Returning) \in Messages /\ ~IsJob(Work(Returning)) /\ ~IsEnd(Work(Returning))
    BY <1>1, WayHandled
  <2>3. robot.does # "resting" /\ robot'.does = "returning" /\ robot'.job = robot.job
    BY <1>4 DEF Returns, TypeInv, RobotTyped, Robots
  <2>4. /\ EndsAreOfJobs(uplink', active) /\ JobIsReported(uplink', active)
        /\ LastJobIs(uplink', robot.job)
    BY <1>1, <2>1, <2>2, <2>3, OtherAppended
  <2> QED
    BY <1>2, <2>3, <2>4 DEF ReportsInv
<1>5. CASE Ends
  <2>1. PICK m \in {Work(Idle), Work(Docked)} : uplink' = Append(uplink, m)
    BY <1>5 DEF Ends, Told
  <2>2. m \in Messages /\ ~IsJob(m) /\ IsEnd(m)
    BY <1>1, EndHandled
  <2>3. robot.does # "resting" /\ robot'.does = "resting" /\ robot'.job = NoJob
    BY <1>5 DEF Ends, TypeInv, RobotTyped, Robots
  <2>4. EndsAreOfJobs(uplink', active) /\ LastJobIs(uplink', NoJob)
    BY <1>1, <2>1, <2>2, <2>3, EndAppended
  <2> QED
    BY <1>2, <2>3, <2>4 DEF ReportsInv
<1>6. CASE MapChanges
  <2>1. PICK i \in MapIds : robot' = [robot EXCEPT !.map = i] /\ Told(OnMap(i, RoomIds))
    BY <1>6 DEF MapChanges
  <2> DEFINE m == OnMap(i, RoomIds)
  <2>2. m \in Messages /\ ~IsJob(m) /\ ~IsEnd(m) /\ ~IsReturning(m)
    BY <1>1, MapHandled
  <2>3. robot'.does = robot.does /\ robot'.job = robot.job /\ uplink' = Append(uplink, m)
    BY <2>1 DEF Told, TypeInv, RobotTyped, Robots
  <2> HIDE DEF m
  <2>4. /\ EndsAreOfJobs(uplink', active) /\ LastJobIs(uplink', robot.job)
        /\ robot.does # "resting" => JobIsReported(uplink', active)
        /\ robot.does \in {"cleaning", "paused"} => NotReturning(uplink')
    BY <1>1, <2>2, <2>3, OtherAppended
  <2> QED
    BY <1>1, <1>2, <2>3, <2>4 DEF ReportsInv
<1>7. CASE UNCHANGED <<robot, uplink>>
  BY <1>1, <1>2, <1>7 DEF ReportsInv
<1> QED
  BY <1>3, <1>4, <1>5, <1>6, <1>7 DEF RobotMoves

LEMMA ReportsKept ==
  ASSUME ReportsInv, UNCHANGED uplink, Active(data') <=> Active(data),
         robot'.does = robot.does, robot'.job = robot.job
  PROVE  ReportsInv'
BY DEF ReportsInv, EndsAreOfJobs, JobIsReported

\* What the data shows after its first message.
LEMMA FirstIs ==
  ASSUME NEW d, DataOK(d), NEW m, MessageOK(m)
  PROVE  \/ Active(After(d, m))
         \/ ~IsJob(m) /\ (IsEnd(m) \/ (Active(d) => Active(After(d, m))))
<1>1. CASE \E job \in Jobs : OneKind(job) /\ m = JobReport(job)
  BY <1>1, JobHandled
<1>2. CASE m \in {Work(Idle), Work(Docked)}
  BY <1>2, EndHandled
<1>3. CASE m \in {Work(Paused), Work(Cleaning), Work(Returning)}
  BY <1>3, WayHandled
<1>4. CASE \E i \in MapIds : m = OnMap(i, RoomIds)
  BY <1>4, MapHandled
<1> QED
  BY <1>1, <1>2, <1>3, <1>4 DEF MessageOK

LEMMA ReportsHold == Init => ReportsInv
BY DEF Init, ReportsInv, EndsAreOfJobs, LastJobIs

LEMMA ReportsStep ==
  ASSUME TypeInv, ReportsInv, [Next]_vars
  PROVE  ReportsInv'
<1>1. \A job \in Jobs : Active(ShowTargets(data, job)) <=> Active(data)
  BY ShowTyped DEF TypeInv, Active
<1>2. CASE Services
  <2>1. PICK p \in Platforms, c \in Calls : Begun(p, c)
    BY <1>2, CallsBegin
  <2>2. uplink' = uplink /\ robot' = robot
    BY <1>2, CallsBegin
  <2>3. Active(data') <=> Active(data)
    <3>1. CASE c.early
      <4>1. c.first \in Commands /\ c.first.kind = "clean" /\ data' = ShowTargets(data, c.first.job)
        BY <2>1, <3>1 DEF Begun, CallOK, Calls
      <4>2. c.first.job \in Jobs
        BY <4>1 DEF Commands
      <4> QED
        BY <1>1, <4>1, <4>2
    <3>2. CASE ~c.early
      BY <2>1, <3>2 DEF Begun
    <3> QED
      BY <3>1, <3>2
  <2> QED
    BY <2>2, <2>3, ReportsKept
<1>3. ASSUME NEW p \in Platforms, Send(p) \/ Lose(p) \/ Refuse(p) PROVE ReportsInv'
  BY <1>3, SendDoes, LoseDoes, RefuseDoes, ReportsKept
<1>4. ASSUME NEW p \in Platforms, Resume(p) PROVE ReportsInv'
  <2>1. calls[p] \in Calls
    BY <1>4, ResumeDoes DEF CallIs
  <2>2. /\ calls[p].then # None => calls[p].then \in Jobs
        /\ calls[p].target # None => calls[p].target \in Jobs
    BY <2>1 DEF Calls
  <2>3. Active(data') <=> Active(data)
    BY <1>1, <1>4, <2>2, ResumeDoes
  <2> QED
    BY <1>4, <2>3, ResumeDoes, ReportsKept
<1>5. CASE Apply
  <2>1. data' = data
    BY <1>5, ApplyDoes
  <2>2. CASE downlink[1].kind = "custom"
    <3>1. Customises(downlink[1])
      BY <1>5, <2>2, ApplyDoes
    <3>2. uplink' = uplink /\ robot'.does = robot.does /\ robot'.job = robot.job
      BY <3>1 DEF Customises, TypeInv, RobotTyped, Robots
    <3> QED
      BY <2>1, <3>2, ReportsKept
  <2>3. CASE downlink[1].kind # "custom"
    BY <1>5, <2>1, <2>3, ApplyDoes, JobTold, MovesTold
  <2> QED
    BY <2>2, <2>3
<1>6. CASE Handle
  <2>1. /\ uplink # <<>> /\ uplink' = Tail(uplink) /\ robot' = robot
        /\ MessageOK(uplink[1]) /\ data' = After(data, uplink[1])
    BY <1>6, HandleDoes
  <2>2. DataOK(data) /\ uplink \in Seq(Messages)
    BY DEF TypeInv, UplinkTyped
  <2>3. \/ Active(data')
        \/ ~IsJob(uplink[1]) /\ (IsEnd(uplink[1]) \/ (Active(data) => Active(data')))
    BY <2>1, <2>2, FirstIs
  <2>4. EndsAreOfJobs(uplink, Active(data))
    BY DEF ReportsInv
  <2> DEFINE active == Active(data)
             then   == Active(data')
             rest   == uplink'
  <2>5. rest = Tail(uplink)
    BY <2>1
  <2>6. then \/ (~IsJob(uplink[1]) /\ (IsEnd(uplink[1]) \/ (active => then)))
    BY <2>3
  <2>7. EndsAreOfJobs(uplink, active)
    BY <2>4
  <2> HIDE DEF active, then, rest
  <2>8. /\ EndsAreOfJobs(rest, then)
        /\ JobIsReported(uplink, active) => JobIsReported(rest, then)
        /\ NotReturning(uplink) => NotReturning(rest)
        /\ \A job : LastJobIs(uplink, job) => LastJobIs(rest, job)
    BY <2>1, <2>2, <2>5, <2>6, <2>7, FirstHandled
  <2> QED
    BY <2>1, <2>8 DEF ReportsInv, active, then, rest
<1>7. ASSUME NEW r \in RoomIds, StartItself(RoomsJob({r}, robot.map)) PROVE ReportsInv'
  BY <1>7, OwnJob, JobTold
<1>8. CASE GoHome \/ Dock
  BY <1>8, OwnMoves, MovesTold
<1>9. ASSUME NEW p \in Params \cup {None}, ReportDefaults(p) PROVE ReportsInv'
  BY <1>9, ReportsKept DEF ReportDefaults
<1>10. CASE UNCHANGED vars
  BY <1>10, ReportsKept DEF vars
<1> QED
  BY <1>2, <1>3, <1>4, <1>5, <1>6, <1>7, <1>8, <1>9, <1>10 DEF Next

-----------------------------------------------------------------------------
(***************************************************************************)
(* The targets shown are those of the robot's job.                         *)
(***************************************************************************)
LEMMA QueueAppended ==
  ASSUME NEW S, NEW u \in Seq(S), NEW m \in S, NEW more, more = Append(u, m)
  PROVE  /\ ~HasJob(more) => ~HasJob(u) /\ ~IsJob(m)
         /\ ~HasEnd(more) => ~HasEnd(u) /\ ~IsEnd(m)
         /\ (\A i \in 1..Len(more) : more[i].kind # "clean")
              => m.kind # "clean" /\ \A i \in 1..Len(u) : u[i].kind # "clean"
<1>1. /\ Len(u) \in Nat /\ Len(more) = Len(u) + 1 /\ more[Len(u) + 1] = m
      /\ \A i \in 1..Len(u) : more[i] = u[i]
  BY AppendFacts
<1>2. Len(u) + 1 \in 1..Len(more) /\ \A i \in 1..Len(u) : i \in 1..Len(more)
  BY <1>1
<1> QED
  BY <1>1, <1>2 DEF HasJob, HasEnd

LEMMA QueueShifted ==
  ASSUME NEW S, NEW u \in Seq(S), u # <<>>, NEW rest, rest = Tail(u)
  PROVE  /\ ~HasJob(rest) => ~JobAfter(u, 1) /\ (~IsJob(u[1]) => ~HasJob(u))
         /\ ~HasEnd(rest) => ~EndAfter(u, 1) /\ (~IsEnd(u[1]) => ~HasEnd(u))
         /\ (\A i \in 1..Len(rest) : rest[i].kind # "clean") /\ u[1].kind # "clean"
              => \A i \in 1..Len(u) : u[i].kind # "clean"
         /\ 1 \in 1..Len(u)
<1>1. /\ Len(u) \in Nat /\ Len(u) > 0 /\ Len(rest) = Len(u) - 1
      /\ \A i \in 1..Len(u) - 1 : rest[i] = u[i + 1]
  BY TailFacts
<1>2. \A k \in 1..Len(u) : k = 1 \/ (1 < k /\ k - 1 \in 1..Len(rest) /\ rest[k - 1] = u[k])
  BY <1>1
<1>3. ~HasJob(rest) => \A k \in 1..Len(u) : k = 1 \/ ~IsJob(u[k])
  BY <1>2 DEF HasJob
<1>4. ~HasEnd(rest) => \A k \in 1..Len(u) : k = 1 \/ ~IsEnd(u[k])
  BY <1>2 DEF HasEnd
<1>5. ~(1 < 1) /\ 1 \in 1..Len(u)
  BY <1>1
<1> QED
  BY <1>2, <1>3, <1>4, <1>5 DEF HasJob, HasEnd, JobAfter, EndAfter

\* What does not touch the data or a call leaves them right.
LEMMA MovesShown ==
  ASSUME TypeInv, TargetsInv, RobotMoves, UNCHANGED <<data, calls, doubtful>>,
         Quiet', ~doubtful',
         ~HasJob(uplink) => Quiet
  PROVE  TargetsShown' /\ \A p \in Platforms : LateIsShown(calls'[p], data')
<1>1. uplink \in Seq(Messages) /\ DataOK(data) /\ ~HasJob(uplink')
  BY DEF TypeInv, UplinkTyped, Quiet
<1>2. ASSUME NEW m \in Messages, uplink' = Append(uplink, m)
      PROVE  ~HasJob(uplink) /\ (~HasEnd(uplink') => ~HasEnd(uplink))
  BY <1>1, <1>2, QueueAppended
<1>3. ASSUME ~HasJob(uplink)
      PROVE  TargetsShown /\ \A p \in Platforms : LateIsShown(calls'[p], data')
  BY <1>3 DEF TargetsInv
<1>4. CASE Pauses \/ Plays
  <2>1. PICK m \in {Work(Paused), Work(Cleaning)} : uplink' = Append(uplink, m)
    BY <1>4 DEF Pauses, Plays, Told
  <2>2. m \in Messages
    BY <1>1, WayHandled
  <2>3. robot.does \in {"cleaning", "paused"} /\ robot'.job = robot.job
    BY <1>4 DEF Pauses, Plays, TypeInv, RobotTyped, Robots
  <2> QED
    BY <1>2, <1>3, <2>1, <2>2, <2>3 DEF TargetsShown
<1>5. CASE Returns
  <2>1. uplink' = Append(uplink, Work(Returning)) /\ Work(Returning) \in Messages
    BY <1>1, <1>5, WayHandled DEF Returns, Told
  <2>2. robot'.does = "returning" /\ robot'.job = robot.job
    BY <1>5 DEF Returns, TypeInv, RobotTyped, Robots
  <2> QED
    BY <1>2, <1>3, <2>1, <2>2 DEF TargetsShown
<1>6. CASE Ends
  <2>1. PICK m \in {Work(Idle), Work(Docked)} : uplink' = Append(uplink, m)
    BY <1>6 DEF Ends, Told
  <2>2. m \in Messages /\ IsEnd(m)
    BY <1>1, EndHandled
  <2>3. HasEnd(uplink')
    BY <1>1, <2>1, <2>2, QueueAppended
  <2>4. robot'.does = "resting"
    BY <1>6 DEF Ends, TypeInv, RobotTyped, Robots
  <2> QED
    BY <1>2, <1>3, <2>1, <2>2, <2>3, <2>4 DEF TargetsShown
<1>7. CASE MapChanges
  <2>1. PICK i \in MapIds : robot' = [robot EXCEPT !.map = i] /\ Told(OnMap(i, RoomIds))
    BY <1>7 DEF MapChanges
  <2>2. uplink' = Append(uplink, OnMap(i, RoomIds)) /\ OnMap(i, RoomIds) \in Messages
    BY <1>1, <2>1, MapHandled DEF Told
  <2>3. robot'.does = robot.does /\ robot'.job = robot.job
    BY <2>1 DEF TypeInv, RobotTyped, Robots
  <2> QED
    BY <1>2, <1>3, <2>2, <2>3 DEF TargetsShown
<1>8. CASE UNCHANGED <<robot, uplink>>
  BY <1>1, <1>3, <1>8 DEF TargetsShown
<1> QED
  BY <1>4, <1>5, <1>6, <1>7, <1>8 DEF RobotMoves

\* The last job's report brings its targets, if the job did not end since.
LEMMA JobShown ==
  ASSUME TypeInv, ReportsInv, Handle, IsJob(uplink[1]), ~HasJob(uplink'), ~doubtful'
  PROVE  TargetsShown'
<1> DEFINE m == uplink[1]
<1>1. /\ uplink # <<>> /\ uplink' = Tail(uplink) /\ robot' = robot
      /\ data' = After(data, m) /\ MessageOK(m) /\ ~KeepsTargets(m, data')
  BY HandleDoes
<1>2. uplink \in Seq(Messages) /\ DataOK(data) /\ robot.job \in Jobs /\ OneKind(robot.job)
      /\ 1 \in 1..Len(uplink)
  BY <1>1, TailFacts DEF TypeInv, UplinkTyped, RobotTyped, Robots
<1>3. ~JobAfter(uplink, 1)
  BY <1>1, <1>2, QueueShifted
<1>4. EndAfter(uplink, 1) \/ m = JobReport(robot.job)
  BY <1>2, <1>3 DEF ReportsInv, LastJobIs
<1> HIDE DEF m
<1>5. m = JobReport(robot.job) => ShowsAll(data', robot.job)
  BY <1>1, <1>2, JobHandled
<1>6. data'.activity = "cleaning"
  <2>1. PICK job \in Jobs : OneKind(job) /\ m = JobReport(job)
    BY <1>1, <1>2, EndHandled, WayHandled, MapHandled DEF MessageOK, m
  <2> QED
    BY <1>1, <1>2, <2>1, JobHandled
<1>7. robot.does # "resting" => ~EndAfter(uplink, 1)
  <2>1. \A k, j \in 1..Len(uplink) : 1 < k /\ k < j => 1 < j
    BY <1>2
  <2> QED
    BY <1>3, <2>1 DEF ReportsInv, JobIsReported, EndAfter, JobAfter
<1>8. ~HasEnd(uplink') => ~EndAfter(uplink, 1)
  BY <1>1, <1>2, QueueShifted
<1> QED
  BY <1>1, <1>4, <1>5, <1>6, <1>7, <1>8 DEF TargetsShown, ShowsAll

LEMMA OtherShown ==
  ASSUME TypeInv, ReportsInv, TargetsInv, Handle, ~IsJob(uplink[1]),
         Quiet', ~doubtful'
  PROVE  TargetsShown'
<1> DEFINE m == uplink[1]
<1>1. /\ uplink # <<>> /\ uplink' = Tail(uplink) /\ robot' = robot
      /\ UNCHANGED <<calls, downlink>>
      /\ data' = After(data, m) /\ MessageOK(m)
      /\ doubtful => NamesTargets(m)
  BY HandleDoes
<1>2. uplink \in Seq(Messages) /\ DataOK(data) /\ robot.job \in Jobs /\ OneKind(robot.job)
  BY DEF TypeInv, UplinkTyped, RobotTyped, Robots
<1>3. ~HasJob(uplink) /\ 1 \in 1..Len(uplink)
  BY <1>1, <1>2, QueueShifted DEF Quiet
<1>4. Quiet
  BY <1>1, <1>3 DEF Quiet
<1>5. \A i \in 1..Len(uplink) : ~JobAfter(uplink, i) /\ ~JobBefore(uplink, i)
  BY <1>3 DEF HasJob, JobAfter, JobBefore
<1> HIDE DEF m
<1>6. CASE m \in {Work(Idle), Work(Docked)}
  <2>1. /\ IsEnd(m) /\ (After(data, m).activity = "docked" => After(data, m).current_scene_id = 0)
        /\ Active(data) => Shows(After(data, m), NoJob)
    BY <1>2, <1>6, EndHandled
  <2>2. Active(data)
    BY <1>3, <1>5, <2>1 DEF m, ReportsInv, EndsAreOfJobs
  <2>3. robot.does = "resting" /\ robot.job = NoJob
    BY <1>3, <1>5, <2>1 DEF m, ReportsInv, JobIsReported
  <2> QED
    BY <1>1, <2>1, <2>2, <2>3 DEF TargetsShown
<1>7. CASE m \notin {Work(Idle), Work(Docked)}
  <2>1. /\ ~NamesTargets(m) /\ ~IsEnd(m)
        /\ After(data, m).active_room_ids = data.active_room_ids
        /\ After(data, m).active_zone_count = data.active_zone_count
        /\ ~IsReturning(m) => After(data, m).current_scene_id = data.current_scene_id
        /\ After(data, m).activity = "docked" => data.activity = "docked" /\ ~IsReturning(m)
    <3>1. CASE m \in {Work(Paused), Work(Cleaning), Work(Returning)}
      BY <1>2, <3>1, WayHandled
    <3>2. CASE \E i \in MapIds : m = OnMap(i, RoomIds)
      BY <1>2, <3>2, MapHandled
    <3>3. ~ \E job \in Jobs : OneKind(job) /\ m = JobReport(job)
      BY <1>2, JobHandled DEF m
    <3> QED
      BY <1>1, <1>7, <3>1, <3>2, <3>3 DEF MessageOK
  <2>2. TargetsShown
    BY <1>1, <1>4, <2>1 DEF TargetsInv
  <2>3. ~HasEnd(uplink') => ~HasEnd(uplink)
    BY <1>1, <1>2, <2>1, QueueShifted DEF m
  <2>4. robot.does \in {"cleaning", "paused"} => ~IsReturning(m)
    BY <1>3, <1>5 DEF m, ReportsInv, NotReturning
  <2> QED
    BY <1>1, <2>1, <2>2, <2>3, <2>4 DEF TargetsShown, Shows
<1> QED
  BY <1>6, <1>7

LEMMA TargetsHold == Init => TargetsInv
<1> SUFFICES ASSUME Init PROVE TargetsInv
  OBVIOUS
<1>1. /\ data.active_room_ids = {} /\ data.active_zone_count = 0 /\ data.current_scene_id = 0
      /\ robot.job = NoJob /\ robot.does = "resting"
  BY DEF Init, DefaultState
<1>2. \A p \in Platforms : calls[p] = None
  BY DEF Init
<1> QED
  BY <1>1, <1>2 DEF TargetsInv, TargetsShown, LateIsShown, Shows, NoJob

LEMMA TargetsStep ==
  ASSUME TypeInv, ReportsInv, TargetsInv, [Next]_vars
  PROVE  TargetsInv'
<1> DEFINE right == TargetsShown /\ \A p \in Platforms : LateIsShown(calls[p], data)
<1> SUFFICES ASSUME Quiet', ~doubtful' PROVE right'
  BY DEF TargetsInv
<1>1. /\ uplink \in Seq(Messages) /\ downlink \in Seq(Commands) /\ DataOK(data)
      /\ Quiet /\ ~doubtful => right
  BY DEF TypeInv, UplinkTyped, DownlinkTyped, TargetsInv
<1>2. ~HasJob(uplink') /\ (\A i \in 1..Len(downlink') : downlink'[i].kind # "clean")
      /\ \A p \in Platforms : calls'[p] # None /\ calls'[p].early => calls'[p].sent
  BY DEF Quiet
<1>3. ASSUME NEW p \in Platforms, UNCHANGED <<data, uplink, downlink, robot>>, ~doubtful,
             calls[p] # None => calls[p].sent \/ ~calls[p].early,
             LateIsShown(calls'[p], data),
             \A q \in Platforms : q # p => calls'[q] = calls[q]
      PROVE  right'
  <2>1. Quiet
    BY <1>2, <1>3 DEF Quiet
  <2> QED
    BY <1>1, <1>3, <2>1 DEF TargetsShown, LateIsShown
<1>4. CASE Services
  <2>1. PICK p \in Platforms, c \in Calls : Begun(p, c)
    BY <1>4, CallsBegin
  <2>2. UNCHANGED <<downlink, uplink, robot, doubtful>>
    BY <1>4, CallsBegin
  <2>3. /\ calls'[p] = c /\ calls[p] = None /\ c # None /\ ~c.sent
        /\ \A q \in Platforms : q # p => calls'[q] = calls[q]
    BY <2>1, CallBecomes, NoneIsNoRecord DEF TypeInv, Begun
  <2>4. ~c.early /\ data' = data
    BY <1>2, <2>1, <2>3 DEF Begun
  <2> QED
    BY <1>3, <2>2, <2>3, <2>4 DEF LateIsShown
<1>5. ASSUME NEW p \in Platforms, Send(p) PROVE right'
  <2> DEFINE c == calls[p]
  <2>1. /\ c \in Calls /\ CallOK(p, c) /\ c # None /\ ~c.sent
        /\ downlink' = Append(downlink, c.first)
        /\ UNCHANGED <<data, uplink, robot, doubtful>>
        /\ calls'[p] = Sent(c) /\ \A q \in Platforms : q # p => calls'[q] = calls[q]
    BY <1>5, SendDoes DEF CallIs
  <2>2. c.first \in Commands /\ (c.target # None => c.target \in Jobs)
    BY <2>1 DEF Calls
  <2>3. c.first.kind # "clean" /\ \A i \in 1..Len(downlink) : downlink[i].kind # "clean"
    BY <1>1, <1>2, <2>1, <2>2, QueueAppended
  <2>4. ~c.early /\ c.target = None
    BY <2>1, <2>2, <2>3, StartIsCommand DEF CallOK
  <2>5. Sent(c).target = None
    BY <2>1, <2>4, CallForms
  <2> HIDE DEF c
  <2>6. Quiet
    BY <1>2, <2>1, <2>3, <2>4 DEF Quiet, c
  <2> QED
    BY <1>1, <2>1, <2>5, <2>6 DEF TargetsShown, LateIsShown
<1>6. ASSUME NEW p \in Platforms, Lose(p) PROVE right'
  <2>1. /\ CallIs(p, Lost(calls[p])) /\ ~doubtful /\ ~calls[p].early /\ calls[p].target = None
        /\ UNCHANGED <<data, uplink, downlink, robot>> /\ calls[p] # None
    BY <1>6, LoseDoes
  <2>2. Lost(calls[p]).target = None
    BY <2>1, CallForms DEF CallIs
  <2> QED
    BY <1>3, <2>1, <2>2 DEF CallIs, LateIsShown
<1>7. ASSUME NEW p \in Platforms, Refuse(p) PROVE right'
  BY <1>3, <1>7, RefuseDoes DEF CallIs, LateIsShown
<1>8. ASSUME NEW p \in Platforms, Resume(p) PROVE right'
  <2> DEFINE c == calls[p]
  <2>1. c.sent /\ c # None /\ c \in Calls /\ UNCHANGED <<downlink, uplink, robot, doubtful>>
    BY <1>8, ResumeDoes DEF CallIs
  <2>2. c.then = None
    <3>1. ASSUME c.then # None PROVE FALSE
      <4>1. calls'[p] = Next1(c) /\ Next1(c) # None
        BY <1>8, <2>1, <3>1, ResumeDoes, TypedCall DEF CallIs
      <4>2. Next1(c).early /\ ~Next1(c).sent
        BY DEF Next1
      <4> QED
        BY <1>2, <4>1, <4>2
    <3> QED
      BY <3>1
  <2>3. /\ calls'[p] = None /\ \A q \in Platforms : q # p => calls'[q] = calls[q]
        /\ data' = IF c.target = None THEN data ELSE ShowTargets(data, c.target)
    BY <1>8, <2>2, ResumeDoes DEF CallIs
  <2>4. CASE c.target = None
    BY <1>3, <2>1, <2>3, <2>4 DEF LateIsShown
  <2>5. CASE c.target # None
    <3>1. c.target \in Jobs
      BY <2>1, <2>5 DEF Calls
    <3>2. /\ ShowsAll(data', c.target) /\ data'.activity = data.activity
      BY <1>1, <2>3, <2>5, <3>1, ShowTyped
    <3>3. Quiet
      BY <1>2, <2>1, <2>3 DEF Quiet
    <3>4. right /\ ShowsAll(data, c.target)
      BY <1>1, <2>1, <2>5, <3>3 DEF LateIsShown
    <3>5. /\ data'.active_room_ids = data.active_room_ids
          /\ data'.active_zone_count = data.active_zone_count
          /\ data'.current_scene_id = data.current_scene_id
      BY <3>2, <3>4 DEF ShowsAll, Shows
    <3> HIDE DEF c
    <3> QED
      BY <2>1, <2>3, <3>2, <3>4, <3>5 DEF TargetsShown, LateIsShown, ShowsAll, Shows
  <2> QED
    BY <2>4, <2>5
<1>9. CASE Apply
  <2>1. /\ downlink # <<>> /\ downlink' = Tail(downlink) /\ UNCHANGED <<data, calls, doubtful>>
    BY <1>9, ApplyDoes
  <2>2. downlink[1].kind # "clean" /\ ~HasJob(uplink) => Quiet
    BY <1>1, <1>2, <2>1, QueueShifted DEF Quiet
  <2>3. CASE downlink[1].kind = "custom"
    <3>1. Customises(downlink[1])
      BY <1>9, <2>3, ApplyDoes
    <3>2. uplink' = uplink /\ robot'.does = robot.does /\ robot'.job = robot.job
      BY <3>1 DEF Customises, TypeInv, RobotTyped, Robots
    <3>3. right
      BY <1>1, <1>2, <2>1, <2>2, <2>3, <3>2
    <3> QED
      BY <2>1, <3>2, <3>3 DEF TargetsShown
  <2>4. CASE downlink[1].kind = "clean"
    <3>1. Takes(downlink[1].job)
      BY <1>9, <2>4, ApplyDoes
    <3>2. uplink' = Append(uplink, JobReport(downlink[1].job))
          /\ JobReport(downlink[1].job) \in Messages /\ IsJob(JobReport(downlink[1].job))
      BY <2>1, <3>1, JobTold
    <3> QED
      BY <1>1, <1>2, <3>2, QueueAppended
  <2>5. CASE downlink[1].kind \notin {"custom", "clean"}
    <3>1. RobotMoves
      BY <1>9, <2>5, ApplyDoes
    <3> QED
      BY <2>1, <2>2, <2>5, <3>1, MovesShown
  <2> QED
    BY <2>3, <2>4, <2>5
<1>10. CASE Handle
  <2>1. TargetsShown'
    BY <1>2, <1>10, JobShown, OtherShown
  <2>2. calls' = calls /\ \A p \in Platforms : ~Outdated(calls[p], data')
    BY <1>10, HandleDoes
  <2>3. \A p \in Platforms : LateIsShown(calls'[p], data')
    BY <2>2 DEF Outdated, LateIsShown, ShowsAll
  <2> QED
    BY <2>1, <2>3
<1>11. ASSUME NEW r \in RoomIds, StartItself(RoomsJob({r}, robot.map)) PROVE right'
  <2> DEFINE job == RoomsJob({r}, robot.map)
  <2>1. Takes(job) /\ data' = data
    BY <1>11, OwnJob
  <2> HIDE DEF job
  <2>2. uplink' = Append(uplink, JobReport(job)) /\ JobReport(job) \in Messages
        /\ IsJob(JobReport(job))
    BY <2>1, JobTold
  <2> QED
    BY <1>1, <1>2, <2>2, QueueAppended
<1>12. CASE GoHome \/ Dock
  <2>1. RobotMoves /\ UNCHANGED <<data, calls, downlink, doubtful>>
    BY <1>12, OwnMoves
  <2>2. ~HasJob(uplink) => Quiet
    BY <1>2, <2>1 DEF Quiet
  <2> QED
    BY <2>1, <2>2, MovesShown
<1>13. CASE UNCHANGED <<data, calls, downlink, uplink, robot, doubtful>>
  <2>1. Quiet
    BY <1>2, <1>13 DEF Quiet
  <2> QED
    BY <1>1, <1>13, <2>1 DEF TargetsShown
<1>14. ASSUME NEW p \in Params \cup {None}, ReportDefaults(p) PROVE right'
  BY <1>13, <1>14 DEF ReportDefaults
<1>15. CASE UNCHANGED vars
  BY <1>13, <1>15 DEF vars
<1> HIDE DEF right
<1> QED
  BY <1>4, <1>5, <1>6, <1>7, <1>8, <1>9, <1>10, <1>11, <1>12, <1>14, <1>15 DEF Next

-----------------------------------------------------------------------------
(***************************************************************************)
(* The theorems.                                                           *)
(***************************************************************************)
LEMMA CleaningInvariants == Spec => [](TypeInv /\ SettingsInv /\ ReportsInv /\ TargetsInv)
<1>1. Init => TypeInv /\ SettingsInv /\ ReportsInv /\ TargetsInv
  BY TypesHold, SettingsHold, ReportsHold, TargetsHold
<1>2. TypeInv /\ SettingsInv /\ ReportsInv /\ TargetsInv /\ [Next]_vars
        => TypeInv' /\ SettingsInv' /\ ReportsInv' /\ TargetsInv'
  BY TypesStep, SettingsStep, ReportsStep, TargetsStep
<1> QED
  BY <1>1, <1>2, PTL DEF Spec

\* A robot never starts a customised clean before the settings its caller asked
\* for are those of every room of the job, whatever calls, faults and other
\* cleans come between the two sends of _async_handle_room_clean.
THEOREM CustomisedCleansAreReady == Spec => CustomisedAsAsked
<1> DEFINE ready ==
             downlink # <<>> /\ downlink' = Tail(downlink) /\ Head(downlink).kind = "clean"
               => LET job == Head(downlink).job IN
                  job.custom # None =>
                    \A r \in job.rooms : robot.custom[job.map][r] = job.custom
<1>1. TypeInv /\ SettingsInv => ready
  <2> SUFFICES ASSUME TypeInv, SettingsInv, downlink # <<>>, Head(downlink).kind = "clean",
                      Head(downlink).job.custom # None
               PROVE  HasSettings(robot.custom, Head(downlink).job)
    BY DEF HasSettings
  <2>1. Head(downlink) = downlink[1] /\ 1 \in 1..Len(downlink) /\ 1 - 1 = 0
    BY TailFacts DEF TypeInv, DownlinkTyped
  <2>2. Ready(downlink, robot.custom, 0, downlink[1].job)
    BY <2>1 DEF SettingsInv, QueueReady
  <2> QED
    BY <2>1, <2>2 DEF Ready
<1> QED
  BY <1>1, CleaningInvariants, PTL DEF CustomisedAsAsked

\* Once no call, command or report is under way the targets shown are those of
\* the robot's job: of any number of calls of both platforms, jobs of the
\* vendor's app and ends, in any order, and whatever was lost before the last
\* job that named its targets.
THEOREM TargetsFollowTheJob == Spec => []TargetsAreTheJobs
<1>1. TypeInv /\ ReportsInv /\ TargetsInv => TargetsAreTheJobs
  <2> SUFFICES ASSUME TypeInv, TargetsInv, Settled, ~doubtful
               PROVE  /\ Shows(data, robot.job)
                      /\ robot.does = "cleaning" => data.current_scene_id = robot.job.scene
                      /\ data.activity = "docked" => data.current_scene_id = 0
    BY DEF TargetsAreTheJobs
  <2>1. Quiet /\ ~HasEnd(uplink)
    BY DEF Settled, Quiet, HasJob, HasEnd
  <2> QED
    BY <2>1 DEF TargetsInv, TargetsShown
<1> QED
  BY <1>1, CleaningInvariants, PTL
=============================================================================
