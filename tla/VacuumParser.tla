---------------------------- MODULE VacuumParser ----------------------------
(***************************************************************************)
(* The novel-protocol DPS parser, api/parser.py: update_state and the      *)
(* handlers it calls, as operators on an abstract VacuumState and an       *)
(* abstract DPS message.                                                   *)
(*                                                                         *)
(* A message is a record with one field per data point the coordinator     *)
(* reacts to; a field is None when the data point (or, inside a protobuf   *)
(* message, the sub-message) is absent:                                    *)
(*   station  DPS 173, [busy, state]: the raised activity flags, the State *)
(*   work     DPS 153, the WorkStatus fields the handler reads             *)
(*   play     DPS 152, [rooms, zones]: the select_*_clean it echoes        *)
(*   error    DPS 177, the first warning code, 0 when there is none        *)
(*   battery  DPS 163                                                      *)
(*   map      DPS 165, [id, rooms]                                         *)
(* Room names, the fields nothing else reads (volume, accessories, ...)    *)
(* and a value that does not decode, which leaves its fields out of the    *)
(* changes, are abstracted.                                                *)
(***************************************************************************)
EXTENDS Integers

CONSTANTS
  None,      \* Python's None, and "this key is not in the dict"
  RoomIds    \* the rooms of the robot's maps

ASSUME NoneIsNoValue == None \notin Int /\ \A S \in SUBSET RoomIds : S # None

Given(x, default) == IF x # None THEN x ELSE default

(***************************************************************************)
(* The statuses a dock can be in.                                          *)
(***************************************************************************)
DockActivityStates ==
  {"Washing", "Drying", "Emptying dust", "Adding clean water",
   "Recycling waste water", "Making disinfectant", "Cutting hair"}

StationStates == {"Idle", "Washing", "Drying", "Removing scale", "Unknown"}

DockStatuses == DockActivityStates \cup StationStates

\* The flags of a StationStatus, in the order _map_dock_status tests them.
StationFlags == <<"Emptying dust", "Adding clean water",
                  "Recycling waste water", "Making disinfectant",
                  "Cutting hair">>

MapDockStatus(station) ==
  LET raised == {i \in 1..5 : StationFlags[i] \in station.busy}
  IN  IF raised = {}
      THEN station.state
      ELSE StationFlags[CHOOSE i \in raised : \A j \in raised : i <= j]

(***************************************************************************)
(* WorkStatus: activity and task status are derived independently.         *)
(***************************************************************************)
Activities == {"idle", "error", "docked", "cleaning", "paused", "returning"}

ASSUME NoneIsNoActivity == None \notin Activities

InStation(work) ==
  \/ work.go_wash \in {1, 2}                        \* WASHING, DRYING
  \/ work.station # None /\ work.station.wash # None

PausedByUser(work) == work.cleaning = 1 /\ work.go_wash = None

MapWorkStatus(work) ==
  CASE work.state = 2                                          -> "error"
    [] work.state = 3                                          -> "docked"
    [] work.state = 5 /\ InStation(work)                       -> "docked"
    [] work.state = 5 /\ ~InStation(work) /\ PausedByUser(work) -> "paused"
    [] work.state = 5 /\ ~InStation(work) /\ ~PausedByUser(work) -> "cleaning"
    [] work.state \in {4, 6, 8}                                -> "cleaning"
    [] work.state = 7                                          -> "returning"
    [] work.state = 15                                         -> "paused"
    [] OTHER                                                   -> "idle"

Resumable(work) == work.breakpoint = 0

\* What a charging robot (state 3) is doing.
ChargingTask(work, dock) ==
  CASE Resumable(work) -> "Charging (Resume)"
    [] ~Resumable(work) /\ work.cleaning = 1 ->
         IF dock \in {"Washing", "Adding clean water", "Recycling waste water"}
         THEN "Washing Mop" ELSE "Paused"
    [] OTHER ->
         IF work.station # None /\ work.station.dust
         THEN "Emptying Dust" ELSE "Completed"

ReturningTask(work) ==
  CASE Resumable(work)                        -> "Returning to Charge"
    [] ~Resumable(work) /\ work.go_home = 1   -> "Returning to Empty"
    [] OTHER                                  -> "Returning"

GoWashDecides(work) ==
  work.go_wash \in {1, 2} \/ (work.go_wash = 0 /\ work.state = 5)

MapTaskStatus(work, dock) ==
  CASE GoWashDecides(work) ->
         (CASE work.go_wash = 2 -> "Completed"
            [] work.go_wash = 1 -> "Washing Mop"
            [] OTHER            -> "Returning to Wash")
    [] ~GoWashDecides(work) /\ work.state = 3 -> ChargingTask(work, dock)
    [] ~GoWashDecides(work) /\ work.state = 7 -> ReturningTask(work)
    [] ~GoWashDecides(work) /\ work.state = 5 ->
         IF PausedByUser(work) THEN "Paused" ELSE "Cleaning"
    [] ~GoWashDecides(work) /\ work.state = 4  -> "Positioning"
    [] ~GoWashDecides(work) /\ work.state = 2  -> "Error"
    [] ~GoWashDecides(work) /\ work.state = 6  -> "Remote Control"
    [] ~GoWashDecides(work) /\ work.state = 15 -> "Paused"
    [] ~GoWashDecides(work) /\ work.state = 8  -> "Cleaning"
    [] OTHER                                   -> "Idle"

TaskStatuses ==
  {"idle", "Idle", "Completed", "Washing Mop", "Returning to Wash",
   "Charging (Resume)", "Paused", "Emptying Dust", "Returning to Charge",
   "Returning to Empty", "Returning", "Cleaning", "Positioning", "Error",
   "Remote Control"}
ASSUME NoneIsNoTask == None \notin TaskStatuses

(***************************************************************************)
(* The dock status a WorkStatus implies.  fromStation is what a station    *)
(* report in the same message already put in changes, or None; committed   *)
(* is the status of the state being updated.                               *)
(***************************************************************************)
HasDockActivity(station) ==
  station.wash # None \/ station.dust \/ station.water # None

StationActivity(station) ==
  CASE station.water = 0                                     -> "Adding clean water"
    [] station.water # None /\ station.water # 0             -> "Recycling waste water"
    [] station.water = None /\ station.dust                  -> "Emptying dust"
    [] station.water = None /\ ~station.dust /\ station.wash = 1 -> "Drying"
    [] OTHER                                                 -> "Washing"

WorkDockStatus(work, fromStation, committed) ==
  IF work.station # None /\ HasDockActivity(work.station)
  THEN StationActivity(work.station)
  ELSE IF /\ work.station # None \/ work.state = 3
          /\ Given(fromStation, committed) \in DockActivityStates
       THEN "Idle"
       ELSE fromStation

(***************************************************************************)
(* Scene and cleaning targets.                                             *)
(***************************************************************************)
WorkScene(work) ==
  IF work.scene # None
  THEN work.scene
  ELSE IF (work.mode # None /\ work.mode # 8) \/ work.state \in {3, 7}
       THEN 0
       ELSE None

\* should_clear_targets: the task this report ends was still open before it.
TaskOver(state, activity, task) ==
  \/ activity \in {"idle", "error"} /\ state.activity \notin {"idle", "error"}
  \/ activity = "docked" /\ task = "Completed" /\ state.task_status # "Completed"

HasTargets(state) == state.active_room_ids # {} \/ state.active_zone_count # 0

(***************************************************************************)
(* update_state: the changes dict, as a record whose absent keys are None. *)
(* The handlers run in the order station, work, play, others; a later one  *)
(* overwrites what an earlier one put under the same key.                  *)
(***************************************************************************)
NoChanges ==
  [activity |-> None, task_status |-> None, dock_status |-> None,
   error_code |-> None, battery_level |-> None,
   map_id |-> None, rooms |-> None,
   current_scene_id |-> None, active_room_ids |-> None,
   active_zone_count |-> None]

ProcessStationStatus(m, ch) ==
  IF m.station = None
  THEN ch
  ELSE [ch EXCEPT !.dock_status = MapDockStatus(m.station)]

ProcessWorkStatus(state, m, ch) ==
  IF m.work = None
  THEN ch
  ELSE LET work     == m.work
           activity == MapWorkStatus(work)
           task     == MapTaskStatus(work, Given(ch.dock_status, state.dock_status))
           clear    == /\ HasTargets(state)
                       /\ work.scene # None \/ TaskOver(state, activity, task)
       IN  [ch EXCEPT
              !.activity          = activity,
              !.task_status       = task,
              !.dock_status       = WorkDockStatus(work, ch.dock_status, state.dock_status),
              !.current_scene_id  = WorkScene(work),
              !.active_room_ids   = IF clear THEN {} ELSE ch.active_room_ids,
              !.active_zone_count = IF clear THEN 0 ELSE ch.active_zone_count]

\* Fault: an echoed selection leaves the scene of the last task in place.
ProcessPlayKeepsScene(m, ch) ==
  IF m.play = None \/ (m.play.rooms = {} /\ m.play.zones = None)
  THEN ch
  ELSE [ch EXCEPT !.active_room_ids   = m.play.rooms,
                  !.active_zone_count = Given(m.play.zones, 0)]

\* A play report without rooms and zones is a control command or an empty
\* room selection: both leave the targets alone.
ProcessPlayPause(m, ch) ==
  IF m.play = None \/ (m.play.rooms = {} /\ m.play.zones = None)
  THEN ch
  ELSE [ch EXCEPT !.active_room_ids   = m.play.rooms,
                  !.active_zone_count = Given(m.play.zones, 0),
                  !.current_scene_id  = 0]

ProcessOtherDps(m, ch) ==
  [ch EXCEPT !.error_code    = m.error,
             !.battery_level = m.battery,
             !.map_id        = IF m.map = None THEN None ELSE m.map.id,
             !.rooms         = IF m.map = None THEN None ELSE m.map.rooms]

UpdateState(state, m) ==
  ProcessOtherDps(m,
    ProcessPlayPause(m,
      ProcessWorkStatus(state, m,
        ProcessStationStatus(m, NoChanges))))

\* dataclasses.replace(state, **changes)
Replace(state, ch) ==
  [activity          |-> Given(ch.activity, state.activity),
   task_status       |-> Given(ch.task_status, state.task_status),
   dock_status       |-> Given(ch.dock_status, state.dock_status),
   error_code        |-> Given(ch.error_code, state.error_code),
   battery_level     |-> Given(ch.battery_level, state.battery_level),
   map_id            |-> Given(ch.map_id, state.map_id),
   rooms             |-> Given(ch.rooms, state.rooms),
   current_scene_id  |-> Given(ch.current_scene_id, state.current_scene_id),
   active_room_ids   |-> Given(ch.active_room_ids, state.active_room_ids),
   active_zone_count |-> Given(ch.active_zone_count, state.active_zone_count)]

\* A fresh VacuumState().
DefaultState ==
  [activity |-> "idle", task_status |-> "idle", dock_status |-> None,
   error_code |-> 0, battery_level |-> 0, map_id |-> 0, rooms |-> {},
   current_scene_id |-> 0, active_room_ids |-> {}, active_zone_count |-> 0]
=============================================================================
