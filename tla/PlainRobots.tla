---------------------------- MODULE PlainRobots ----------------------------
(***************************************************************************)
(* Robots whose data points are plain values: the scalar ones over MQTT    *)
(* (api/parser_scalar.py, the scalar part of api/commands.py) and the      *)
(* legacy ones of the Tuya cloud (api/legacy_parser.py,                    *)
(* api/legacy_commands.py).  A report is a dict: data points in the order  *)
(* the robot wrote them, those that changed or all of them.                *)
(***************************************************************************)
EXTENDS Naturals, Sequences, SequencesExt

CONSTANTS
  Faults,       \* error codes other than 0
  Suctions,     \* names of the suction levels, in order
  MaxChanges, MaxQueued   \* bounds of the model: changes of the robot's data
                          \* points, and reports on their way

ASSUME FaultsAreCodes == Faults \subseteq Nat \ {0}
ASSUME SuctionsAreNames == Suctions \in Seq(STRING) /\ Len(Suctions) >= 2

VARIABLES
  apiType,   \* scalar or legacy
  robot,     \* the data points of the robot
  uplink,    \* reports not yet handled
  downlink,  \* commands not yet taken
  view,      \* coordinator.data
  told,      \* history: the command the robot obeys now; none
  unmoved,   \* history: the motion flag was taken back in a report without a state
  changes    \* counted

plainVars == <<apiType, robot, uplink, downlink, view, told, unmoved, changes>>

Scalar == apiType = "scalar"

\* SCALAR_STATE_NAMES, _map_scalar_task_status
ScalarActivity(code) ==
  CASE code = 2 -> "cleaning"
    [] code = 4 -> "returning"
    [] code \in {5, 6} -> "docked"
    [] code = 7 -> "paused"
    [] OTHER -> "idle"

ScalarTask(code) ==
  CASE code = 2 -> "Cleaning"
    [] code = 4 -> "Returning"
    [] code = 5 -> "Charging"
    [] code = 6 -> "Docked"
    [] code = 7 -> "Paused"
    [] OTHER -> "Standby"

\* LEGACY_WORK_STATUS_MAP, spelling variants left out; other words have no entry.
LegacyActivity ==
  [Running |-> "cleaning", Charging |-> "docked", Completed |-> "docked",
   standby |-> "idle", Recharge |-> "returning", Fault |-> "error"]

-----------------------------------------------------------------------------
(***************************************************************************)
(* The parsers.  "ch" holds the changes one report makes to the state.     *)
(***************************************************************************)
Give(ch, fields) == [f \in DOMAIN ch \cup DOMAIN fields |->
                       IF f \in DOMAIN fields THEN fields[f] ELSE ch[f]]

NoChange == [f \in {} |-> 0]

\* Fault: either key sets and clears the error.
ScalarErrorAnyKey(ch, code) == Give(ch, [error_code |-> code])

\* A fault wins whichever key carries it; it clears only if nothing is set yet.
ScalarError(ch, code) ==
  IF code # 0 \/ "error_code" \notin DOMAIN ch THEN Give(ch, [error_code |-> code])
  ELSE ch

\* One data point; what cannot be read changes nothing, and the next one follows.
ScalarPoint(ch, key, value) ==
  CASE key = "STATE" ->
         Give(ch, [activity |-> ScalarActivity(value), charging |-> value = 5,
                   task_status |-> ScalarTask(value)])
    [] key \in {"ERROR_CODE", "ERROR_CODE_ALT"} -> ScalarError(ch, value)
    [] key = "SUCTION" /\ value < Len(Suctions) ->
         Give(ch, [fan_speed |-> Suctions[value + 1]])
    [] OTHER -> ch

\* Fault: the motion flag is weighed when it is met.
ScalarChangesInOrder(state, report) ==
  LET Point(ch, p) ==
        IF p[1] = "PAUSE"
        THEN IF p[2] = 1 /\ Give(state, ch).activity = "cleaning"
             THEN Give(ch, [activity |-> "paused", task_status |-> "Paused"]) ELSE ch
        ELSE ScalarPoint(ch, p[1], p[2])
  IN  FoldLeft(Point, NoChange, report)

\* process_scalar_dps: the motion flag is weighed after the loop, "so it doesn't
\* matter whether 122 or 15 was processed first".
ScalarChanges(state, report) ==
  LET upTo[n \in 0..Len(report)] ==
        IF n = 0 THEN NoChange ELSE ScalarPoint(upTo[n - 1], report[n][1], report[n][2])
      ch == upTo[Len(report)]
      isStationary == <<"PAUSE", 1>> \in ToSet(report)
  IN  IF isStationary /\ Give(state, ch).activity = "cleaning"
      THEN Give(ch, [activity |-> "paused", task_status |-> "Paused"])
      ELSE ch

\* update_state_legacy: a status without an entry changes nothing.
LegacyPoint(ch, key, value) ==
  CASE key = "WORK_STATUS" /\ value \in DOMAIN LegacyActivity ->
         Give(ch, [activity |-> LegacyActivity[value], task_status |-> value,
                   charging |-> value \in {"Charging", "Completed"}])
    [] key = "ERROR_CODE" -> Give(ch, [error_code |-> value])
    [] key = "CLEAN_SPEED" -> Give(ch, [fan_speed |-> value])
    [] OTHER -> ch    \* among them PLAY_PAUSE: no more than a hint

LegacyChanges(report) ==
  LET upTo[n \in 0..Len(report)] ==
        IF n = 0 THEN NoChange ELSE LegacyPoint(upTo[n - 1], report[n][1], report[n][2])
  IN  upTo[Len(report)]

\* coordinator._parse_dps
Parse(state, report) ==
  Give(state, IF Scalar THEN ScalarChanges(state, report) ELSE LegacyChanges(report))

DefaultState ==
  [activity |-> "idle", task_status |-> "", charging |-> FALSE,
   error_code |-> 0, fan_speed |-> "Standard"]

-----------------------------------------------------------------------------
(***************************************************************************)
(* The commands of the vacuum entity.                                      *)
(***************************************************************************)
\* build_command with api_type = "scalar"
ScalarCommand(command, level) ==
  CASE command = "start_auto" -> [WORK_MODE |-> 1]
    [] command = "play" -> [PAUSE |-> 2]
    [] command = "pause" -> [PAUSE |-> 1]
    [] command = "return_to_base" -> [WORK_MODE |-> 3]
    [] command = "set_fan_speed" -> [SUCTION |-> level - 1]

\* build_legacy_command
LegacyCommand(command, level) ==
  CASE command = "start_auto" -> [PLAY_PAUSE |-> TRUE, WORK_MODE |-> "auto"]
    [] command = "play" -> [PLAY_PAUSE |-> TRUE]
    [] command = "pause" -> [PLAY_PAUSE |-> FALSE]
    [] command = "return_to_base" -> [GO_HOME |-> TRUE]
    [] command = "set_fan_speed" -> [CLEAN_SPEED |-> Suctions[level]]

\* Service calls; async_start resumes a robot that is shown paused.
Call(command, level) ==
  /\ downlink = <<>>
  /\ command = "play" => view.activity = "paused"
  /\ command = "start_auto" => view.activity # "paused"
  /\ downlink' = <<[command |-> command,
                    dps |-> IF Scalar THEN ScalarCommand(command, level)
                            ELSE LegacyCommand(command, level)]>>
  /\ UNCHANGED <<apiType, robot, uplink, view, told, unmoved, changes>>

-----------------------------------------------------------------------------
(***************************************************************************)
(* The robot.  It reports each change, alone or with all else, in one of   *)
(* two orders here; OrderIsFree shows that the other orders decode alike.  *)
(***************************************************************************)
Report(keys, new) ==
  LET points == SetToSeq({<<k, new[k]>> : k \in keys})
  IN  {points, Reverse(points)}

Changed(new) == {k \in DOMAIN robot : robot[k] # new[k]}

\* "states" of the robot that the HA side can tell apart from the state and the
\* motion flag, or from the work status.
ScalarTo(state, motion) == [robot EXCEPT !.STATE = state, !.PAUSE = motion]

Becomes(new, why) ==
  /\ changes < MaxChanges /\ Len(uplink) < MaxQueued
  /\ new # robot
  /\ changes' = changes + 1
  /\ robot' = new
  /\ told' = why
  /\ \E keys \in {Changed(new), DOMAIN robot} :
       \E r \in Report(keys, new) : uplink' = Append(uplink, r)

\* A standing robot that was cleaning says so with its state or its motion flag.
Obey(dps) ==
  CASE Scalar /\ dps = [WORK_MODE |-> 1] -> {ScalarTo(2, 0)}
    [] Scalar /\ dps = [WORK_MODE |-> 3] -> {ScalarTo(4, 0)}
    [] Scalar /\ dps = [PAUSE |-> 1] /\ robot.STATE = 2 -> {ScalarTo(2, 1), ScalarTo(7, 1)}
    [] Scalar /\ dps = [PAUSE |-> 2] /\ robot.STATE \in {2, 7} -> {ScalarTo(2, 0)}
    [] Scalar /\ "SUCTION" \in DOMAIN dps -> {[robot EXCEPT !.SUCTION = dps.SUCTION]}
    [] ~Scalar /\ "PLAY_PAUSE" \in DOMAIN dps ->
         {[robot EXCEPT !.PLAY_PAUSE = dps.PLAY_PAUSE,
                        !.WORK_STATUS = IF dps.PLAY_PAUSE THEN "Running" ELSE "standby"]}
    [] ~Scalar /\ "GO_HOME" \in DOMAIN dps -> {[robot EXCEPT !.WORK_STATUS = "Recharge"]}
    [] ~Scalar /\ "CLEAN_SPEED" \in DOMAIN dps ->
         {[robot EXCEPT !.CLEAN_SPEED = dps.CLEAN_SPEED]}
    [] OTHER -> {robot}

\* What is not understood, or is so already, is taken and changes nothing.
TakeCommand ==
  /\ downlink # <<>>
  /\ downlink' = <<>>
  /\ \E new \in Obey(downlink[1].dps) :
       IF new = robot THEN UNCHANGED <<robot, uplink, told, changes>>
       ELSE Becomes(new, downlink[1].command)
  /\ UNCHANGED <<apiType, view, unmoved>>

\* The robot reaches its dock, fails, recovers, or is used by hand.
Itself ==
  /\ \E new \in
       IF Scalar
       THEN {ScalarTo(s, 1) : s \in {1, 5, 7}}
            \cup {ScalarTo(2, m) : m \in IF robot.STATE = 2 THEN {0, 1} ELSE {0}}
            \cup {[robot EXCEPT !.ERROR_CODE_ALT = f] : f \in Faults \cup {0}}
       ELSE {[robot EXCEPT !.WORK_STATUS = s] : s \in {"Running", "Charging", "Completed"}}
            \cup {[robot EXCEPT !.WORK_STATUS = "Fault", !.ERROR_CODE = f] : f \in Faults}
            \cup {[robot EXCEPT !.WORK_STATUS = "standby", !.ERROR_CODE = 0]} :
       Becomes(new, "none")
  /\ UNCHANGED <<apiType, downlink, view, unmoved>>

\* A robot at rest repeats all it has.
Dump ==
  /\ uplink = <<>>
  /\ \E r \in Report(DOMAIN robot, robot) : uplink' = <<r>>
  /\ UNCHANGED <<apiType, robot, downlink, view, told, unmoved, changes>>

Keys(report) == {p[1] : p \in ToSet(report)}

HandleReport ==
  /\ uplink # <<>>
  /\ uplink' = Tail(uplink)
  /\ view' = Parse(view, uplink[1])
  /\ unmoved' = /\ "STATE" \notin Keys(uplink[1])
                /\ IF "PAUSE" \in Keys(uplink[1])
                   THEN view.activity = "paused" /\ <<"PAUSE", 1>> \notin ToSet(uplink[1])
                   ELSE unmoved
  /\ UNCHANGED <<apiType, robot, downlink, told, changes>>

\* The device list came with a report of all data points.
PlainInit ==
  /\ apiType \in {"scalar", "legacy"}
  /\ robot = IF Scalar
             THEN [STATE |-> 5, PAUSE |-> 1, ERROR_CODE |-> 0, ERROR_CODE_ALT |-> 0,
                   SUCTION |-> 1]
             ELSE [WORK_STATUS |-> "Charging", PLAY_PAUSE |-> FALSE, ERROR_CODE |-> 0,
                   CLEAN_SPEED |-> Suctions[2]]
  /\ uplink = <<>> /\ downlink = <<>>
  /\ view = Parse(DefaultState, SetToSeq({<<k, robot[k]>> : k \in DOMAIN robot}))
  /\ told = "none" /\ unmoved = FALSE /\ changes = 0

PlainNext ==
  \/ \E command \in {"start_auto", "play", "pause", "return_to_base", "set_fan_speed"},
        level \in 1..Len(Suctions) : Call(command, level)
  \/ TakeCommand
  \/ Itself
  \/ Dump
  \/ HandleReport

PlainSpec == PlainInit /\ [][PlainNext]_plainVars

-----------------------------------------------------------------------------
(***************************************************************************)
(* Properties.                                                             *)
(***************************************************************************)
\* The orders of up to five data points: no robot here has more.
Orders == [n \in 0..5 |-> Bijection(1..n, 1..n)]

\* Where the data points stand in a report does not matter: the motion flag
\* counts the same before and after the state, and a fault before and after the
\* key that carries none (process_scalar_dps).
OrderIsFree ==
  uplink # <<>> =>
    LET report == uplink[1]
    IN  \A p \in Orders[Len(report)] :
          Parse(view, [i \in 1..Len(report) |-> report[p[i]]]) = Parse(view, report)

RobotActivity ==
  IF ~Scalar THEN LegacyActivity[robot.WORK_STATUS]
  ELSE IF robot.STATE = 2 /\ robot.PAUSE = 1 THEN "paused"
  ELSE ScalarActivity(robot.STATE)

Settled == uplink = <<>>

\* A robot that reports changes only is shown as it is once its reports are
\* handled, except for one that moves on without a word about its state.
ActivityFollows ==
  Settled /\ ~unmoved => view.activity = RobotActivity

\* The fault the robot has, and no other, is shown, though two keys may carry
\* it and only one does.
FaultIsShown ==
  Settled => view.error_code = IF Scalar THEN robot.ERROR_CODE_ALT ELSE robot.ERROR_CODE

\* A robot still doing what it was told is shown doing it.
CommandsWork ==
  Settled /\ ~unmoved =>
    CASE told \in {"start_auto", "play"} -> view.activity = "cleaning"
      [] told = "pause" -> view.activity = IF Scalar THEN "paused" ELSE "idle"
      [] told = "return_to_base" -> view.activity = "returning"
      [] told = "set_fan_speed" ->
           view.fan_speed = IF Scalar THEN Suctions[robot.SUCTION + 1] ELSE robot.CLEAN_SPEED
      [] OTHER -> TRUE

\* What a robot with plain data points reports is what is shown of it.
RobotIsShown ==
  apiType \in {"scalar", "legacy"} => ActivityFollows /\ FaultIsShown /\ CommandsWork

\* A robot that moves is not shown paused ("122=0 -> back to cleaning").  The
\* code does not keep it: a flag reported alone that goes back to 0 changes
\* nothing, and no run checks it.
MovingIsNotPaused ==
  Scalar /\ uplink = <<>> /\ robot.PAUSE = 0 => view.activity # "paused"
=============================================================================
