------------------------------ MODULE Settings ------------------------------
(***************************************************************************)
(* The settings of one robot as the switch, select, number and time        *)
(* entities read and change them (switch.py, select.py, number.py,         *)
(* time.py, api/commands.py).                                              *)
(*                                                                         *)
(* A setting is a Boolean.  Settings that the device reports and takes     *)
(* together form a group: the dock configuration, the Do Not Disturb       *)
(* schedule, the off-peak schedule; each other setting is alone in its     *)
(* group.  A command and a report carry a whole group.                     *)
(*                                                                         *)
(* An entity's call builds its command from the coordinator's data, awaits *)
(* the send and goes on afterwards; everything else happens between.       *)
(* Home Assistant runs the calls of the switch, the select and the number  *)
(* platform one at a time each (PARALLEL_UPDATES = 1), those of the time   *)
(* platform together, and calls no entity that is unavailable.             *)
(***************************************************************************)
EXTENDS Naturals, Sequences, Functions

CONSTANTS
  Groups,      \* the groups, disjoint sets of settings
  DockGroup,   \* the settings of dock_auto_cfg
  TimeFields,  \* begin and end of a schedule
  Platform,    \* the platform of each setting's entity
  AlwaysAvailable,  \* settings whose entity has no _available_field
  None,
  MaxSets, MaxChanges, MaxFaults    \* bounds of the model

Fields == UNION Groups

ASSUME GroupsAreDisjoint == \A g, h \in Groups : g # h => g \cap h = {}
ASSUME KindsOfGroups == DockGroup \in Groups /\ TimeFields \subseteq Fields \ DockGroup
ASSUME AvailableOnTheirOwn == \A f \in AlwaysAvailable : {f} \in Groups
ASSUME NoneIsNoValue == None \notin BOOLEAN

GroupOf(f) == CHOOSE g \in Groups : f \in g

VARIABLES
  robot,      \* the settings the device has
  data,       \* coordinator.data: their values, and the groups received
  calls,      \* service calls under way
  downlink,   \* commands published, not yet taken by the device
  uplink,     \* reports sent, not yet handled
  choice,     \* history: what was last chosen for a setting, see Disturb
  contested,  \* history: groups commanded while they were in motion
  doubtful,   \* history: groups whose shown value the await made uncertain
  undone,     \* history: groups set back by a time entity
  sets, changes, faults   \* counted

history == <<choice, contested, doubtful, undone>>
counts == <<sets, changes, faults>>
vars == <<robot, data, calls, downlink, uplink, history, counts>>

Values(g) == [g -> BOOLEAN]
GroupValues == UNION {Values(g) : g \in Groups}
Data == [value : [Fields -> BOOLEAN], received : SUBSET Groups]

ASSUME NoneIsNoData == None \notin Data

Call(f, v, command, seen) ==
  [field |-> f, value |-> v, command |-> command, seen |-> seen, sent |-> FALSE]

CallsOn(g) == {c \in calls : c.field \in g}
InMotion(g) ==
  \/ CallsOn(g) # {}
  \/ \E c \in Range(downlink) : c.field \in g
  \/ \E r \in Range(uplink) : DOMAIN r = g

\* The choices made for a group no longer bind the device: it was commanded, or
\* changed by itself, while another command or report of it was under way.
Disturb(g) ==
  /\ contested' = contested \cup {g}
  /\ choice' = [f \in Fields |-> IF f \in g THEN None ELSE choice[f]]

-----------------------------------------------------------------------------
(***************************************************************************)
(* The entities.                                                           *)
(***************************************************************************)
\* Fault: the configuration is built from nothing instead of the device's.
DockCommandFromScratch(f, v) == [h \in DockGroup |-> h = f /\ v]

\* set_collect_dust, set_wash_cfg, _set_dry_duration and the other setters, on a
\* deep copy of dock_auto_cfg.
DockCommand(f, v) == [h \in DockGroup |-> IF h = f THEN v ELSE data.value[h]]

\* _current_dnd_schedule and _current_off_peak_schedule with one value replaced;
\* the value alone where the group has no other.
OwnCommand(f, v) == [h \in GroupOf(f) |-> IF h = f THEN v ELSE data.value[h]]

Command(f, v) == IF f \in DockGroup THEN DockCommand(f, v) ELSE OwnCommand(f, v)

\* Fault: the entity is called before the device reported its group.
AvailableAlways(f) == TRUE

\* Selects of the cleaning mode, the water level, the mop and the cleaning
\* intensity can be used before a report has come.
Available(f) == f \in AlwaysAvailable \/ GroupOf(f) \in data.received

Serial(f) == Platform[f] # "time"

\* A service call up to its await; seen is the data it keeps across it.  Bound of
\* the model: an entity is called again when its last call is over.
Set(f, v, seen) ==
  LET g == GroupOf(f) IN
  /\ sets < MaxSets /\ sets' = sets + 1
  /\ Available(f)
  /\ \A c \in calls : c.field # f
  /\ Serial(f) => \A c \in calls : Platform[c.field] # Platform[f]
  /\ calls' = calls \cup {Call(f, v, Command(f, v), seen)}
  /\ IF InMotion(g) \/ g \in doubtful \cup undone
     THEN Disturb(g)
     ELSE contested' = contested \ {g} /\ UNCHANGED choice
  /\ doubtful' = IF CallsOn(g) # {} /\ g # DockGroup THEN doubtful \cup {g}
                 ELSE doubtful
  /\ UNCHANGED <<robot, data, downlink, uplink, undone, changes, faults>>

\* A dock switch, select or number.
SetDock(f, v) == f \in DockGroup /\ Set(f, v, None)

\* Do Not Disturb and off-peak charging, child lock, suction level, volume, ...
SetOwn(f, v) == f \notin DockGroup \cup TimeFields /\ Set(f, v, None)

\* async_set_value of a begin or end time: "data" is read here and used after the
\* await.
SetTime(f, v) == f \in TimeFields /\ Set(f, v, data)

\* async_send_command hands the command to the transport.
Publish(c) ==
  /\ c \in calls /\ ~c.sent
  /\ calls' = (calls \ {c}) \cup {[c EXCEPT !.sent = TRUE]}
  /\ downlink' = Append(downlink, [field |-> c.field, values |-> c.command])
  /\ choice' = IF GroupOf(c.field) \in contested THEN choice
               ELSE [choice EXCEPT ![c.field] = c.value]
  /\ UNCHANGED <<robot, data, uplink, contested, doubtful, undone, counts>>

\* The MQTT client is not connected: it logs that and returns.
Lose(c) ==
  /\ faults < MaxFaults /\ faults' = faults + 1
  /\ c \in calls /\ ~c.sent
  /\ calls' = (calls \ {c}) \cup {[c EXCEPT !.sent = TRUE]}
  /\ doubtful' = IF c.field \in DockGroup THEN doubtful
                 ELSE doubtful \cup {GroupOf(c.field)}
  /\ UNCHANGED <<robot, data, downlink, uplink, choice, contested, undone>>
  /\ UNCHANGED <<sets, changes>>

\* The Tuya transports raise, which ends the call.
Refuse(c) ==
  /\ faults < MaxFaults /\ faults' = faults + 1
  /\ c \in calls /\ ~c.sent
  /\ calls' = calls \ {c}
  /\ UNCHANGED <<robot, data, downlink, uplink, history, sets, changes>>

\* _optimistically_update_state: in the data of now.
ShownOptimistically(c) == [data EXCEPT !.value[c.field] = c.value]

\* A time entity replaces the data by those it read before.
ShownByTime(c) == [c.seen EXCEPT !.value[c.field] = c.value]

\* What a call shows once the send has returned: nothing new for the dock.
Shown(c) ==
  IF c.field \in DockGroup THEN data
  ELSE IF c.field \in TimeFields THEN ShownByTime(c) ELSE ShownOptimistically(c)

SetBack(c) ==
  {g \in Groups \ {GroupOf(c.field)} :
     \E f \in g : Shown(c).value[f] # data.value[f]}

Return(c) ==
  /\ c \in calls /\ c.sent
  /\ calls' = calls \ {c}
  /\ data' = Shown(c)
  /\ undone' = undone \cup SetBack(c)
  /\ UNCHANGED <<robot, downlink, uplink, choice, contested, doubtful, counts>>

-----------------------------------------------------------------------------
(***************************************************************************)
(* The device, and the handler of its reports.                             *)
(***************************************************************************)
ReportOf(settings, g) == [f \in g |-> settings[f]]

\* The device takes the values and reports the group.
Apply ==
  /\ downlink # <<>>
  /\ LET c == Head(downlink) IN
     /\ robot' = [f \in Fields |->
                    IF f \in DOMAIN c.values THEN c.values[f] ELSE robot[f]]
     /\ uplink' = Append(uplink, ReportOf(robot', GroupOf(c.field)))
  /\ downlink' = Tail(downlink)
  /\ UNCHANGED <<data, calls, history, counts>>

\* A setting changed in the vendor's app or at the device.
ChangeItself(f) ==
  LET g == GroupOf(f) IN
  /\ changes < MaxChanges /\ changes' = changes + 1
  /\ robot' = [robot EXCEPT ![f] = ~@]
  /\ uplink' = Append(uplink, ReportOf(robot', g))
  /\ IF InMotion(g) THEN Disturb(g)
     ELSE choice' = [choice EXCEPT ![f] = None] /\ UNCHANGED contested
  /\ doubtful' = IF CallsOn(g) # {} /\ g # DockGroup THEN doubtful \cup {g}
                 ELSE doubtful
  /\ UNCHANGED <<data, calls, downlink, undone, sets, faults>>

\* A report nobody asked for, as after a connection.
Report(g) ==
  /\ changes < MaxChanges /\ changes' = changes + 1
  /\ uplink' = Append(uplink, ReportOf(robot, g))
  /\ UNCHANGED <<robot, data, calls, downlink, history, sets, faults>>

\* Fault: a report is dropped while a command is awaited.
HandleUnlessBusy ==
  /\ uplink # <<>>
  /\ LET r == Head(uplink)
         g == DOMAIN r
     IN  /\ data' = IF CallsOn(g) # {} THEN data
                    ELSE [value |-> [f \in Fields |->
                             IF f \in g THEN r[f] ELSE data.value[f]],
                           received |-> data.received \cup {g}]
         /\ doubtful' = IF CallsOn(g) = {} THEN doubtful \ {g} ELSE doubtful
         /\ undone' = undone \ {g}
  /\ uplink' = Tail(uplink)
  /\ UNCHANGED <<robot, calls, downlink, choice, contested, counts>>

\* update_state of a report: the group's values replace the coordinator's.
Handle ==
  /\ uplink # <<>>
  /\ LET r == Head(uplink)
         g == DOMAIN r
     IN  /\ data' = [value |-> [f \in Fields |->
                        IF f \in g THEN r[f] ELSE data.value[f]],
                      received |-> data.received \cup {g}]
         /\ doubtful' = IF CallsOn(g) = {} THEN doubtful \ {g} ELSE doubtful
         /\ undone' = undone \ {g}
  /\ uplink' = Tail(uplink)
  /\ UNCHANGED <<robot, calls, downlink, choice, contested, counts>>

-----------------------------------------------------------------------------
Defaults == [value |-> [f \in Fields |-> FALSE], received |-> {}]

Init ==
  /\ robot \in [Fields -> BOOLEAN]
  /\ data \in {Defaults, [value |-> robot, received |-> Groups]}
  /\ calls = {} /\ downlink = <<>> /\ uplink = <<>>
  /\ choice = [f \in Fields |-> None]
  /\ contested = {} /\ doubtful = {} /\ undone = {}
  /\ sets = 0 /\ changes = 0 /\ faults = 0

Next ==
  \/ \E f \in Fields, v \in BOOLEAN : SetDock(f, v) \/ SetOwn(f, v) \/ SetTime(f, v)
  \/ \E c \in calls : Publish(c) \/ Lose(c) \/ Refuse(c) \/ Return(c)
  \/ Apply \/ Handle
  \/ \E f \in Fields : ChangeItself(f)
  \/ \E g \in Groups : Report(g)

Spec == Init /\ [][Next]_vars

-----------------------------------------------------------------------------
(***************************************************************************)
(* What should hold.                                                       *)
(***************************************************************************)
TypeOK ==
  /\ robot \in [Fields -> BOOLEAN]
  /\ data \in Data
  /\ calls \subseteq [field : Fields, value : BOOLEAN, command : GroupValues,
                     seen : Data \cup {None}, sent : BOOLEAN]
  /\ \A c \in calls :
       /\ c.command \in Values(GroupOf(c.field))
       /\ IF c.field \in TimeFields THEN c.seen \in Data ELSE c.seen = None
  /\ downlink \in Seq([field : Fields, values : GroupValues])
  /\ \A i \in DOMAIN downlink :
       downlink[i].values \in Values(GroupOf(downlink[i].field))
  /\ uplink \in Seq(GroupValues)
  /\ choice \in [Fields -> BOOLEAN \cup {None}]
  /\ contested \subseteq Groups /\ doubtful \subseteq Groups
  /\ undone \subseteq Groups

Settled == calls = {} /\ downlink = <<>> /\ uplink = <<>>

\* Once nothing is under way the entities show what the device has, though they
\* show a value before the device confirmed it: except for a group whose command
\* was lost, or that changed while a call on it was awaited, until its next
\* report; the dock configuration always.  What a time entity has set back is
\* excepted here, and only here.
ViewIsTrue ==
  Settled => \A g \in data.received \ (doubtful \cup undone) :
               \A f \in g : data.value[f] = robot[f]

\* "If the device command fails silently, the UI will show the wrong state until
\* the next DPS update" (select.py 51-52): only then.
WrongOnlyAfterFailure ==
  Settled => \A g \in data.received \ doubtful :
               \A f \in g : data.value[f] = robot[f]

\* Two dock settings of three platforms write one configuration: what was chosen
\* for each lasts, whatever is chosen for the others afterwards, unless the
\* group was in motion when a command was built.
ChoicesLast ==
  Settled => \A f \in Fields : choice[f] # None => robot[f] = choice[f]

\* A command changes no setting but the one its user chose, with that exception.
OthersUntouched ==
  [][\A f \in Fields :
       /\ downlink # <<>> /\ downlink' = Tail(downlink)
       /\ robot'[f] # robot[f]
       => \/ f = Head(downlink).field
          \/ GroupOf(f) \in contested]_vars
=============================================================================
