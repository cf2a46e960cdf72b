--------------------------- MODULE SettingsProofs ---------------------------
(***************************************************************************)
(* The settings shown become those of the device, and a choice lasts, for  *)
(* any settings, groups, platforms and number of calls.                    *)
(*                                                                         *)
(* A group's fate is what its last command on the way says, or what the    *)
(* robot has when there is none (Final).  The invariant relates to it what *)
(* the entities show, what a call will show, and what was chosen.          *)
(***************************************************************************)
EXTENDS Settings, TLAPS

Commanded(g) == \E i \in DOMAIN downlink : downlink[i].field \in g
Reported(g)  == \E i \in DOMAIN uplink : DOMAIN uplink[i] = g

RobotIs(g, v) == \A h \in g : robot[h] = v[h]

\* The last command of the group on its way is v.
LastIs(g, v) ==
  \E i \in DOMAIN downlink :
    /\ downlink[i].field \in g /\ downlink[i].values = v
    /\ \A j \in DOMAIN downlink : j > i => downlink[j].field \notin g

Final(g, v) == LastIs(g, v) \/ (~Commanded(g) /\ RobotIs(g, v))

\* The last report on its way is true.
LastIsTrue(g) ==
  \E i \in DOMAIN uplink :
    /\ DOMAIN uplink[i] = g /\ RobotIs(g, uplink[i])
    /\ \A j \in DOMAIN uplink : j > i => DOMAIN uplink[j] # g

Told(g) == Commanded(g) \/ ~Reported(g) \/ LastIsTrue(g)

\* Received once, though a time entity may put back older data.
Known(g) ==
  \/ g \in data.received
  \/ \E c \in calls : c.field \in TimeFields /\ g \in c.seen.received

DataIs(g) == \A h \in g : data.value[h] = robot[h]

\* The entities show the robot once nothing of the group is on its way.
ViewInv ==
  \A g \in Groups :
    /\ Told(g)
    /\ Known(g) /\ g \notin doubtful \cup undone /\ ~Commanded(g) /\ ~Reported(g)
         => DataIs(g)

\* What a call shows when it returns is what becomes of its group.
Alone(c) == CallsOn(GroupOf(c.field)) = {c}

CallInv ==
  \A c \in calls :
    /\ c.command[c.field] = c.value
    /\ c.field \in TimeFields =>
         \A h \in GroupOf(c.field) \ {c.field} : c.command[h] = c.seen.value[h]
    /\ c.field \notin DockGroup /\ GroupOf(c.field) \notin doubtful =>
         Alone(c) /\ (c.sent => Final(GroupOf(c.field), c.command))

ChoiceInv ==
  /\ \A f \in Fields : choice[f] # None =>
       \E v \in Values(GroupOf(f)) : Final(GroupOf(f), v) /\ v[f] = choice[f]
  /\ \A g \in contested : \A f \in g : choice[f] = None

\* A command that nothing contests is the only one of its group and changes one
\* setting of the robot.
ChangesOne(f, v) == \A h \in GroupOf(f) \ {f} : v[h] = robot[h]

PlainCall(c) ==
  Alone(c) /\ ~Commanded(GroupOf(c.field)) /\ ChangesOne(c.field, c.command)

PlainCommand(i) ==
  /\ ChangesOne(downlink[i].field, downlink[i].values)
  /\ \A j \in DOMAIN downlink : downlink[j].field \in GroupOf(downlink[i].field) => j = i

PlainInv ==
  /\ \A c \in calls : ~c.sent /\ GroupOf(c.field) \notin contested => PlainCall(c)
  /\ \A i \in DOMAIN downlink : GroupOf(downlink[i].field) \notin contested => PlainCommand(i)

SettingsInv == TypeOK /\ ViewInv /\ CallInv /\ ChoiceInv /\ PlainInv

-----------------------------------------------------------------------------
(***************************************************************************)
(* Groups and queues.                                                      *)
(***************************************************************************)
LEMMA GroupFacts ==
  /\ \A f \in Fields : GroupOf(f) \in Groups /\ f \in GroupOf(f)
  /\ \A g \in Groups : \A f \in g : f \in Fields /\ GroupOf(f) = g
BY GroupsAreDisjoint DEF GroupOf, Fields

LEMMA AppendFacts ==
  ASSUME NEW S, NEW q \in Seq(S), NEW e \in S
  PROVE  /\ Append(q, e) \in Seq(S) /\ Len(q) \in Nat
         /\ DOMAIN q = 1..Len(q) /\ DOMAIN Append(q, e) = 1..(Len(q) + 1)
         /\ \A i \in 1..Len(q) : Append(q, e)[i] = q[i]
         /\ Append(q, e)[Len(q) + 1] = e
OBVIOUS

LEMMA TailFacts ==
  ASSUME NEW S, NEW q \in Seq(S), q # <<>>
  PROVE  /\ Tail(q) \in Seq(S) /\ Len(q) \in Nat /\ Len(q) >= 1
         /\ DOMAIN q = 1..Len(q) /\ DOMAIN Tail(q) = 1..(Len(q) - 1)
         /\ \A i \in 1..(Len(q) - 1) : Tail(q)[i] = q[i + 1]
         /\ Head(q) = q[1] /\ Head(q) \in S
OBVIOUS

Commands == [field : Fields, values : GroupValues]

LEMMA StillFacts ==
  ASSUME NEW g, ~InMotion(g)
  PROVE  CallsOn(g) = {} /\ ~Commanded(g) /\ ~Reported(g)
BY DEF InMotion, Commanded, Reported, Range

\* A command joins those on their way.
LEMMA PublishEffect ==
  ASSUME downlink \in Seq(Commands), NEW k \in Commands, downlink' = Append(downlink, k), NEW g
  PROVE  /\ Commanded(g)' <=> Commanded(g) \/ k.field \in g
         /\ k.field \in g => LastIs(g, k.values)'
         /\ k.field \notin g => \A v : LastIs(g, v) => LastIs(g, v)'
<1> DEFINE n == Len(downlink)
<1>1. /\ n \in Nat /\ DOMAIN downlink = 1..n /\ DOMAIN downlink' = 1..(n + 1)
      /\ \A i \in 1..n : downlink'[i] = downlink[i]
      /\ downlink'[n + 1] = k
  BY AppendFacts
<1> HIDE DEF n
<1>2. Commanded(g)' <=> Commanded(g) \/ k.field \in g
  BY <1>1 DEF Commanded
<1>3. ASSUME k.field \in g PROVE LastIs(g, k.values)'
  BY <1>1, <1>3 DEF LastIs
<1>4. ASSUME k.field \notin g, NEW v, LastIs(g, v) PROVE LastIs(g, v)'
  <2>1. PICK i \in DOMAIN downlink :
          /\ downlink[i].field \in g /\ downlink[i].values = v
          /\ \A j \in DOMAIN downlink : j > i => downlink[j].field \notin g
    BY <1>4 DEF LastIs
  <2>2. \A j \in DOMAIN downlink' : j > i => downlink'[j].field \notin g
    BY <1>1, <1>4, <2>1
  <2> QED
    BY <1>1, <2>1, <2>2 DEF LastIs
<1> QED
  BY <1>2, <1>3, <1>4

\* The oldest command leaves.
LEMMA ApplyEffect ==
  ASSUME downlink \in Seq(Commands), downlink # <<>>, downlink' = Tail(downlink), NEW g
  PROVE  /\ Head(downlink).field \notin g => (Commanded(g)' <=> Commanded(g))
         /\ \A v : LastIs(g, v) =>
              \/ LastIs(g, v)'
              \/ ~Commanded(g)' /\ Head(downlink).values = v /\ Head(downlink).field \in g
<1> DEFINE n == Len(downlink)
<1>1. /\ n \in Nat /\ n >= 1 /\ DOMAIN downlink = 1..n /\ DOMAIN downlink' = 1..(n - 1)
      /\ \A i \in 1..(n - 1) : downlink'[i] = downlink[i + 1]
      /\ Head(downlink) = downlink[1]
  BY TailFacts
<1> HIDE DEF n
<1>2. ASSUME Head(downlink).field \notin g PROVE Commanded(g)' <=> Commanded(g)
  <2>1. ASSUME Commanded(g) PROVE Commanded(g)'
    <3>1. PICK i \in 1..n : downlink[i].field \in g
      BY <1>1, <2>1 DEF Commanded
    <3>2. i - 1 \in 1..(n - 1) /\ downlink'[i - 1] = downlink[i]
      BY <1>1, <1>2, <3>1
    <3> QED
      BY <1>1, <3>1, <3>2 DEF Commanded
  <2>2. ASSUME Commanded(g)' PROVE Commanded(g)
    <3>1. PICK i \in 1..(n - 1) : downlink'[i].field \in g
      BY <1>1, <2>2 DEF Commanded
    <3>2. i + 1 \in 1..n /\ downlink[i + 1].field \in g
      BY <1>1, <3>1
    <3> QED
      BY <1>1, <3>2 DEF Commanded
  <2> QED
    BY <2>1, <2>2
<1>3. ASSUME NEW v, LastIs(g, v)
      PROVE  \/ LastIs(g, v)'
             \/ ~Commanded(g)' /\ Head(downlink).values = v /\ Head(downlink).field \in g
  <2>1. PICK i \in 1..n :
          /\ downlink[i].field \in g /\ downlink[i].values = v
          /\ \A j \in 1..n : j > i => downlink[j].field \notin g
    BY <1>1, <1>3 DEF LastIs
  <2>2. CASE i = 1
    <3>1. \A j \in 1..(n - 1) : downlink'[j].field \notin g
      BY <1>1, <2>1, <2>2
    <3> QED
      BY <1>1, <2>1, <2>2, <3>1 DEF Commanded
  <2>3. CASE i # 1
    <3>1. i - 1 \in 1..(n - 1) /\ downlink'[i - 1] = downlink[i]
      BY <1>1, <2>1, <2>3
    <3>2. \A j \in 1..(n - 1) : j > i - 1 => downlink'[j].field \notin g
      BY <1>1, <2>1
    <3> QED
      BY <1>1, <2>1, <3>1, <3>2 DEF LastIs
  <2> QED
    BY <2>2, <2>3
<1> QED
  BY <1>2, <1>3

\* A report of r joins those on their way.
LEMMA ReportEffect ==
  ASSUME uplink \in Seq(GroupValues), NEW r \in GroupValues, uplink' = Append(uplink, r), NEW g
  PROVE  /\ Reported(g)' <=> Reported(g) \/ DOMAIN r = g
         /\ DOMAIN r = g /\ RobotIs(g, r)' => LastIsTrue(g)'
         /\ DOMAIN r # g /\ LastIsTrue(g) /\ (\A h \in g : robot'[h] = robot[h])
              => LastIsTrue(g)'
<1>0. PICK n \in Nat : n = Len(uplink)
  OBVIOUS
<1>1. /\ n \in Nat /\ DOMAIN uplink = 1..n /\ DOMAIN uplink' = 1..(n + 1)
      /\ \A i \in 1..n : uplink'[i] = uplink[i]
      /\ uplink'[n + 1] = r
  BY <1>0, AppendFacts
<1>2. Reported(g)' <=> Reported(g) \/ DOMAIN r = g
  BY <1>1 DEF Reported
<1>3. ASSUME DOMAIN r = g, RobotIs(g, r)' PROVE LastIsTrue(g)'
  <2>1. RobotIs(g, uplink[n + 1])'
    BY <1>1, <1>3 DEF RobotIs
  <2> QED
    BY <1>1, <1>3, <2>1 DEF LastIsTrue
<1>4. ASSUME DOMAIN r # g, LastIsTrue(g), \A h \in g : robot'[h] = robot[h]
      PROVE  LastIsTrue(g)'
  <2>1. PICK i \in 1..n :
          /\ DOMAIN uplink[i] = g /\ RobotIs(g, uplink[i])
          /\ \A j \in 1..n : j > i => DOMAIN uplink[j] # g
    BY <1>1, <1>4 DEF LastIsTrue
  <2>2. \A j \in 1..(n + 1) : j > i => DOMAIN uplink'[j] # g
    BY <1>1, <1>4, <2>1
  <2>3. RobotIs(g, uplink[i])'
    BY <1>1, <1>4, <2>1 DEF RobotIs
  <2> QED
    BY <1>1, <2>1, <2>2, <2>3 DEF LastIsTrue
<1> QED
  BY <1>2, <1>3, <1>4

\* The oldest report leaves.
LEMMA HandleEffect ==
  ASSUME uplink \in Seq(GroupValues), uplink # <<>>, uplink' = Tail(uplink), UNCHANGED robot, NEW g
  PROVE  /\ DOMAIN Head(uplink) # g => (Reported(g)' <=> Reported(g))
         /\ LastIsTrue(g) => \/ LastIsTrue(g)'
                             \/ ~Reported(g)' /\ RobotIs(g, Head(uplink))
         /\ ~Reported(g) => ~Reported(g)'
<1>0. PICK n \in Nat : n = Len(uplink)
  OBVIOUS
<1>1. /\ n \in Nat /\ n >= 1 /\ DOMAIN uplink = 1..n /\ DOMAIN uplink' = 1..(n - 1)
      /\ \A i \in 1..(n - 1) : uplink'[i] = uplink[i + 1]
      /\ Head(uplink) = uplink[1]
  BY <1>0, TailFacts
<1>2. ASSUME Reported(g)' PROVE Reported(g)
  <2>1. PICK i \in 1..(n - 1) : DOMAIN uplink'[i] = g
    BY <1>1, <1>2 DEF Reported
  <2>2. i + 1 \in 1..n /\ DOMAIN uplink[i + 1] = g
    BY <1>1, <2>1
  <2> QED
    BY <1>1, <2>2 DEF Reported
<1>3. ASSUME DOMAIN Head(uplink) # g, Reported(g) PROVE Reported(g)'
  <2>1. PICK i \in 1..n : DOMAIN uplink[i] = g
    BY <1>1, <1>3 DEF Reported
  <2>2. i - 1 \in 1..(n - 1) /\ uplink'[i - 1] = uplink[i]
    BY <1>1, <1>3, <2>1
  <2> QED
    BY <1>1, <2>1, <2>2 DEF Reported
<1>4. ASSUME LastIsTrue(g)
      PROVE  LastIsTrue(g)' \/ (~Reported(g)' /\ RobotIs(g, Head(uplink)))
  <2>1. PICK i \in 1..n :
          /\ DOMAIN uplink[i] = g /\ RobotIs(g, uplink[i])
          /\ \A j \in 1..n : j > i => DOMAIN uplink[j] # g
    BY <1>1, <1>4 DEF LastIsTrue
  <2>2. CASE i = 1
    <3>1. \A j \in 1..(n - 1) : DOMAIN uplink'[j] # g
      BY <1>1, <2>1, <2>2
    <3> QED
      BY <1>1, <2>1, <2>2, <3>1 DEF Reported
  <2>3. CASE i # 1
    <3>1. i - 1 \in 1..(n - 1) /\ uplink'[i - 1] = uplink[i]
      BY <1>1, <2>1, <2>3
    <3>2. \A j \in 1..(n - 1) : j > i - 1 => DOMAIN uplink'[j] # g
      BY <1>1, <2>1
    <3>3. RobotIs(g, uplink[i - 1])'
      BY <2>1, <3>1 DEF RobotIs
    <3> QED
      BY <1>1, <2>1, <3>1, <3>2, <3>3 DEF LastIsTrue
  <2> QED
    BY <2>2, <2>3
<1> QED
  BY <1>2, <1>3, <1>4

-----------------------------------------------------------------------------
(***************************************************************************)
(* Types.                                                                  *)
(***************************************************************************)
CallRecords ==
  [field : Fields, value : BOOLEAN, command : GroupValues,
   seen : Data \cup {None}, sent : BOOLEAN]

LEMMA ValuesAreTyped ==
  ASSUME NEW g \in Groups, NEW v \in Values(g)
  PROVE  v \in GroupValues /\ DOMAIN v = g /\ (\A h \in g : v[h] \in BOOLEAN)
BY DEF GroupValues, Values

LEMMA ReportIsTyped ==
  ASSUME NEW s \in [Fields -> BOOLEAN], NEW g \in Groups
  PROVE  /\ ReportOf(s, g) \in Values(g)
         /\ \A h \in g : ReportOf(s, g)[h] = s[h]
<1>1. \A h \in g : h \in Fields
  BY GroupFacts
<1>2. \A h \in g : s[h] \in BOOLEAN
  BY <1>1
<1> QED
  BY <1>2 DEF ReportOf, Values

\* The command an entity builds.
LEMMA CommandIsTyped ==
  ASSUME data.value \in [Fields -> BOOLEAN], NEW f \in Fields, NEW v \in BOOLEAN
  PROVE  /\ Command(f, v) \in Values(GroupOf(f))
         /\ Command(f, v)[f] = v
         /\ \A h \in GroupOf(f) \ {f} : Command(f, v)[h] = data.value[h]
<1>1. GroupOf(f) \in Groups /\ f \in GroupOf(f) /\ (\A h \in GroupOf(f) : h \in Fields)
  BY GroupFacts
<1>2. \A h \in GroupOf(f) : data.value[h] \in BOOLEAN
  BY <1>1
<1>3. Command(f, v) = [h \in GroupOf(f) |-> IF h = f THEN v ELSE data.value[h]]
  <2>1. f \in DockGroup => GroupOf(f) = DockGroup
    BY GroupFacts, KindsOfGroups
  <2> QED
    BY <2>1 DEF Command, DockCommand, OwnCommand
<1>4. \A h \in GroupOf(f) : (IF h = f THEN v ELSE data.value[h]) \in BOOLEAN
  BY <1>2
<1>5. Command(f, v) \in [GroupOf(f) -> BOOLEAN]
  BY <1>3, <1>4, Zenon
<1> QED
  BY <1>1, <1>3, <1>5 DEF Values

\* The oldest command on its way.
LEMMA HeadIsTyped ==
  ASSUME TypeOK, downlink # <<>>
  PROVE  /\ Head(downlink) \in Commands /\ Head(downlink).field \in Fields
         /\ Head(downlink).values \in Values(GroupOf(Head(downlink).field))
         /\ GroupOf(Head(downlink).field) \in Groups
         /\ downlink \in Seq(Commands)
<1>1. downlink \in Seq(Commands)
  BY DEF TypeOK, Commands
<1>2. /\ Head(downlink) \in Commands /\ Head(downlink) = downlink[1]
      /\ 1 \in DOMAIN downlink
  BY <1>1, TailFacts
<1>3. Head(downlink).field \in Fields
  BY <1>2 DEF Commands
<1>4. Head(downlink).values \in Values(GroupOf(Head(downlink).field))
  BY <1>2 DEF TypeOK
<1> QED
  BY <1>1, <1>2, <1>3, <1>4, GroupFacts

LEMMA QueueIsTyped ==
  ASSUME TypeOK, NEW i \in DOMAIN downlink
  PROVE  /\ downlink[i].field \in Fields /\ GroupOf(downlink[i].field) \in Groups
         /\ downlink[i].field \in GroupOf(downlink[i].field)
         /\ downlink[i].values \in Values(GroupOf(downlink[i].field))
<1>1. downlink \in Seq(Commands)
  BY DEF TypeOK, Commands
<1>2. downlink[i] \in Commands
  BY <1>1
<1>3. downlink[i].field \in Fields
  BY <1>2 DEF Commands
<1> QED
  BY <1>3, GroupFacts DEF TypeOK

LEMMA DisturbTyped ==
  ASSUME TypeOK, NEW g \in Groups, Disturb(g)
  PROVE  choice' \in [Fields -> BOOLEAN \cup {None}] /\ contested' \subseteq Groups
BY DEF TypeOK, Disturb

LEMMA SetTyped ==
  ASSUME TypeOK, NEW f \in Fields, NEW v \in BOOLEAN,
         NEW seen \in Data \cup {None}, f \in TimeFields <=> seen \in Data,
         Set(f, v, seen)
  PROVE  TypeOK'
<1> DEFINE c == Call(f, v, Command(f, v), seen)
<1>1. GroupOf(f) \in Groups
  BY GroupFacts
<1>2. /\ c \in CallRecords /\ c.command \in Values(GroupOf(c.field))
      /\ IF c.field \in TimeFields THEN c.seen \in Data ELSE c.seen = None
  <2>1. data.value \in [Fields -> BOOLEAN]
    BY DEF TypeOK, Data
  <2>2. Command(f, v) \in Values(GroupOf(f)) /\ Command(f, v) \in GroupValues
    BY <2>1, <1>1, CommandIsTyped, ValuesAreTyped
  <2> QED
    BY <2>2 DEF Call, CallRecords
<1>3. calls' = calls \cup {c}
  BY DEF Set
<1> HIDE DEF c
<1>4. /\ calls' \subseteq CallRecords
      /\ \A d \in calls' :
           /\ d.command \in Values(GroupOf(d.field))
           /\ IF d.field \in TimeFields THEN d.seen \in Data ELSE d.seen = None
  BY <1>2, <1>3 DEF TypeOK, CallRecords
<1>5. choice' \in [Fields -> BOOLEAN \cup {None}] /\ contested' \subseteq Groups
  BY <1>1, DisturbTyped DEF Set, TypeOK
<1>6. doubtful' \subseteq Groups /\ UNCHANGED <<robot, data, downlink, uplink, undone>>
  BY <1>1 DEF Set, TypeOK
<1> QED
  BY <1>4, <1>5, <1>6 DEF TypeOK, CallRecords

\* A call marked as sent.
Sent(c) == [c EXCEPT !.sent = TRUE]

LEMMA SentFacts ==
  ASSUME NEW c \in CallRecords
  PROVE  /\ Sent(c) \in CallRecords /\ Sent(c).field = c.field /\ Sent(c).value = c.value
         /\ Sent(c).command = c.command /\ Sent(c).seen = c.seen /\ Sent(c).sent = TRUE
BY DEF Sent, CallRecords

LEMMA CallTyped ==
  ASSUME TypeOK, NEW c \in calls, Publish(c) \/ Lose(c) \/ Refuse(c)
  PROVE  TypeOK'
<1>1. /\ c \in CallRecords /\ c.field \in Fields /\ c.value \in BOOLEAN
      /\ c.command \in Values(GroupOf(c.field)) /\ c.command \in GroupValues
      /\ GroupOf(c.field) \in Groups
  BY GroupFacts DEF TypeOK, CallRecords
<1>2. calls' \subseteq (calls \ {c}) \cup {Sent(c)}
  BY DEF Publish, Lose, Refuse, Sent
<1>3. /\ calls' \subseteq CallRecords
      /\ \A d \in calls' :
           /\ d.command \in Values(GroupOf(d.field))
           /\ IF d.field \in TimeFields THEN d.seen \in Data ELSE d.seen = None
  <2>1. /\ Sent(c) \in CallRecords /\ Sent(c).command \in Values(GroupOf(Sent(c).field))
        /\ IF Sent(c).field \in TimeFields THEN Sent(c).seen \in Data ELSE Sent(c).seen = None
    BY <1>1, SentFacts DEF TypeOK
  <2>2. calls \subseteq CallRecords
    BY DEF TypeOK, CallRecords
  <2> HIDE DEF Sent
  <2> QED
    BY <1>2, <2>1, <2>2 DEF TypeOK
<1>4. /\ UNCHANGED <<robot, data, uplink, contested, undone>>
      /\ doubtful' \subseteq Groups
  BY <1>1 DEF Publish, Lose, Refuse, TypeOK, history
<1>5. choice' \in [Fields -> BOOLEAN \cup {None}]
  BY <1>1 DEF Publish, Lose, Refuse, TypeOK, history
<1>6. /\ downlink' \in Seq(Commands)
      /\ \A i \in DOMAIN downlink' : downlink'[i].values \in Values(GroupOf(downlink'[i].field))
  <2>1. CASE Publish(c)
    <3> DEFINE k == [field |-> c.field, values |-> c.command]
    <3>1. k \in Commands /\ k.values \in Values(GroupOf(k.field))
      BY <1>1 DEF Commands
    <3>2. downlink' = Append(downlink, k) /\ downlink \in Seq(Commands)
      BY <2>1 DEF Publish, TypeOK, Commands
    <3> HIDE DEF k
    <3> QED
      BY <3>1, <3>2, AppendFacts DEF TypeOK
  <2>2. CASE UNCHANGED downlink
    BY <2>2 DEF TypeOK, Commands
  <2> QED
    BY <2>1, <2>2 DEF Lose, Refuse
<1> QED
  BY <1>3, <1>4, <1>5, <1>6 DEF TypeOK, CallRecords, Commands

LEMMA ReturnTyped ==
  ASSUME TypeOK, NEW c \in calls, Return(c)
  PROVE  TypeOK'
<1>1. c.field \in Fields /\ c.value \in BOOLEAN /\ c.field \in TimeFields => c.seen \in Data
  BY DEF TypeOK
<1>2. Shown(c) \in Data
  <2>1. ASSUME NEW d \in Data PROVE [d EXCEPT !.value[c.field] = c.value] \in Data
    BY <1>1 DEF TypeOK, Data
  <2> QED
    BY <1>1, <2>1 DEF Shown, ShownByTime, ShownOptimistically, TypeOK
<1>3. SetBack(c) \subseteq Groups
  BY DEF SetBack
<1> QED
  BY <1>2, <1>3 DEF Return, TypeOK, counts

LEMMA DeviceTyped ==
  ASSUME TypeOK, Apply \/ (\E f \in Fields : ChangeItself(f)) \/ (\E g \in Groups : Report(g))
  PROVE  TypeOK'
<1>1. robot' \in [Fields -> BOOLEAN]
  <2>1. CASE Apply
    <3>1. Head(downlink).values \in Values(GroupOf(Head(downlink).field))
      BY <2>1, HeadIsTyped DEF Apply
    <3>2. GroupOf(Head(downlink).field) \in Groups
      BY <2>1, HeadIsTyped DEF Apply
    <3> DEFINE v == Head(downlink).values
    <3>3. \A f \in DOMAIN v : v[f] \in BOOLEAN
      BY <3>1, <3>2, ValuesAreTyped
    <3>4. robot' = [f \in Fields |-> IF f \in DOMAIN v THEN v[f] ELSE robot[f]]
      BY <2>1 DEF Apply
    <3>5. \A f \in Fields : robot[f] \in BOOLEAN
      BY DEF TypeOK
    <3> HIDE DEF v
    <3>6. \A f \in Fields : (IF f \in DOMAIN v THEN v[f] ELSE robot[f]) \in BOOLEAN
      BY <3>3, <3>5
    <3> QED
      BY <3>4, <3>6, Zenon
  <2> QED
    BY <2>1 DEF TypeOK, ChangeItself, Report
<1>2. \E g \in Groups : uplink' = Append(uplink, ReportOf(robot', g))
  <2>1. CASE Apply
    <3>1. Head(downlink).field \in Fields
      BY <2>1, HeadIsTyped DEF Apply
    <3> QED
      BY <2>1, <3>1, GroupFacts DEF Apply
  <2>2. CASE \E g \in Groups : Report(g)
    BY <2>2 DEF Report
  <2> QED
    BY <2>1, <2>2, GroupFacts DEF ChangeItself
<1>3. uplink' \in Seq(GroupValues)
  BY <1>1, <1>2, ReportIsTyped, ValuesAreTyped, AppendFacts DEF TypeOK
<1>4. /\ downlink' \in Seq(Commands)
      /\ \A i \in DOMAIN downlink' : downlink'[i].values \in Values(GroupOf(downlink'[i].field))
  <2>1. CASE Apply
    BY <2>1, TailFacts DEF Apply, TypeOK, Commands
  <2> QED
    BY <2>1 DEF ChangeItself, Report, TypeOK, Commands
<1>5. /\ choice' \in [Fields -> BOOLEAN \cup {None}] /\ contested' \subseteq Groups
      /\ doubtful' \subseteq Groups
  BY GroupFacts, DisturbTyped DEF Apply, ChangeItself, Report, history, TypeOK
<1>6. UNCHANGED <<data, calls, undone>>
  BY DEF Apply, ChangeItself, Report, history
<1> QED
  BY <1>1, <1>3, <1>4, <1>5, <1>6 DEF TypeOK, Commands

LEMMA HandleTyped ==
  ASSUME TypeOK, Handle
  PROVE  TypeOK'
<1> DEFINE r == Head(uplink)
<1>1. PICK g \in Groups : r \in Values(g)
  BY TailFacts DEF Handle, TypeOK, GroupValues
<1>2. DOMAIN r = g /\ \A h \in g : r[h] \in BOOLEAN
  BY <1>1, ValuesAreTyped
<1>3. data' = [value |-> [f \in Fields |-> IF f \in g THEN r[f] ELSE data.value[f]],
               received |-> data.received \cup {g}]
  BY <1>2 DEF Handle
<1>4. data.value \in [Fields -> BOOLEAN] /\ data.received \subseteq Groups
  BY DEF TypeOK, Data
<1> HIDE DEF r
<1>5. \A f \in Fields : (IF f \in g THEN r[f] ELSE data.value[f]) \in BOOLEAN
  BY <1>2, <1>4
<1>6. [f \in Fields |-> IF f \in g THEN r[f] ELSE data.value[f]] \in [Fields -> BOOLEAN]
  BY <1>5, Zenon
<1>7. data' \in Data
  BY <1>3, <1>4, <1>6 DEF Data
<1>8. uplink' \in Seq(GroupValues)
  BY TailFacts DEF Handle, TypeOK
<1> QED
  BY <1>7, <1>8 DEF Handle, TypeOK, counts

-----------------------------------------------------------------------------
(***************************************************************************)
(* The steps of a call.                                                    *)
(***************************************************************************)
\* What depends on the queues and on the robot stays when these do.
LEMMA QuietFacts ==
  ASSUME UNCHANGED <<robot, downlink, uplink>>, NEW g, NEW w, NEW h
  PROVE  /\ Commanded(g)' <=> Commanded(g)
         /\ Reported(g)' <=> Reported(g)
         /\ Told(g)' <=> Told(g)
         /\ Final(g, w)' <=> Final(g, w)
         /\ ChangesOne(h, w)' <=> ChangesOne(h, w)
BY DEF Commanded, Reported, Told, LastIsTrue, Final, LastIs, RobotIs, ChangesOne

\* A new call finds its group still and shown as it is, or disturbs it.
LEMMA SetKeeps ==
  ASSUME SettingsInv, NEW f \in Fields, NEW v \in BOOLEAN,
         NEW seen \in Data \cup {None}, IF f \in TimeFields THEN seen = data ELSE seen = None,
         None \notin Data, Set(f, v, seen)
  PROVE  SettingsInv'
<1> DEFINE g0 == GroupOf(f)
           c0 == Call(f, v, Command(f, v), seen)
<1>1. TypeOK'
  BY SetTyped DEF SettingsInv, TypeOK
<1>2. /\ UNCHANGED <<robot, downlink, uplink, data, undone>>
      /\ calls' = calls \cup {c0} /\ (f \in AlwaysAvailable \/ g0 \in data.received)
      /\ doubtful' = IF CallsOn(g0) # {} /\ g0 # DockGroup THEN doubtful \cup {g0} ELSE doubtful
      /\ IF InMotion(g0) \/ g0 \in doubtful \cup undone THEN Disturb(g0)
         ELSE contested' = contested \ {g0} /\ UNCHANGED choice
  BY DEF Set, Available
<1>0. UNCHANGED <<robot, downlink, uplink>>
  BY <1>2
<1>q. ASSUME NEW g, NEW w, NEW h
      PROVE  /\ Commanded(g)' <=> Commanded(g)
             /\ Reported(g)' <=> Reported(g)
             /\ Told(g)' <=> Told(g)
             /\ Final(g, w)' <=> Final(g, w)
             /\ ChangesOne(h, w)' <=> ChangesOne(h, w)
  BY <1>0, QuietFacts
<1>3. g0 \in Groups /\ f \in g0 /\ data.value \in [Fields -> BOOLEAN]
  BY GroupFacts DEF SettingsInv, TypeOK, Data
<1>4. /\ c0.field = f /\ c0.value = v /\ c0.seen = seen /\ c0.sent = FALSE
      /\ c0.command = Command(f, v) /\ c0.command[f] = v
      /\ \A h \in g0 \ {f} : c0.command[h] = data.value[h]
  BY <1>3, CommandIsTyped DEF Call
<1> HIDE DEF c0
<1>5. \A c \in calls : c.field \in Fields /\ GroupOf(c.field) \in Groups /\ c.field \in GroupOf(c.field)
  BY GroupFacts DEF SettingsInv, TypeOK
<1>6. /\ CallsOn(g0)' = CallsOn(g0) \cup {c0}
      /\ \A g \in Groups : g # g0 => CallsOn(g)' = CallsOn(g)
  <2>1. \A g \in Groups : g # g0 => f \notin g
    BY GroupFacts
  <2> QED
    BY <1>2, <1>3, <1>4, <2>1 DEF CallsOn
<1>7. ViewInv'
  <2>1. \A g : Known(g)' => Known(g)
    BY <1>2, <1>4 DEF Known
  <2>2. \A g : DataIs(g)' <=> DataIs(g)
    BY <1>2 DEF DataIs
  <2>3. doubtful \subseteq doubtful'
    BY <1>2
  <2> QED
    BY <1>2, <2>1, <2>2, <2>3, <1>q DEF SettingsInv, ViewInv
<1>8. CallInv'
  <2>1. ASSUME NEW c \in calls', c.field \notin DockGroup, GroupOf(c.field) \notin doubtful'
        PROVE  Alone(c)' /\ (c.sent => Final(GroupOf(c.field), c.command)')
    <3>1. CASE GroupOf(c.field) = g0
      <4>1. CallsOn(g0) = {}
        BY <1>2, <1>3, <1>4, <1>5, <2>1, <3>1, GroupFacts, KindsOfGroups
      <4>2. c = c0
        BY <1>2, <1>3, <1>5, <2>1, <3>1, <4>1 DEF CallsOn
      <4> QED
        BY <1>4, <1>6, <4>1, <4>2 DEF Alone
    <3>2. CASE GroupOf(c.field) # g0
      <4>1. c \in calls /\ GroupOf(c.field) \in Groups /\ GroupOf(c.field) \notin doubtful
        BY <1>2, <1>4, <1>5, <2>1, <3>2
      <4>2. Alone(c) /\ (c.sent => Final(GroupOf(c.field), c.command))
        BY <2>1, <4>1 DEF SettingsInv, CallInv
      <4> QED
        BY <1>2, <1>6, <3>2, <4>1, <4>2, <1>q DEF Alone
    <3> QED
      BY <3>1, <3>2
  <2>2. ASSUME NEW c \in calls'
        PROVE  /\ c.command[c.field] = c.value
               /\ c.field \in TimeFields =>
                    \A h \in GroupOf(c.field) \ {c.field} : c.command[h] = c.seen.value[h]
    BY <1>2, <1>4, <2>2 DEF SettingsInv, CallInv
  <2> QED
    BY <2>1, <2>2 DEF CallInv
<1>9. ChoiceInv'
  <2>1. ASSUME NEW h \in Fields, choice'[h] # None
        PROVE  choice'[h] = choice[h] /\ (Disturb(g0) => h \notin g0)
    BY <1>2, <2>1 DEF Disturb
  <2>2. \A g \in contested' : \A h \in g : choice'[h] = None
    <3>1. CASE Disturb(g0)
      <4>1. \A g \in contested : \A h \in g : h \in Fields
        BY GroupFacts DEF SettingsInv, TypeOK
      <4> QED
        BY <3>1, <4>1, <1>3, GroupFacts DEF Disturb, SettingsInv, ChoiceInv
    <3>2. CASE contested' = contested \ {g0} /\ UNCHANGED choice
      BY <3>2 DEF SettingsInv, ChoiceInv
    <3> QED
      BY <1>2, <3>1, <3>2
  <2> QED
    BY <1>2, <2>1, <2>2, <1>q DEF SettingsInv, ChoiceInv
<1>10. PlainInv'
  <2>1. contested \ {g0} \subseteq contested'
    BY <1>2 DEF Disturb
  <2>2. ASSUME NEW c \in calls', ~c.sent, GroupOf(c.field) \notin contested'
        PROVE  PlainCall(c)'
    <3>1. CASE GroupOf(c.field) = g0
      <4>1. ~InMotion(g0) /\ g0 \notin doubtful \cup undone
        BY <1>2, <2>2, <3>1 DEF Disturb
      <4>2. CallsOn(g0) = {} /\ ~Commanded(g0) /\ ~Reported(g0)
        BY <4>1, StillFacts
      <4>3. c = c0
        BY <1>2, <1>3, <1>5, <2>2, <3>1, <4>2 DEF CallsOn
      <4>4. f \in AlwaysAvailable => g0 = {f}
        BY <1>3, AvailableOnTheirOwn, GroupFacts
      <4>5. g0 \in data.received => DataIs(g0)
        BY <1>2, <1>3, <4>1, <4>2 DEF SettingsInv, ViewInv, Known
      <4>6. ChangesOne(c.field, c.command)
        BY <1>2, <1>4, <4>3, <4>4, <4>5 DEF DataIs, ChangesOne
      <4> QED
        BY <1>2, <1>4, <1>6, <3>1, <4>2, <4>3, <4>6, <1>q DEF Alone, PlainCall
    <3>2. CASE GroupOf(c.field) # g0
      <4>1. c \in calls /\ GroupOf(c.field) \in Groups /\ GroupOf(c.field) \notin contested
        BY <1>2, <1>4, <1>5, <2>1, <2>2, <3>2
      <4>2. Alone(c) /\ ~Commanded(GroupOf(c.field)) /\ ChangesOne(c.field, c.command)
        BY <2>2, <4>1 DEF SettingsInv, PlainInv, PlainCall
      <4> QED
        BY <1>2, <1>6, <3>2, <4>1, <4>2, <1>q DEF Alone, PlainCall
    <3> QED
      BY <3>1, <3>2
  <2>3. ASSUME NEW i \in DOMAIN downlink', GroupOf(downlink'[i].field) \notin contested'
        PROVE  PlainCommand(i)'
    <3>1. downlink[i].field \in Fields
      BY <1>2, <2>3, QueueIsTyped DEF SettingsInv
    <3>2. GroupOf(downlink[i].field) # g0 \/ GroupOf(downlink[i].field) \in contested' \/ ~InMotion(g0)
      BY <1>2 DEF Disturb
    <3>3. GroupOf(downlink[i].field) = g0 => Commanded(g0)
      BY <1>2, <2>3, <3>1, GroupFacts DEF Commanded
    <3>4. GroupOf(downlink[i].field) \notin contested
      BY <1>2, <2>1, <2>3, <3>2, <3>3, StillFacts
    <3> QED
      BY <1>2, <2>3, <3>4 DEF SettingsInv, PlainInv, PlainCommand, ChangesOne
  <2> QED
    BY <2>2, <2>3 DEF PlainInv
<1> QED
  BY <1>1, <1>7, <1>8, <1>9, <1>10 DEF SettingsInv

\* Marking a call as sent, or ending it, concerns its group only.
LEMMA MarkFacts ==
  ASSUME TypeOK, NEW c \in calls,
         calls' = (calls \ {c}) \cup {Sent(c)} \/ calls' = calls \ {c}
  PROVE  /\ c \in CallRecords /\ GroupOf(c.field) \in Groups /\ c \in CallsOn(GroupOf(c.field))
         /\ \A d \in calls : GroupOf(d.field) \in Groups /\ d \in CallsOn(GroupOf(d.field))
         /\ \A g \in Groups : g # GroupOf(c.field) => CallsOn(g)' = CallsOn(g)
         /\ calls' = (calls \ {c}) \cup {Sent(c)} =>
              CallsOn(GroupOf(c.field))' = (CallsOn(GroupOf(c.field)) \ {c}) \cup {Sent(c)}
<1>1. c \in CallRecords /\ \A d \in calls : d.field \in Fields
  BY DEF TypeOK, CallRecords
<1>2. Sent(c).field = c.field
  BY <1>1, SentFacts
<1>3. \A g \in Groups : g # GroupOf(c.field) => c.field \notin g
  BY GroupFacts
<1>4. GroupOf(c.field) \in Groups /\ c.field \in GroupOf(c.field)
  BY <1>1, GroupFacts
<1> HIDE DEF Sent
<1>5. \A g \in Groups : g # GroupOf(c.field) => CallsOn(g)' = CallsOn(g)
  BY <1>2, <1>3 DEF CallsOn
<1>6. calls' = (calls \ {c}) \cup {Sent(c)} =>
        CallsOn(GroupOf(c.field))' = (CallsOn(GroupOf(c.field)) \ {c}) \cup {Sent(c)}
  BY <1>2, <1>4 DEF CallsOn
<1> QED
  BY <1>1, <1>4, <1>5, <1>6, GroupFacts DEF CallsOn

LEMMA PublishKeeps ==
  ASSUME SettingsInv, NEW c \in calls, Publish(c)
  PROVE  SettingsInv'
<1> DEFINE g0 == GroupOf(c.field)
           c1 == Sent(c)
           k == [field |-> c.field, values |-> c.command]
<1>1. TypeOK'
  BY CallTyped DEF SettingsInv
<1>2. /\ UNCHANGED <<robot, data, uplink, contested, doubtful, undone>>
      /\ ~c.sent /\ calls' = (calls \ {c}) \cup {c1} /\ downlink' = Append(downlink, k)
      /\ choice' = IF g0 \in contested THEN choice ELSE [choice EXCEPT ![c.field] = c.value]
  BY DEF Publish, Sent
<1>3. /\ c \in CallRecords /\ g0 \in Groups /\ c \in CallsOn(g0)
      /\ \A d \in calls : GroupOf(d.field) \in Groups /\ d \in CallsOn(GroupOf(d.field))
      /\ \A g \in Groups : g # g0 => CallsOn(g)' = CallsOn(g)
      /\ CallsOn(g0)' = (CallsOn(g0) \ {c}) \cup {c1}
  BY <1>2, MarkFacts DEF SettingsInv
<1>4. /\ c1.field = c.field /\ c1.value = c.value /\ c1.command = c.command
      /\ c1.seen = c.seen /\ c1.sent
  BY <1>3, SentFacts
<1>5. /\ k \in Commands /\ k.field = c.field /\ k.values = c.command
      /\ downlink \in Seq(Commands) /\ c.field \in Fields /\ c.field \in g0
      /\ c.command \in Values(g0)
  BY GroupFacts DEF SettingsInv, TypeOK, Commands
<1> HIDE DEF c1, k
<1>6. ASSUME NEW g \in Groups
      PROVE  /\ Commanded(g)' <=> Commanded(g) \/ g = g0
             /\ g = g0 => LastIs(g, c.command)'
             /\ g # g0 => \A v : Final(g, v) => Final(g, v)'
  <2>1. c.field \in g <=> g = g0
    BY <1>5, GroupFacts
  <2>2. /\ Commanded(g)' <=> Commanded(g) \/ c.field \in g
        /\ c.field \in g => LastIs(g, c.command)'
        /\ c.field \notin g => \A v : LastIs(g, v) => LastIs(g, v)'
    BY <1>2, <1>5, PublishEffect
  <2> QED
    BY <1>2, <2>1, <2>2 DEF Final, RobotIs
<1>7. ViewInv'
  <2>1. ASSUME NEW g \in Groups PROVE Known(g)' => Known(g)
    BY <1>2, <1>4 DEF Known
  <2>2. ASSUME NEW g \in Groups
        PROVE  (Reported(g)' <=> Reported(g)) /\ (LastIsTrue(g)' <=> LastIsTrue(g))
               /\ (DataIs(g)' <=> DataIs(g))
    BY <1>2 DEF Reported, LastIsTrue, RobotIs, DataIs
  <2> QED
    BY <1>2, <1>6, <2>1, <2>2 DEF SettingsInv, ViewInv, Told
<1>8. CallInv'
  <2>1. ASSUME NEW d \in calls', d.field \notin DockGroup, GroupOf(d.field) \notin doubtful'
        PROVE  Alone(d)' /\ (d.sent => Final(GroupOf(d.field), d.command)')
    <3>1. CASE d = c1
      <4>1. Alone(c)
        BY <1>2, <1>4, <2>1, <3>1 DEF SettingsInv, CallInv
      <4>2. Alone(d)'
        BY <1>3, <1>4, <3>1, <4>1 DEF Alone
      <4> QED
        BY <1>3, <1>4, <1>6, <3>1, <4>2 DEF Final
    <3>2. CASE d # c1
      <4>1. d \in calls /\ d # c
        BY <1>2, <3>2
      <4>2. Alone(d) /\ (d.sent => Final(GroupOf(d.field), d.command))
        BY <1>2, <2>1, <4>1 DEF SettingsInv, CallInv
      <4>3. GroupOf(d.field) # g0
        BY <1>3, <4>1, <4>2 DEF Alone
      <4> QED
        BY <1>3, <1>6, <4>1, <4>2, <4>3 DEF Alone
    <3> QED
      BY <3>1, <3>2
  <2>2. ASSUME NEW d \in calls'
        PROVE  /\ d.command[d.field] = d.value
               /\ d.field \in TimeFields =>
                    \A h \in GroupOf(d.field) \ {d.field} : d.command[h] = d.seen.value[h]
    BY <1>2, <1>4, <2>2 DEF SettingsInv, CallInv
  <2> QED
    BY <2>1, <2>2 DEF CallInv
<1>9. ChoiceInv'
  <2>1. ASSUME NEW h \in Fields, choice'[h] # None
        PROVE  \E v \in Values(GroupOf(h)) : Final(GroupOf(h), v)' /\ v[h] = choice'[h]
    <3>1. GroupOf(h) \in Groups /\ h \in GroupOf(h)
      BY GroupFacts
    <3>2. CASE GroupOf(h) # g0
      <4>1. choice'[h] = choice[h]
        BY <1>2, <1>5, <3>2 DEF SettingsInv, TypeOK
      <4> QED
        BY <1>6, <2>1, <3>1, <3>2, <4>1 DEF SettingsInv, ChoiceInv
    <3>3. CASE GroupOf(h) = g0
      <4>1. g0 \notin contested
        BY <1>2, <2>1, <3>1, <3>3 DEF SettingsInv, ChoiceInv
      <4>2. PlainCall(c)
        BY <1>2, <4>1 DEF SettingsInv, PlainInv
      <4>3. c.command[h] = choice'[h]
        <5>1. CASE h = c.field
          BY <1>2, <4>1, <5>1 DEF SettingsInv, TypeOK, CallInv
        <5>2. CASE h # c.field
          <6>1. choice'[h] = choice[h]
            BY <1>2, <4>1, <5>2 DEF SettingsInv, TypeOK
          <6>2. PICK v \in Values(g0) : Final(g0, v) /\ v[h] = choice[h]
            BY <2>1, <3>3, <6>1 DEF SettingsInv, ChoiceInv
          <6>3. robot[h] = v[h]
            BY <3>1, <3>3, <4>2, <6>2 DEF PlainCall, Final, LastIs, Commanded, RobotIs
          <6>4. c.command[h] = robot[h]
            BY <3>1, <3>3, <4>2, <5>2 DEF PlainCall, ChangesOne
          <6> QED
            BY <6>1, <6>2, <6>3, <6>4
        <5> QED
          BY <5>1, <5>2
      <4> QED
        BY <1>3, <1>5, <1>6, <3>3, <4>3 DEF Final
    <3> QED
      BY <3>2, <3>3
  <2>2. \A g \in contested' : \A h \in g : choice'[h] = None
    <3>1. ASSUME NEW g \in contested, NEW h \in g PROVE choice'[h] = choice[h]
      <4>1. g \in Groups /\ h \in Fields /\ GroupOf(h) = g
        BY <3>1, GroupFacts DEF SettingsInv, TypeOK
      <4> QED
        BY <1>2, <3>1, <4>1 DEF SettingsInv, TypeOK
    <3> QED
      BY <1>2, <3>1 DEF SettingsInv, ChoiceInv
  <2> QED
    BY <2>1, <2>2 DEF ChoiceInv
<1>10. PlainInv'
  <2>1. ASSUME NEW d \in calls', ~d.sent, GroupOf(d.field) \notin contested'
        PROVE  PlainCall(d)'
    <3>1. d \in calls /\ d # c
      BY <1>2, <1>4, <2>1
    <3>2. PlainCall(d)
      BY <1>2, <2>1, <3>1 DEF SettingsInv, PlainInv
    <3>3. GroupOf(d.field) # g0
      BY <1>3, <3>1, <3>2 DEF PlainCall, Alone
    <3> QED
      BY <1>2, <1>3, <1>6, <3>1, <3>2, <3>3 DEF PlainCall, Alone, ChangesOne
  <2>2. ASSUME NEW i \in DOMAIN downlink', GroupOf(downlink'[i].field) \notin contested'
        PROVE  PlainCommand(i)'
    <3>1. PICK n \in Nat : n = Len(downlink)
      BY <1>5
    <3>2. /\ DOMAIN downlink = 1..n /\ DOMAIN downlink' = 1..(n + 1)
          /\ \A j \in 1..n : downlink'[j] = downlink[j]
          /\ downlink'[n + 1] = k
      BY <1>2, <1>5, <3>1, AppendFacts
    <3>3. CASE i = n + 1
      <4>1. PlainCall(c)
        BY <1>2, <1>5, <2>2, <3>2, <3>3 DEF SettingsInv, PlainInv
      <4>2. \A j \in 1..n : downlink'[j].field \notin g0
        BY <3>2, <4>1 DEF PlainCall, Commanded
      <4> QED
        BY <1>2, <1>5, <3>2, <3>3, <4>1, <4>2 DEF PlainCall, PlainCommand, ChangesOne
    <3>4. CASE i # n + 1
      <4>1. i \in 1..n /\ downlink'[i] = downlink[i]
        BY <2>2, <3>2, <3>4
      <4>2. PlainCommand(i)
        BY <1>2, <2>2, <3>2, <4>1 DEF SettingsInv, PlainInv
      <4>3. GroupOf(downlink[i].field) # g0
        <5>1. ASSUME GroupOf(downlink[i].field) = g0 PROVE FALSE
          <6>1. PlainCall(c)
            BY <1>2, <2>2, <4>1, <5>1 DEF SettingsInv, PlainInv
          <6>2. downlink[i].field \in g0
            BY <3>2, <4>1, <5>1, QueueIsTyped DEF SettingsInv
          <6> QED
            BY <3>2, <4>1, <6>1, <6>2 DEF PlainCall, Commanded
        <5> QED
          BY <5>1
      <4>4. c.field \notin GroupOf(downlink[i].field)
        BY <3>2, <4>1, <4>3, QueueIsTyped, GroupFacts DEF SettingsInv
      <4> QED
        BY <1>2, <1>5, <3>2, <4>1, <4>2, <4>4 DEF PlainCommand, ChangesOne
    <3> QED
      BY <3>3, <3>4
  <2> QED
    BY <2>1, <2>2 DEF PlainInv
<1> QED
  BY <1>1, <1>7, <1>8, <1>9, <1>10 DEF SettingsInv

\* A call that ends, or is marked as sent though its command was lost: those of
\* the other groups stay as they were.
LEMMA OthersKeepCalls ==
  ASSUME SettingsInv, NEW c \in calls, UNCHANGED <<robot, downlink, contested>>,
         \/ calls' = calls \ {c}
         \/ /\ calls' = (calls \ {c}) \cup {Sent(c)}
            /\ c.field \notin DockGroup => GroupOf(c.field) \in doubtful',
         doubtful \subseteq doubtful'
  PROVE  CallInv' /\ PlainInv'
<1> DEFINE g0 == GroupOf(c.field)
           c1 == Sent(c)
<1>1. /\ c \in CallRecords /\ g0 \in Groups /\ c \in CallsOn(g0)
      /\ \A d \in calls : GroupOf(d.field) \in Groups /\ d \in CallsOn(GroupOf(d.field))
      /\ \A g \in Groups : g # g0 => CallsOn(g)' = CallsOn(g)
  BY MarkFacts DEF SettingsInv
<1>2. /\ c1.field = c.field /\ c1.value = c.value /\ c1.command = c.command
      /\ c1.seen = c.seen /\ c1.sent
  BY <1>1, SentFacts
<1>3. ASSUME NEW d \in calls', Alone(d), d \in calls, d # c
      PROVE  Alone(d)'
  BY <1>1, <1>3 DEF Alone
<1>4. ASSUME NEW d \in calls', d.field \notin DockGroup, GroupOf(d.field) \notin doubtful'
      PROVE  d \in calls /\ d # c
  BY <1>2, <1>4
<1> HIDE DEF c1
<1>5. CallInv'
  <2>1. ASSUME NEW d \in calls', d.field \notin DockGroup, GroupOf(d.field) \notin doubtful'
        PROVE  Alone(d)' /\ (d.sent => Final(GroupOf(d.field), d.command)')
    <3>1. Alone(d) /\ (d.sent => Final(GroupOf(d.field), d.command))
      BY <1>4, <2>1 DEF SettingsInv, CallInv
    <3> QED
      BY <1>3, <1>4, <2>1, <3>1 DEF Final, LastIs, Commanded, RobotIs
  <2>2. \A d \in calls' : d \in calls \/ d = c1
    BY DEF c1
  <2>3. ASSUME NEW d \in calls'
        PROVE  /\ d.command[d.field] = d.value
               /\ d.field \in TimeFields =>
                    \A h \in GroupOf(d.field) \ {d.field} : d.command[h] = d.seen.value[h]
    BY <1>2, <2>2, <2>3 DEF SettingsInv, CallInv
  <2> QED
    BY <2>1, <2>3 DEF CallInv
<1>6. PlainInv'
  <2>1. ASSUME NEW d \in calls', ~d.sent, GroupOf(d.field) \notin contested
        PROVE  PlainCall(d)'
    <3>1. d \in calls /\ d # c
      BY <1>2, <2>1 DEF c1
    <3>2. PlainCall(d)
      BY <2>1, <3>1 DEF SettingsInv, PlainInv
    <3> QED
      BY <1>3, <3>1, <3>2 DEF PlainCall, Commanded, ChangesOne
  <2>2. \A i \in DOMAIN downlink : PlainCommand(i) => PlainCommand(i)'
    BY DEF PlainCommand, ChangesOne
  <2> QED
    BY <2>1, <2>2 DEF SettingsInv, PlainInv
<1> QED
  BY <1>5, <1>6

LEMMA EndKeeps ==
  ASSUME SettingsInv, NEW c \in calls, Lose(c) \/ Refuse(c)
  PROVE  SettingsInv'
<1>1. TypeOK'
  BY CallTyped DEF SettingsInv
<1>2. /\ UNCHANGED <<robot, data, downlink, uplink, choice, contested, undone>>
      /\ doubtful \subseteq doubtful'
      /\ \/ calls' = calls \ {c}
         \/ /\ calls' = (calls \ {c}) \cup {Sent(c)}
            /\ c.field \notin DockGroup => GroupOf(c.field) \in doubtful'
  BY DEF Lose, Refuse, Sent, history
<1>3. CallInv' /\ PlainInv'
  BY <1>2, OthersKeepCalls
<1>4. Sent(c).seen = c.seen /\ Sent(c).field = c.field
  BY SentFacts DEF SettingsInv, TypeOK, CallRecords
<1>5. ViewInv'
  <2>1. ASSUME NEW g \in Groups PROVE Known(g)' => Known(g)
    BY <1>2, <1>4 DEF Known
  <2>2. ASSUME NEW g \in Groups
        PROVE  /\ Told(g)' <=> Told(g)
               /\ Commanded(g)' <=> Commanded(g)
               /\ Reported(g)' <=> Reported(g)
               /\ DataIs(g)' <=> DataIs(g)
    BY <1>2 DEF Told, Commanded, Reported, LastIsTrue, RobotIs, DataIs
  <2> QED
    BY <1>2, <2>1, <2>2 DEF SettingsInv, ViewInv
<1>6. ChoiceInv'
  <2>1. ASSUME NEW g, NEW v PROVE Final(g, v)' <=> Final(g, v)
    BY <1>2 DEF Final, LastIs, Commanded, RobotIs
  <2> QED
    BY <1>2, <2>1 DEF SettingsInv, ChoiceInv
<1> QED
  BY <1>1, <1>3, <1>5, <1>6 DEF SettingsInv

\* What a call shows is what becomes of its group, unless that is in doubt; what
\* a time entity sets back elsewhere is remembered as such.
LEMMA ReturnKeeps ==
  ASSUME SettingsInv, NEW c \in calls, Return(c)
  PROVE  SettingsInv'
<1> DEFINE g0 == GroupOf(c.field)
<1>1. TypeOK'
  BY ReturnTyped DEF SettingsInv
<1>2. /\ UNCHANGED <<robot, downlink, uplink, choice, contested, doubtful>>
      /\ calls' = calls \ {c} /\ c.sent /\ data' = Shown(c) /\ undone' = undone \cup SetBack(c)
  BY DEF Return
<1>3. CallInv' /\ PlainInv'
  BY <1>2, OthersKeepCalls
<1>4. ChoiceInv'
  <2>1. ASSUME NEW g, NEW v PROVE Final(g, v)' <=> Final(g, v)
    BY <1>2 DEF Final, LastIs, Commanded, RobotIs
  <2> QED
    BY <1>2, <2>1 DEF SettingsInv, ChoiceInv
<1>5. /\ c.field \in Fields /\ g0 \in Groups /\ c.field \in g0
      /\ c.field \in DockGroup => g0 = DockGroup /\ c.field \notin TimeFields
      /\ c.field \in TimeFields => c.seen \in Data
      /\ data \in Data
  BY GroupFacts, KindsOfGroups DEF SettingsInv, TypeOK
<1>6. ASSUME NEW d \in Data
      PROVE  /\ [d EXCEPT !.value[c.field] = c.value].received = d.received
             /\ [d EXCEPT !.value[c.field] = c.value].value[c.field] = c.value
             /\ \A h \in Fields \ {c.field} :
                  [d EXCEPT !.value[c.field] = c.value].value[h] = d.value[h]
  BY <1>5, <1>6 DEF Data
<1>7. /\ c.field \in DockGroup => data' = data
      /\ c.field \in TimeFields =>
           /\ data'.received = c.seen.received /\ data'.value[c.field] = c.value
           /\ \A h \in Fields \ {c.field} : data'.value[h] = c.seen.value[h]
      /\ c.field \notin DockGroup \cup TimeFields =>
           /\ data'.received = data.received /\ data'.value[c.field] = c.value
           /\ \A h \in Fields \ {c.field} : data'.value[h] = data.value[h]
  BY <1>2, <1>5, <1>6 DEF Shown, ShownByTime, ShownOptimistically
<1>8. ASSUME NEW g \in Groups
      PROVE  /\ Told(g)' <=> Told(g)
             /\ Commanded(g)' <=> Commanded(g)
             /\ Reported(g)' <=> Reported(g)
             /\ Known(g)' => Known(g)
  <2>1. Known(g)' => Known(g)
    BY <1>2, <1>5, <1>7 DEF Known
  <2> QED
    BY <1>2, <2>1 DEF Told, Commanded, Reported, LastIsTrue, RobotIs
<1>9. ASSUME NEW g \in Groups, Known(g)', g \notin doubtful \cup undone',
             ~Commanded(g), ~Reported(g)
      PROVE  DataIs(g)'
  <2>1. DataIs(g)
    BY <1>2, <1>8, <1>9 DEF SettingsInv, ViewInv
  <2>2. \A h \in g : h \in Fields /\ GroupOf(h) = g
    BY GroupFacts
  <2>3. CASE g # g0
    <3>1. \A h \in g : data'.value[h] = data.value[h]
      BY <1>2, <1>9, <2>3 DEF SetBack
    <3> QED
      BY <1>2, <2>1, <3>1 DEF DataIs
  <2>4. CASE g = g0 /\ c.field \in DockGroup
    BY <1>2, <1>7, <2>1, <2>4 DEF DataIs
  <2>5. CASE g = g0 /\ c.field \notin DockGroup
    <3>1. Final(g0, c.command) /\ c.command[c.field] = c.value
      BY <1>2, <1>9, <2>5 DEF SettingsInv, CallInv
    <3>2. RobotIs(g0, c.command)
      BY <1>9, <2>5, <3>1 DEF Final, LastIs, Commanded
    <3>3. CASE c.field \in TimeFields
      <4>1. \A h \in g0 \ {c.field} : c.command[h] = c.seen.value[h]
        BY <3>3 DEF SettingsInv, CallInv
      <4> QED
        BY <1>2, <1>7, <2>2, <2>5, <3>1, <3>2, <3>3, <4>1 DEF DataIs, RobotIs
    <3>4. CASE c.field \notin TimeFields
      BY <1>2, <1>5, <1>7, <2>1, <2>2, <2>5, <3>1, <3>2, <3>4 DEF DataIs, RobotIs
    <3> QED
      BY <3>3, <3>4
  <2> QED
    BY <2>3, <2>4, <2>5
<1>10. ViewInv'
  BY <1>2, <1>8, <1>9 DEF SettingsInv, ViewInv
<1> QED
  BY <1>1, <1>3, <1>4, <1>10 DEF SettingsInv

-----------------------------------------------------------------------------
(***************************************************************************)
(* The device and its reports.                                             *)
(***************************************************************************)
\* A report of the robot as it is now leaves the entities told of its group and
\* concerns no other.
LEMMA ReportKeepsView ==
  ASSUME SettingsInv, NEW g0 \in Groups, robot' \in [Fields -> BOOLEAN],
         \A h \in Fields : h \notin g0 => robot'[h] = robot[h],
         uplink' = Append(uplink, ReportOf(robot', g0)),
         UNCHANGED <<data, calls, undone>>, doubtful \subseteq doubtful',
         \A g \in Groups : g # g0 => (Commanded(g)' <=> Commanded(g))
  PROVE  ViewInv'
<1>0. PICK r \in Values(g0) : r = ReportOf(robot', g0) /\ \A h \in g0 : r[h] = robot'[h]
  BY ReportIsTyped
<1>1. r \in GroupValues /\ DOMAIN r = g0
  BY ValuesAreTyped
<1>2. uplink \in Seq(GroupValues)
  BY DEF SettingsInv, TypeOK
<1>3. Reported(g0)' /\ LastIsTrue(g0)'
  <2>1. RobotIs(g0, r)'
    BY <1>0 DEF RobotIs
  <2> QED
    BY <1>0, <1>1, <1>2, <2>1, ReportEffect
<1>4. ASSUME NEW g \in Groups, g # g0
      PROVE  /\ Told(g) => Told(g)'
             /\ Reported(g)' <=> Reported(g)
             /\ Known(g)' <=> Known(g)
             /\ DataIs(g)' <=> DataIs(g)
  <2>1. \A h \in g : h \in Fields /\ h \notin g0
    BY <1>4, GroupFacts
  <2>2. \A h \in g : robot'[h] = robot[h]
    BY <2>1
  <2>3. (Reported(g)' <=> Reported(g)) /\ (LastIsTrue(g) => LastIsTrue(g)')
    BY <1>0, <1>1, <1>2, <1>4, <2>2, ReportEffect
  <2>4. Known(g)' <=> Known(g)
    BY DEF Known
  <2>5. DataIs(g)' <=> DataIs(g)
    BY <2>2 DEF DataIs
  <2> QED
    BY <1>4, <2>3, <2>4, <2>5 DEF Told
<1>5. ASSUME NEW g \in Groups
      PROVE  /\ Told(g)'
             /\ Known(g)' /\ g \notin (doubtful \cup undone)' /\ ~Commanded(g)' /\ ~Reported(g)'
                  => DataIs(g)'
  <2>1. CASE g = g0
    BY <1>3, <2>1 DEF Told
  <2>2. CASE g # g0
    BY <1>4, <2>2 DEF SettingsInv, ViewInv
  <2> QED
    BY <2>1, <2>2
<1> QED
  BY <1>5 DEF ViewInv

LEMMA ApplyKeeps ==
  ASSUME SettingsInv, Apply
  PROVE  SettingsInv'
<1> DEFINE k == Head(downlink)
           g0 == GroupOf(k.field)
<1>1. TypeOK'
  BY DeviceTyped DEF SettingsInv
<1>2. /\ downlink # <<>> /\ downlink' = Tail(downlink)
      /\ UNCHANGED <<data, calls, choice, contested, doubtful, undone>>
      /\ robot' = [f \in Fields |-> IF f \in DOMAIN k.values THEN k.values[f] ELSE robot[f]]
      /\ uplink' = Append(uplink, ReportOf(robot', g0))
  BY DEF Apply, history
<1>3. /\ g0 \in Groups /\ k.field \in g0 /\ k.values \in Values(g0) /\ DOMAIN k.values = g0
      /\ downlink \in Seq(Commands)
  BY <1>2, HeadIsTyped, GroupFacts, ValuesAreTyped DEF SettingsInv
<1>4. /\ \A h \in g0 : robot'[h] = k.values[h]
      /\ \A h \in Fields : h \notin g0 => robot'[h] = robot[h]
  BY <1>2, <1>3, GroupFacts
<1>5. PICK n \in Nat : /\ n >= 1 /\ DOMAIN downlink = 1..n /\ DOMAIN downlink' = 1..(n - 1)
                        /\ \A i \in 1..(n - 1) : downlink'[i] = downlink[i + 1]
                        /\ k = downlink[1]
  BY <1>2, <1>3, TailFacts
<1>6. Commanded(g0)
  <2>1. 1 \in DOMAIN downlink
    BY <1>5
  <2>2. k = downlink[1]
    BY <1>5
  <2>3. k.field \in g0
    BY <1>3
  <2> HIDE DEF k, g0
  <2>4. downlink[1].field \in g0
    BY <2>2, <2>3
  <2> QED
    BY <2>1, <2>4 DEF Commanded
<1> HIDE DEF k
<1>7. ASSUME NEW g \in Groups
      PROVE  /\ g # g0 => (Commanded(g)' <=> Commanded(g))
             /\ \A v : Final(g, v) => Final(g, v)'
  <2>1. k.field \in g <=> g = g0
    BY <1>3, GroupFacts
  <2>2. /\ k.field \notin g => (Commanded(g)' <=> Commanded(g))
        /\ \A v : LastIs(g, v) =>
             LastIs(g, v)' \/ (~Commanded(g)' /\ k.values = v /\ k.field \in g)
    BY <1>2, <1>3, ApplyEffect DEF k
  <2>3. ASSUME NEW v, Final(g, v) PROVE Final(g, v)'
    <3>1. CASE LastIs(g, v)
      BY <1>4, <2>1, <2>2, <3>1 DEF Final, RobotIs
    <3>2. CASE ~Commanded(g) /\ RobotIs(g, v)
      <4>1. g # g0
        BY <1>6, <3>2
      <4>2. \A h \in g : h \in Fields /\ h \notin g0
        BY <4>1, <1>3, GroupFacts
      <4> QED
        BY <1>4, <2>1, <2>2, <3>2, <4>1, <4>2 DEF Final, RobotIs
    <3> QED
      BY <2>3, <3>1, <3>2 DEF Final
  <2> QED
    BY <2>1, <2>2, <2>3
<1>8. ViewInv'
  <2>1. robot' \in [Fields -> BOOLEAN]
    BY <1>1 DEF TypeOK
  <2> QED
    BY <1>2, <1>3, <1>4, <1>7, <2>1, ReportKeepsView
<1>9. \A c \in calls : GroupOf(c.field) \in Groups
  BY GroupFacts DEF SettingsInv, TypeOK
<1>10. CallInv'
  <2>1. ASSUME NEW c \in calls, Alone(c) PROVE Alone(c)'
    BY <1>2, <2>1 DEF Alone, CallsOn
  <2> QED
    BY <1>2, <1>7, <1>9, <2>1 DEF SettingsInv, CallInv
<1>11. ChoiceInv'
  BY <1>2, <1>7, GroupFacts DEF SettingsInv, ChoiceInv
<1>12. ASSUME NEW f \in Fields, GroupOf(f) # g0, NEW v
       PROVE  ChangesOne(f, v) => ChangesOne(f, v)'
  <2>1. \A h \in GroupOf(f) : h \in Fields /\ h \notin g0
    BY <1>12, <1>3, GroupFacts
  <2> QED
    BY <1>4, <2>1 DEF ChangesOne
<1>13. PlainInv'
  <2>1. ASSUME NEW c \in calls, ~c.sent, GroupOf(c.field) \notin contested
        PROVE  PlainCall(c)'
    <3>1. PlainCall(c) /\ c.field \in Fields
      BY <2>1 DEF SettingsInv, PlainInv, TypeOK
    <3>2. GroupOf(c.field) # g0
      BY <1>6, <3>1 DEF PlainCall
    <3>3. Alone(c)'
      BY <1>2, <3>1 DEF PlainCall, Alone, CallsOn
    <3> QED
      BY <1>7, <1>9, <1>12, <3>1, <3>2, <3>3 DEF PlainCall
  <2>2. ASSUME NEW i \in DOMAIN downlink', GroupOf(downlink'[i].field) \notin contested
        PROVE  PlainCommand(i)'
    <3>1. i \in 1..(n - 1) /\ i + 1 \in 1..n /\ downlink'[i] = downlink[i + 1]
      BY <1>5, <2>2
    <3>2. PlainCommand(i + 1) /\ downlink[i + 1].field \in Fields
      BY <1>5, <2>2, <3>1, QueueIsTyped DEF SettingsInv, PlainInv
    <3>3. GroupOf(downlink[i + 1].field) # g0
      BY <1>3, <1>5, <3>1, <3>2 DEF PlainCommand
    <3>4. ChangesOne(downlink[i + 1].field, downlink[i + 1].values)
      BY <3>2 DEF PlainCommand
    <3>5. \A h \in GroupOf(downlink[i + 1].field) \ {downlink[i + 1].field} :
            downlink[i + 1].values[h] = robot'[h]
      <4>1. \A h \in GroupOf(downlink[i + 1].field) : h \in Fields /\ h \notin g0
        BY <3>2, <3>3, <1>3, GroupFacts
      <4> QED
        BY <1>4, <3>4, <4>1 DEF ChangesOne
    <3>6. \A j \in 1..(n - 1) :
            downlink'[j].field \in GroupOf(downlink'[i].field) => j = i
      BY <1>5, <3>1, <3>2 DEF PlainCommand
    <3> QED
      BY <1>5, <3>1, <3>5, <3>6 DEF PlainCommand, ChangesOne
  <2> QED
    BY <1>2, <2>1, <2>2 DEF PlainInv
<1> QED
  BY <1>1, <1>8, <1>10, <1>11, <1>13 DEF SettingsInv

\* A setting that changes by itself: nothing of its group was on its way, or the
\* choices for it no longer bind.
LEMMA ChangeKeeps ==
  ASSUME SettingsInv, NEW f \in Fields, ChangeItself(f)
  PROVE  SettingsInv'
<1> DEFINE g0 == GroupOf(f)
<1>1. TypeOK'
  BY DeviceTyped DEF SettingsInv
<1>2. /\ UNCHANGED <<data, calls, downlink, undone>>
      /\ robot' = [robot EXCEPT ![f] = ~@]
      /\ uplink' = Append(uplink, ReportOf(robot', g0))
      /\ IF InMotion(g0) THEN Disturb(g0)
         ELSE choice' = [choice EXCEPT ![f] = None] /\ UNCHANGED contested
      /\ doubtful' = IF CallsOn(g0) # {} /\ g0 # DockGroup THEN doubtful \cup {g0} ELSE doubtful
  BY DEF ChangeItself
<1>3. g0 \in Groups /\ f \in g0 /\ \A h \in Fields : h # f => robot'[h] = robot[h]
  BY <1>2, GroupFacts DEF SettingsInv, TypeOK
<1>4. \A h \in Fields : h \notin g0 => robot'[h] = robot[h]
  BY <1>3
<1>5. ASSUME NEW g
      PROVE  /\ Commanded(g)' <=> Commanded(g)
             /\ \A v : LastIs(g, v)' <=> LastIs(g, v)
             /\ CallsOn(g)' = CallsOn(g)
  BY <1>2 DEF Commanded, LastIs, CallsOn
<1>6. ASSUME NEW g \in Groups, g # g0
      PROVE  \A h \in g : h \in Fields /\ h # f /\ robot'[h] = robot[h]
  BY <1>3, <1>4, <1>6, GroupFacts
<1>7. ASSUME NEW g \in Groups, g # g0, NEW v, Final(g, v) PROVE Final(g, v)'
  BY <1>5, <1>6, <1>7 DEF Final, RobotIs
<1>8. ViewInv'
  <2>1. robot' \in [Fields -> BOOLEAN] /\ doubtful \subseteq doubtful'
    BY <1>1, <1>2 DEF TypeOK
  <2> QED
    BY <1>2, <1>3, <1>4, <1>5, <2>1, ReportKeepsView
<1>9. \A c \in calls : /\ GroupOf(c.field) \in Groups /\ c \in CallsOn(GroupOf(c.field))
                        /\ c.field \in Fields /\ c.field \in GroupOf(c.field)
  BY GroupFacts DEF SettingsInv, TypeOK, CallsOn
<1>10. CallInv'
  <2>1. ASSUME NEW c \in calls, c.field \notin DockGroup, GroupOf(c.field) \notin doubtful'
        PROVE  Alone(c)' /\ (c.sent => Final(GroupOf(c.field), c.command)')
    <3>1. GroupOf(c.field) # g0
      BY <1>2, <1>9, <2>1
    <3>2. Alone(c) /\ (c.sent => Final(GroupOf(c.field), c.command))
      BY <1>2, <2>1 DEF SettingsInv, CallInv
    <3> QED
      BY <1>5, <1>7, <1>9, <3>1, <3>2 DEF Alone
  <2> QED
    BY <1>2, <2>1 DEF SettingsInv, CallInv
<1>11. contested \subseteq contested' /\ (InMotion(g0) => g0 \in contested')
  BY <1>2 DEF Disturb
<1>12. ChoiceInv'
  <2>1. ASSUME NEW h \in Fields, choice'[h] # None
        PROVE  /\ choice'[h] = choice[h]
               /\ h \in g0 => ~InMotion(g0) /\ h # f
    BY <1>2, <1>3, <2>1 DEF SettingsInv, TypeOK, Disturb
  <2>2. ASSUME NEW h \in Fields, choice'[h] # None
        PROVE  \E v \in Values(GroupOf(h)) : Final(GroupOf(h), v)' /\ v[h] = choice'[h]
    <3>0. GroupOf(h) \in Groups /\ h \in GroupOf(h) /\ choice'[h] = choice[h]
      BY <2>1, <2>2, GroupFacts
    <3>1. PICK v \in Values(GroupOf(h)) : Final(GroupOf(h), v) /\ v[h] = choice[h]
      BY <2>2, <3>0 DEF SettingsInv, ChoiceInv
    <3>2. CASE GroupOf(h) # g0
      BY <1>7, <3>0, <3>1, <3>2
    <3>3. CASE GroupOf(h) = g0
      <4>1. ~Commanded(g0) /\ h # f
        BY <2>1, <2>2, <3>0, <3>3, StillFacts
      <4>2. robot'[h] = choice'[h]
        BY <1>3, <3>0, <3>1, <3>3, <4>1 DEF Final, LastIs, Commanded, RobotIs
      <4>3. ReportOf(robot', g0) \in Values(g0) /\ \A x \in g0 : ReportOf(robot', g0)[x] = robot'[x]
        BY <1>1, <1>3, ReportIsTyped DEF TypeOK
      <4>4. ASSUME NEW w, \A x \in g0 : w[x] = robot'[x] PROVE Final(g0, w)'
        BY <1>5, <4>1, <4>4 DEF Final, RobotIs
      <4>5. PICK w \in Values(g0) : \A x \in g0 : w[x] = robot'[x]
        BY <4>3
      <4> QED
        BY <3>0, <3>3, <4>2, <4>4, <4>5
    <3> QED
      BY <3>2, <3>3
  <2>3. \A g \in contested' : \A h \in g : choice'[h] = None
    <3>1. ASSUME NEW g \in contested, NEW h \in g PROVE choice'[h] = None
      <4>1. h \in Fields /\ choice[h] = None
        BY <3>1, GroupFacts DEF SettingsInv, TypeOK, ChoiceInv
      <4> QED
        BY <2>1, <4>1
    <3>2. ASSUME NEW h \in g0, contested' # contested PROVE choice'[h] = None
      <4>1. h \in Fields
        BY <1>3, GroupFacts
      <4> QED
        BY <1>2, <3>2, <4>1 DEF Disturb
    <3> QED
      BY <1>2, <3>1, <3>2 DEF Disturb
  <2> QED
    BY <2>2, <2>3 DEF ChoiceInv
<1>13. ASSUME NEW x \in Fields, GroupOf(x) # g0, NEW v
       PROVE  ChangesOne(x, v) => ChangesOne(x, v)'
  BY <1>6, <1>13, GroupFacts DEF ChangesOne
<1>14. PlainInv'
  <2>1. ASSUME NEW c \in calls, ~c.sent, GroupOf(c.field) \notin contested'
        PROVE  PlainCall(c)'
    <3>1. PlainCall(c)
      BY <1>11, <2>1 DEF SettingsInv, PlainInv
    <3>2. GroupOf(c.field) # g0
      BY <1>9, <1>11, <2>1, StillFacts
    <3> QED
      BY <1>5, <1>9, <1>13, <3>1, <3>2 DEF PlainCall, Alone
  <2>2. ASSUME NEW i \in DOMAIN downlink, GroupOf(downlink[i].field) \notin contested'
        PROVE  PlainCommand(i)'
    <3>1. PlainCommand(i) /\ downlink[i].field \in Fields /\ downlink[i].field \in GroupOf(downlink[i].field)
      BY <1>11, <2>2, QueueIsTyped DEF SettingsInv, PlainInv
    <3>2. GroupOf(downlink[i].field) # g0
      BY <1>11, <2>2, <3>1, StillFacts DEF Commanded
    <3>3. ChangesOne(downlink[i].field, downlink[i].values)
      BY <3>1 DEF PlainCommand
    <3>4. \A h \in GroupOf(downlink[i].field) \ {downlink[i].field} :
            downlink[i].values[h] = robot'[h]
      BY <1>6, <3>1, <3>2, <3>3, GroupFacts DEF ChangesOne
    <3> QED
      BY <1>2, <3>1, <3>4 DEF PlainCommand, ChangesOne
  <2> QED
    BY <1>2, <2>1, <2>2 DEF PlainInv
<1> QED
  BY <1>1, <1>8, <1>10, <1>12, <1>14 DEF SettingsInv

LEMMA ReportKeeps ==
  ASSUME SettingsInv, NEW g0 \in Groups, Report(g0)
  PROVE  SettingsInv'
<1>1. TypeOK'
  BY DeviceTyped DEF SettingsInv
<1>2. /\ UNCHANGED <<robot, data, calls, downlink, choice, contested, doubtful, undone>>
      /\ uplink' = Append(uplink, ReportOf(robot', g0)) /\ robot' \in [Fields -> BOOLEAN]
  BY DEF Report, history, SettingsInv, TypeOK
<1>3. ASSUME NEW g
      PROVE  /\ Commanded(g)' <=> Commanded(g)
             /\ CallsOn(g)' = CallsOn(g)
             /\ \A v : Final(g, v)' <=> Final(g, v)
  BY <1>2 DEF Commanded, CallsOn, Final, LastIs, RobotIs
<1>4. ViewInv'
  BY <1>2, <1>3, ReportKeepsView
<1>5. CallInv' /\ ChoiceInv'
  BY <1>2, <1>3 DEF SettingsInv, CallInv, ChoiceInv, Alone
<1>6. PlainInv'
  BY <1>2, <1>3 DEF SettingsInv, PlainInv, PlainCall, PlainCommand, ChangesOne, Alone
<1> QED
  BY <1>1, <1>4, <1>5, <1>6 DEF SettingsInv

\* With its last report handled a group is shown as it is.
LEMMA HandleKeeps ==
  ASSUME SettingsInv, Handle
  PROVE  SettingsInv'
<1> DEFINE r == Head(uplink)
<1>1. TypeOK'
  BY HandleTyped DEF SettingsInv
<1>2. uplink \in Seq(GroupValues) /\ uplink # <<>> /\ uplink' = Tail(uplink)
  BY DEF Handle, SettingsInv, TypeOK
<1>3. PICK g0 \in Groups : r \in Values(g0)
  BY <1>2, TailFacts DEF GroupValues
<1>4. DOMAIN r = g0
  BY <1>3, ValuesAreTyped
<1>5. /\ UNCHANGED <<robot, calls, downlink, choice, contested>>
      /\ data' = [value |-> [f \in Fields |-> IF f \in g0 THEN r[f] ELSE data.value[f]],
                  received |-> data.received \cup {g0}]
      /\ doubtful' = IF CallsOn(g0) = {} THEN doubtful \ {g0} ELSE doubtful
      /\ undone' = undone \ {g0}
  BY <1>4 DEF Handle
<1> HIDE DEF r
<1>6. ASSUME NEW g
      PROVE  /\ Commanded(g)' <=> Commanded(g)
             /\ CallsOn(g)' = CallsOn(g)
             /\ \A v : Final(g, v)' <=> Final(g, v)
  BY <1>5 DEF Commanded, CallsOn, Final, LastIs, RobotIs
<1>7. ASSUME NEW g \in Groups
      PROVE  /\ g # g0 => (Reported(g)' <=> Reported(g))
             /\ Told(g) => Told(g)'
             /\ Told(g) /\ g = g0 /\ ~Commanded(g) /\ ~Reported(g)' => RobotIs(g, r)
  <2>1. /\ r = Head(uplink)
        /\ g # g0 => (Reported(g)' <=> Reported(g))
        /\ LastIsTrue(g) => LastIsTrue(g)' \/ (~Reported(g)' /\ RobotIs(g, r))
        /\ ~Reported(g) => ~Reported(g)'
    BY <1>2, <1>4, <1>5, HandleEffect DEF r
  <2>2. Reported(g0)
    <3>1. 1 \in DOMAIN uplink /\ uplink[1] = r
      BY <1>2, TailFacts DEF r
    <3> QED
      BY <1>4, <3>1 DEF Reported
  <2>3. LastIsTrue(g)' => Reported(g)'
    BY DEF LastIsTrue, Reported
  <2> QED
    BY <1>6, <2>1, <2>2, <2>3 DEF Told
<1>8. ASSUME NEW g \in Groups, Known(g)', g \notin (doubtful \cup undone)',
             ~Commanded(g)', ~Reported(g)'
      PROVE  DataIs(g)'
  <2>1. \A h \in g : h \in Fields /\ GroupOf(h) = g
    BY GroupFacts
  <2>2. CASE g = g0
    <3>1. RobotIs(g, r)
      BY <1>6, <1>7, <1>8, <2>2 DEF SettingsInv, ViewInv
    <3> QED
      BY <1>5, <2>1, <2>2, <3>1 DEF DataIs, RobotIs
  <2>3. CASE g # g0
    <3>1. DataIs(g)
      <4>1. Known(g) /\ g \notin doubtful \cup undone
        BY <1>5, <1>8, <2>3 DEF Known
      <4> QED
        BY <1>6, <1>7, <1>8, <2>3, <4>1 DEF SettingsInv, ViewInv
    <3>2. \A h \in g : h \notin g0
      BY <1>3, <2>1, <2>3, GroupFacts
    <3> QED
      BY <1>5, <2>1, <3>1, <3>2 DEF DataIs
  <2> QED
    BY <2>2, <2>3
<1>9. ViewInv'
  BY <1>7, <1>8 DEF SettingsInv, ViewInv
<1>10. CallInv'
  <2>1. ASSUME NEW c \in calls PROVE c \in CallsOn(GroupOf(c.field))
    BY GroupFacts DEF SettingsInv, TypeOK, CallsOn
  <2>2. \A c \in calls : GroupOf(c.field) \in doubtful => GroupOf(c.field) \in doubtful'
    BY <1>5, <2>1
  <2> QED
    BY <1>5, <1>6, <2>2 DEF SettingsInv, CallInv, Alone
<1>11. ChoiceInv'
  BY <1>5, <1>6 DEF SettingsInv, ChoiceInv
<1>12. PlainInv'
  BY <1>5, <1>6 DEF SettingsInv, PlainInv, PlainCall, PlainCommand, ChangesOne, Alone
<1> QED
  BY <1>1, <1>9, <1>10, <1>11, <1>12 DEF SettingsInv

-----------------------------------------------------------------------------
(***************************************************************************)
(* The theorems.                                                           *)
(***************************************************************************)
LEMMA SettingsInit == Init => SettingsInv
<1> SUFFICES ASSUME Init PROVE SettingsInv
  OBVIOUS
<1>1. /\ robot \in [Fields -> BOOLEAN] /\ calls = {} /\ downlink = <<>> /\ uplink = <<>>
      /\ choice = [f \in Fields |-> None]
      /\ contested = {} /\ doubtful = {} /\ undone = {}
      /\ data \in {Defaults, [value |-> robot, received |-> Groups]}
  BY DEF Init
<1>2. data \in Data
  <2>1. [f \in Fields |-> FALSE] \in [Fields -> BOOLEAN]
    OBVIOUS
  <2>2. CASE data = Defaults
    BY <2>1, <2>2 DEF Defaults, Data
  <2>3. CASE data = [value |-> robot, received |-> Groups]
    BY <1>1, <2>3 DEF Data
  <2> QED
    BY <1>1, <2>2, <2>3
<1>3. DOMAIN downlink = {} /\ DOMAIN uplink = {}
  BY <1>1
<1>4. TypeOK
  BY <1>1, <1>2, <1>3 DEF TypeOK
<1>5. ViewInv
  BY <1>1, <1>3 DEF ViewInv, Told, Known, Commanded, Reported, DataIs, Defaults
<1>6. CallInv /\ ChoiceInv /\ PlainInv
  BY <1>1, <1>3 DEF CallInv, ChoiceInv, PlainInv
<1> QED
  BY <1>4, <1>5, <1>6 DEF SettingsInv

LEMMA SettingsStep ==
  ASSUME SettingsInv, [Next]_vars
  PROVE  SettingsInv'
<1>1. ASSUME NEW f \in Fields, NEW v \in BOOLEAN, SetDock(f, v) \/ SetOwn(f, v) \/ SetTime(f, v)
      PROVE  SettingsInv'
  <2>1. data \in Data
    BY DEF SettingsInv, TypeOK
  <2>2. CASE SetTime(f, v)
    BY <2>1, <2>2, SetKeeps, NoneIsNoData DEF SetTime
  <2>3. CASE SetDock(f, v) \/ SetOwn(f, v)
    BY <2>3, SetKeeps, NoneIsNoData, KindsOfGroups DEF SetDock, SetOwn
  <2> QED
    BY <1>1, <2>2, <2>3
<1>2. ASSUME NEW c \in calls, Publish(c) \/ Lose(c) \/ Refuse(c) \/ Return(c)
      PROVE  SettingsInv'
  BY <1>2, PublishKeeps, EndKeeps, ReturnKeeps
<1>3. CASE Apply
  BY <1>3, ApplyKeeps
<1>4. CASE Handle
  BY <1>4, HandleKeeps
<1>5. CASE \E f \in Fields : ChangeItself(f)
  BY <1>5, ChangeKeeps
<1>6. CASE \E g \in Groups : Report(g)
  BY <1>6, ReportKeeps
<1>7. CASE UNCHANGED vars
  BY <1>7 DEF vars, history, SettingsInv, TypeOK, ViewInv, Told, LastIsTrue, Known, DataIs,
     Commanded, Reported, CallInv, Alone, CallsOn, Final, LastIs, RobotIs, ChoiceInv,
     PlainInv, PlainCall, PlainCommand, ChangesOne
<1> QED
  BY <1>1, <1>2, <1>3, <1>4, <1>5, <1>6, <1>7 DEF Next

LEMMA SettingsInvariant == Spec => []SettingsInv
BY SettingsInit, SettingsStep, PTL DEF Spec

\* Every state of the settings, calls and messages is well typed.
THEOREM SettingsTypeCorrect == Spec => []TypeOK
<1>1. SettingsInv => TypeOK
  BY DEF SettingsInv
<1> QED
  BY <1>1, SettingsInvariant, PTL

\* Once nothing is under way the entities show what the device has, though they
\* showed it before it was confirmed (_optimistically_update_state).
THEOREM ViewBecomesTrue == Spec => []ViewIsTrue
<1>1. SettingsInv => ViewIsTrue
  <2>1. ASSUME SettingsInv, Settled, NEW g \in data.received \ (doubtful \cup undone)
        PROVE  \A f \in g : data.value[f] = robot[f]
    <3>1. g \in Groups
      BY <2>1 DEF SettingsInv, TypeOK, Data
    <3>2. ~Commanded(g) /\ ~Reported(g) /\ Known(g)
      BY <2>1 DEF Settled, Commanded, Reported, Known
    <3> QED
      BY <2>1, <3>1, <3>2 DEF SettingsInv, ViewInv, DataIs
  <2> QED
    BY <2>1 DEF ViewIsTrue
<1> QED
  BY <1>1, SettingsInvariant, PTL

\* What was chosen last is what the device has, with two settings written as one
\* configuration from three platforms (set_collect_dust, set_wash_cfg, ...).
THEOREM ChoicesAreKept == Spec => []ChoicesLast
<1>1. SettingsInv => ChoicesLast
  <2>1. ASSUME SettingsInv, Settled, NEW f \in Fields, choice[f] # None
        PROVE  robot[f] = choice[f]
    <3>1. PICK v \in Values(GroupOf(f)) : Final(GroupOf(f), v) /\ v[f] = choice[f]
      BY <2>1 DEF SettingsInv, ChoiceInv
    <3>2. ~LastIs(GroupOf(f), v)
      BY <2>1 DEF Settled, LastIs
    <3> QED
      BY <3>1, <3>2, GroupFacts DEF Final, RobotIs
  <2> QED
    BY <2>1 DEF ChoicesLast
<1> QED
  BY <1>1, SettingsInvariant, PTL

\* A command changes the one setting its user chose, unless its group was in
\* motion when it was built.
THEOREM OtherSettingsStay == Spec => OthersUntouched
<1> DEFINE Untouched ==
      \A f \in Fields :
       /\ downlink # <<>> /\ downlink' = Tail(downlink)
       /\ robot'[f] # robot[f]
       => \/ f = Head(downlink).field
          \/ GroupOf(f) \in contested
<1>1. ASSUME SettingsInv, [Next]_vars PROVE Untouched
  <2>1. ASSUME NEW f \in Fields, downlink # <<>>, downlink' = Tail(downlink),
               robot'[f] # robot[f]
        PROVE  f = Head(downlink).field \/ GroupOf(f) \in contested
    <3>1. downlink' # downlink
      <4>1. downlink \in Seq(Commands)
        BY <1>1, <2>1, HeadIsTyped DEF SettingsInv
      <4>2. DOMAIN Tail(downlink) = 1..(Len(downlink) - 1) /\ DOMAIN downlink = 1..Len(downlink)
            /\ Len(downlink) \in Nat /\ Len(downlink) >= 1
        BY <2>1, <4>1, TailFacts
      <4>3. Len(downlink) \in DOMAIN downlink /\ Len(downlink) \notin DOMAIN Tail(downlink)
        BY <4>2
      <4> QED
        BY <2>1, <4>3
    <3>2. UNCHANGED robot \/ UNCHANGED downlink \/ Apply
      BY <1>1 DEF Next, SetDock, SetOwn, SetTime, Set, Publish, Lose, Refuse, Return,
         Handle, ChangeItself, Report, vars
    <3>3. Apply
      BY <2>1, <3>1, <3>2
    <3> DEFINE k == Head(downlink)
    <3>4. /\ k = downlink[1] /\ 1 \in DOMAIN downlink /\ DOMAIN k.values = GroupOf(k.field)
          /\ k.field \in Fields /\ k.values \in Values(GroupOf(k.field))
      BY <1>1, <2>1, HeadIsTyped, TailFacts, ValuesAreTyped DEF SettingsInv
    <3>5. robot'[f] = IF f \in DOMAIN k.values THEN k.values[f] ELSE robot[f]
      BY <2>1, <3>3 DEF Apply
    <3> HIDE DEF k
    <3>6. f \in GroupOf(k.field) /\ GroupOf(f) = GroupOf(k.field)
      BY <2>1, <3>4, <3>5, GroupFacts
    <3>7. ASSUME GroupOf(k.field) \notin contested PROVE f = k.field
      <4>1. ChangesOne(k.field, k.values)
        BY <1>1, <3>4, <3>7 DEF SettingsInv, PlainInv, PlainCommand
      <4> QED
        BY <2>1, <3>4, <3>5, <3>6, <4>1 DEF ChangesOne
    <3> QED
      BY <3>6, <3>7 DEF k
  <2> QED
    BY <2>1
<1>2. SettingsInv /\ [Next]_vars => [Untouched]_vars
  BY <1>1
<1> QED
  BY <1>2, SettingsInvariant, PTL DEF Spec, OthersUntouched
=============================================================================
