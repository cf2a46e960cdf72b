---------------------------- MODULE StorageProofs ----------------------------
(***************************************************************************)
(* What the Store keeps of the maps remembered, for any maps and rooms and *)
(* any number of changes and restarts.                                     *)
(*                                                                         *)
(* While only saves of one part overlap, the contents on the way to the    *)
(* disk are in order: what waits to be written holds at least the maps     *)
(* that are being written, those hold what is in the file, and memory      *)
(* holds them all, the forgotten ones aside.  The newest of them holds the *)
(* maps in memory unless a save of the maps still waits for its load or a  *)
(* write was refused; when the saves are of another part they all hold the *)
(* maps of the file, what has been read too.                               *)
(***************************************************************************)
EXTENDS Storage, FiniteSetTheorems, SequenceTheorems, WellFoundedInduction, TLAPS

LEMMA AppendFacts ==
  ASSUME NEW S, NEW q \in Seq(S), NEW e \in S
  PROVE  /\ Append(q, e) \in Seq(S) /\ Len(q) \in Nat
         /\ Len(Append(q, e)) = Len(q) + 1
         /\ DOMAIN q = 1..Len(q) /\ DOMAIN Append(q, e) = 1..(Len(q) + 1)
         /\ \A i \in 1..Len(q) : Append(q, e)[i] = q[i]
         /\ Append(q, e)[Len(q) + 1] = e
         /\ Append(q, e) # <<>>
OBVIOUS

LEMMA TailFacts ==
  ASSUME NEW S, NEW q \in Seq(S), q # <<>>
  PROVE  /\ Tail(q) \in Seq(S) /\ Len(q) \in Nat /\ Len(q) >= 1
         /\ Len(Tail(q)) = Len(q) - 1
         /\ DOMAIN q = 1..Len(q) /\ DOMAIN Tail(q) = 1..(Len(q) - 1)
         /\ \A i \in 1..(Len(q) - 1) : Tail(q)[i] = q[i + 1]
OBVIOUS

-----------------------------------------------------------------------------
(***************************************************************************)
(* The versions a load leaves: InTurn does define a function, by induction *)
(* on the tasks, and what every task keeps all the versions keep.          *)
(***************************************************************************)
LEMMA SetInduction ==
  ASSUME NEW S, 0 \in S, \A n \in Nat : n \in S => n + 1 \in S
  PROVE  Nat \subseteq S
<1> DEFINE R == {ss \in Nat \X Nat : ss[1] < ss[2]}
           T == Nat \ S
<1>1. IsWellFoundedOn(R, Nat)
  BY NatLessThanWellFounded DEF OpToRel
<1>2. ASSUME T # {} PROVE FALSE
  <2>1. T \subseteq Nat
    OBVIOUS
  <2> HIDE DEF R, T
  <2>2. PICK x \in T : \A y \in T : ~ (<<y, x>> \in R)
    BY <1>1, <1>2, <2>1, WFMin
  <2>3. x \in Nat /\ x # 0 /\ x - 1 \in Nat
    BY <2>1 DEF T
  <2>4. x - 1 \in T
    BY <2>3 DEF T
  <2>5. <<x - 1, x>> \in R
    BY <2>3 DEF R
  <2> QED BY <2>2, <2>4, <2>5
<1> QED BY <1>2

LEMMA OneMoreValue ==
  ASSUME NEW D, NEW n \in Nat, NEW f \in [0..n -> D], NEW v \in D
  PROVE  [i \in 0..(n + 1) |-> IF i = n + 1 THEN v ELSE f[i]] \in [0..(n + 1) -> D]
<1>1. ASSUME NEW i \in 0..(n + 1) PROVE (IF i = n + 1 THEN v ELSE f[i]) \in D
  <2>1. CASE i = n + 1
    BY <2>1
  <2>2. CASE i # n + 1
    <3>1. i \in 0..n
      BY <2>2
    <3>2. f[i] \in D
      BY <3>1
    <3> QED BY <2>2, <3>2
  <2> QED BY <2>1, <2>2
<1> QED BY <1>1, Zenon

\* The values that start at d and follow the steps of m tasks.
Follows(f, step, d, n) ==
  f[0] = d /\ \A i \in 1..n : f[i] = step[i][f[i - 1]]

LEMMA RunExists ==
  ASSUME NEW D, NEW m \in Nat, NEW step \in [1..m -> [D -> D]], NEW d \in D
  PROVE  \E f \in [0..m -> D] : Follows(f, step, d, m)
<1> DEFINE Fits(n) == n <= m => \E f \in [0..n -> D] : Follows(f, step, d, n)
           S == {n \in Nat : Fits(n)}
<1>1. Fits(0)
  <2> DEFINE f == [i \in 0..0 |-> d]
  <2>1. f \in [0..0 -> D]
    OBVIOUS
  <2>2. Follows(f, step, d, 0)
    BY DEF Follows
  <2> QED BY <2>1, <2>2
<1>2. ASSUME NEW n \in Nat, n \in S PROVE n + 1 \in S
  <2>1. CASE n + 1 <= m
    <3>1. PICK f \in [0..n -> D] : Follows(f, step, d, n)
      BY <1>2, <2>1
    <3> DEFINE v == step[n + 1][f[n]]
               g == [i \in 0..(n + 1) |-> IF i = n + 1 THEN v ELSE f[i]]
    <3>2. v \in D
      <4>1. n + 1 \in 1..m /\ f[n] \in D
        BY <2>1
      <4>2. step[n + 1] \in [D -> D]
        BY <4>1
      <4> QED BY <4>1, <4>2
    <3>3. g \in [0..(n + 1) -> D]
      <4> HIDE DEF v
      <4> QED BY <3>2, OneMoreValue
    <3>4. g[0] = d
      BY <3>1 DEF Follows
    <3>5. ASSUME NEW i \in 1..(n + 1) PROVE g[i] = step[i][g[i - 1]]
      <4>1. CASE i = n + 1
        <5>1. g[i] = v /\ i - 1 = n /\ i - 1 \in 0..(n + 1) /\ i - 1 # n + 1
          BY <4>1
        <5>2. g[i - 1] = f[n]
          BY <5>1
        <5> QED BY <4>1, <5>1, <5>2
      <4>2. CASE i # n + 1
        <5>1. i \in 1..n /\ i \in 0..(n + 1) /\ i - 1 \in 0..(n + 1) /\ i - 1 # n + 1
          BY <4>2
        <5>2. g[i] = f[i] /\ g[i - 1] = f[i - 1]
          BY <5>1, <4>2
        <5>3. f[i] = step[i][f[i - 1]]
          BY <3>1, <5>1 DEF Follows
        <5> QED BY <5>2, <5>3
      <4> QED BY <4>1, <4>2
    <3>6. Follows(g, step, d, n + 1)
      <4> HIDE DEF g
      <4> QED BY <3>4, <3>5 DEF Follows
    <3>7. Fits(n + 1)
      <4> HIDE DEF g
      <4> QED BY <3>3, <3>6
    <3>8. n + 1 \in Nat
      OBVIOUS
    <3> HIDE DEF Fits
    <3> QED BY <3>7, <3>8
  <2>2. CASE ~(n + 1 <= m)
    <3>1. Fits(n + 1) /\ n + 1 \in Nat
      BY <2>2
    <3> HIDE DEF Fits
    <3> QED BY <3>1
  <2> QED BY <2>1, <2>2
<1>3. 0 \in S
  <2> HIDE DEF Fits
  <2> QED BY <1>1
<1>4. Nat \subseteq S
  <2> HIDE DEF S
  <2> QED BY <1>2, <1>3, SetInduction
<1>5. Fits(m)
  <2> HIDE DEF Fits
  <2> QED BY <1>4
<1> QED BY <1>5

\* A set of contents that every task keeps, and the versions that are what their
\* tasks make of one of these.
Keep(tasks, maps, D) ==
  \A i \in 1..Len(tasks) : \A e \in D : Put(tasks[i], e, maps) \in D

ComeFrom(D, tasks, d, maps) ==
  \A i \in 1..Len(tasks) :
    \E e \in D : InTurn(tasks, d, maps)[i] = Put(tasks[i], e, maps)

LEMMA VersionsStay ==
  ASSUME NEW D, NEW tasks \in Seq(Tasks), NEW d \in D, NEW maps,
         Keep(tasks, maps, D)
  PROVE  ComeFrom(D, tasks, d, maps)
<1> DEFINE m == Len(tasks)
           step == [i \in 1..m |-> [e \in D |-> Put(tasks[i], e, maps)]]
           Def(h) == [i \in 0..m |-> IF i = 0 THEN d ELSE Put(tasks[i], h[i - 1], maps)]
           run == InTurn(tasks, d, maps)
<1>1. m \in Nat
  OBVIOUS
<1>2. step \in [1..m -> [D -> D]]
  <2> HIDE DEF m
  <2>1. ASSUME NEW i \in 1..m PROVE [e \in D |-> Put(tasks[i], e, maps)] \in [D -> D]
    BY Zenon DEF m, Keep
  <2> QED BY <2>1, Zenon
<1>3. PICK f \in [0..m -> D] : Follows(f, step, d, m)
  <2> HIDE DEF m, step
  <2> QED BY <1>1, <1>2, RunExists
<1>4. f = Def(f)
  <2> HIDE DEF m
  <2>1. ASSUME NEW i \in 0..m
        PROVE  f[i] = IF i = 0 THEN d ELSE Put(tasks[i], f[i - 1], maps)
    <3>1. CASE i = 0
      BY <1>3, <3>1 DEF Follows
    <3>2. CASE i # 0
      <4>1. i \in 1..m /\ i - 1 \in 0..m
        BY <3>2, <1>1
      <4>2. f[i] = step[i][f[i - 1]] /\ f[i - 1] \in D
        BY <1>3, <4>1 DEF Follows
      <4>3. step[i][f[i - 1]] = Put(tasks[i], f[i - 1], maps)
        BY <4>1, <4>2
      <4> QED BY <4>2, <4>3, <3>2
    <3> QED BY <3>1, <3>2
  <2> QED BY <2>1
<1>5. run = Def(run)
  BY <1>4 DEF InTurn
<1> HIDE DEF m, run
<1>6. ASSUME NEW i \in 0..m
      PROVE  run[i] = IF i = 0 THEN d ELSE Put(tasks[i], run[i - 1], maps)
  BY <1>5
<1>7. run[0] = d /\ \A i \in 1..m : run[i] = Put(tasks[i], run[i - 1], maps)
  <2>1. 0 \in 0..m /\ \A i \in 1..m : i \in 0..m /\ i # 0
    BY <1>1
  <2> QED BY <1>6, <2>1
<1>8. ASSUME NEW i \in 0..m PROVE run[i] \in D
  <2> DEFINE P == {k \in Nat : k \in 0..m => run[k] \in D}
  <2>1. 0 \in P
    BY <1>7
  <2>2. ASSUME NEW k \in Nat, k \in P PROVE k + 1 \in P
    <3>1. CASE k + 1 \in 0..m
      <4>1. k \in 0..m /\ k + 1 \in 1..m /\ (k + 1) - 1 = k
        BY <3>1, <1>1
      <4>2. run[k] \in D /\ run[k + 1] = Put(tasks[k + 1], run[k], maps)
        BY <2>2, <1>7, <4>1
      <4>3. run[k + 1] \in D
        BY <4>1, <4>2 DEF m, Keep
      <4> QED BY <4>3
    <3> QED BY <3>1
  <2>3. Nat \subseteq P
    <3> HIDE DEF P
    <3> QED BY <2>1, <2>2, SetInduction
  <2> QED BY <2>3, <1>1
<1>9. ASSUME NEW i \in 1..m PROVE \E e \in D : run[i] = Put(tasks[i], e, maps)
  <2>1. i - 1 \in 0..m
    BY <1>1
  <2> QED BY <1>7, <1>8, <2>1
<1> QED BY <1>9 DEF m, run, ComeFrom

-----------------------------------------------------------------------------
(***************************************************************************)
(* What the steps do to the contents on their way.                         *)
(***************************************************************************)
LEMMA PutIsData ==
  ASSUME NEW task \in Tasks, NEW d \in Data, NEW maps \in SUBSET Maps
  PROVE  /\ Put(task, d, maps) \in Data
         /\ Put(task, d, maps).maps = IF task.part = "maps" THEN maps ELSE d.maps
BY DEF Put, Data, Tasks

\* A save of contents that all are in D.
Stores(D) ==
  \/ /\ ~(writing = None /\ pending = None)
     /\ pending' \in D /\ writing' = writing
  \/ /\ writing = None /\ pending = None
     /\ writing' \in D /\ pending' \in D \cup {None}

LEMMA SaveStores ==
  ASSUME NEW D, NEW versions \in Seq(D), versions # <<>>, NEW shared,
         Save(versions, shared)
  PROVE  Stores(D)
<1>1. /\ Len(versions) \in Nat /\ Len(versions) >= 1
      /\ DOMAIN versions = 1..Len(versions)
  BY TailFacts
<1>2. versions[1] \in D /\ versions[Len(versions)] \in D
  BY <1>1
<1>3. Range(versions) \subseteq D
  BY <1>1 DEF Range
<1> QED
  BY <1>2, <1>3 DEF Save, Stores

Alone == \A x, y \in parts : x = y

NoMapsTask == \A i \in 1..Len(loading) : loading[i].part # "maps"

LEMMA StartedMeans ==
  ASSUME loading \in Seq(Tasks)
  PROVE  Started <=> \A i \in 1..Len(loading) : loading[i] # Startup
BY DEF Started, Range

LEMMA AloneMeans ==
  ASSUME parts \subseteq {"maps", "rooms", "image"}
  PROVE  Cardinality(parts) <= 1 <=> Alone
<1>1. IsFiniteSet(parts) /\ Cardinality(parts) \in Nat
  <2>1. IsFiniteSet({"maps", "rooms", "image"})
    <3>1. IsFiniteSet({} \cup {"maps"})
      BY FS_EmptySet, FS_AddElement
    <3>2. IsFiniteSet(({} \cup {"maps"}) \cup {"rooms"})
      BY <3>1, FS_AddElement
    <3>3. IsFiniteSet((({} \cup {"maps"}) \cup {"rooms"}) \cup {"image"})
      BY <3>2, FS_AddElement
    <3>4. (({} \cup {"maps"}) \cup {"rooms"}) \cup {"image"} = {"maps", "rooms", "image"}
      OBVIOUS
    <3> QED BY <3>3, <3>4
  <2> QED BY <2>1, FS_Subset, FS_CardinalityType
<1>2. ASSUME Cardinality(parts) <= 1 PROVE Alone
  <2>1. Cardinality(parts) = 0 \/ Cardinality(parts) = 1
    BY <1>1, <1>2
  <2>2. parts = {} \/ \E x : parts = {x}
    BY <1>1, <2>1, FS_EmptySet, FS_Singleton
  <2> QED BY <2>2 DEF Alone
<1>3. ASSUME Alone PROVE Cardinality(parts) <= 1
  <2>1. CASE parts = {}
    BY <2>1, FS_EmptySet
  <2>2. CASE parts # {}
    <3>1. PICK x \in parts : TRUE
      BY <2>2
    <3>2. parts = {x}
      BY <1>3, <3>1 DEF Alone
    <3> QED BY <3>2, FS_Singleton
  <2> QED BY <2>1, <2>2
<1> QED BY <1>2, <1>3

\* How a save begins, when its task and the new memory are well typed.
LEMMA BeginEffects ==
  ASSUME TypeOK, NEW task \in Tasks, task.part \in {"maps", "rooms", "image"},
         memory' \in Data, Begin(task)
  PROVE  /\ parts' = IF Quiet /\ Alone THEN {task.part} ELSE parts \cup {task.part}
         /\ \/ /\ loading' = Append(loading, task)
               /\ UNCHANGED <<pending, writing>>
            \/ /\ loading = <<>> /\ loading' = loading
               /\ pending # None
               /\ pending' = Put(task, pending, memory'.maps) /\ writing' = writing
<1>1. parts' = IF Quiet /\ Alone THEN {task.part} ELSE parts \cup {task.part}
  BY AloneMeans DEF TypeOK, Begin, Overlap
<1>2. ASSUME pending # None, Save(<<Put(task, pending, memory'.maps)>>, TRUE)
      PROVE  pending' = Put(task, pending, memory'.maps) /\ writing' = writing
  <2>1. Len(<<Put(task, pending, memory'.maps)>>) = 1 /\ <<Put(task, pending, memory'.maps)>>[1] = Put(task, pending, memory'.maps)
    OBVIOUS
  <2> HIDE DEF Put
  <2> QED BY <1>2, <2>1 DEF Save
<1> QED
  BY <1>1, <1>2 DEF Begin

\* What a load that ends stores, for contents that every waiting save keeps.
LEMMA LoadStores ==
  ASSUME TypeOK, LoadEnds, memory' \in Data, NEW D, D \subseteq Data,
         Savers \in Seq(Tasks), Savers # <<>>,
         \A i \in 1..Len(Savers) : \A e \in Data : 
            e \in D \/ Savers[i].part = "maps" => Put(Savers[i], e, memory'.maps) \in D,
         (\A i \in 1..Len(Savers) : Savers[i].part = "maps")
           \/ (IF found = None THEN Empty ELSE found) \in D
  PROVE  Stores(D)
<1> DEFINE versions == [i \in 1..Len(Savers) |->
                          IF found = None THEN Put(Savers[i], Empty, memory'.maps)
                          ELSE InTurn(Savers, found, memory'.maps)[i]]
<1>0. Save(versions, found # None)
  BY DEF LoadEnds
<1>1. Len(Savers) \in Nat /\ Len(Savers) >= 1
  BY TailFacts
<1>2. ASSUME NEW i \in 1..Len(Savers) PROVE versions[i] \in D
  <2>1. CASE found = None
    <3>1. Empty \in Data
      BY DEF Empty, Data
    <3> QED BY <1>2, <2>1, <3>1
  <2>2. CASE found # None
    <3>1. found \in Data
      BY <2>2 DEF TypeOK, LoadEnds
    <3>2. \E e \in Data : /\ found \in D => e \in D
                          /\ InTurn(Savers, found, memory'.maps)[i] = Put(Savers[i], e, memory'.maps)
      <4>1. CASE found \in D
        <5>1. Keep(Savers, memory'.maps, D)
          BY DEF Keep
        <5>2. ComeFrom(D, Savers, found, memory'.maps)
          BY <4>1, <5>1, VersionsStay
        <5> QED BY <4>1, <5>2 DEF ComeFrom
      <4>2. CASE found \notin D
        <5>1. Keep(Savers, memory'.maps, Data)
          <6>1. \A k \in 1..Len(Savers) : Savers[k] \in Tasks
            BY <1>1
          <6>2. memory'.maps \in SUBSET Maps
            BY DEF Data
          <6> QED BY <6>1, <6>2, PutIsData DEF Keep
        <5>2. ComeFrom(Data, Savers, found, memory'.maps)
          BY <3>1, <5>1, VersionsStay
        <5> QED BY <4>2, <5>2 DEF ComeFrom
      <4> QED BY <4>1, <4>2
    <3>3. versions[i] = InTurn(Savers, found, memory'.maps)[i]
      BY <2>2
    <3> QED BY <2>2, <3>2, <3>3
  <2> QED BY <2>1, <2>2
<1> DEFINE n == Len(Savers)
<1>3. versions \in [1..n -> D] /\ n \in Nat /\ n >= 1
  <2>1. versions = [i \in 1..n |-> versions[i]]
    OBVIOUS
  <2> HIDE DEF versions
  <2> QED BY <1>1, <1>2, <2>1
<1> HIDE DEF versions, n
<1>4. versions \in Seq(D) /\ versions # <<>>
  <2>1. versions \in Seq(D)
    BY <1>3, SeqDef
  <2>2. DOMAIN versions = 1..n
    BY <1>3
  <2>3. 1 \in 1..n
    BY <1>3
  <2>4. 1 \notin DOMAIN <<>>
    OBVIOUS
  <2> QED BY <2>1, <2>2, <2>3, <2>4
<1> QED BY <1>0, <1>4, SaveStores

-----------------------------------------------------------------------------
(***************************************************************************)
(* Types.                                                                  *)
(***************************************************************************)
LEMMA NoMarks == None \notin Data /\ Unread \notin Data /\ Unread # None
BY MarksAreNoData, MarksAreDistinct

LEMMA SaversTyped ==
  ASSUME loading \in Seq(Tasks), loading # <<>>
  PROVE  Savers \in Seq(Tasks)
BY TailFacts DEF Savers

LEMMA BeginKeepsTypes ==
  ASSUME TypeOK, NEW task \in Tasks, task.part \in {"maps", "rooms", "image"},
         memory' \in Data, Begin(task), UNCHANGED <<file, found>>
  PROVE  /\ loading' \in Seq(Tasks) /\ (loading' = <<>> => found' = Unread)
         /\ pending' \in Data \cup {None} /\ writing' \in Data \cup {None}
         /\ parts' \subseteq {"maps", "rooms", "image"}
<1>1. parts' \subseteq {"maps", "rooms", "image"}
  BY BeginEffects DEF TypeOK
<1>2. CASE loading' = Append(loading, task) /\ UNCHANGED <<pending, writing>>
  <2>1. Append(loading, task) \in Seq(Tasks) /\ Append(loading, task) # <<>>
    BY AppendFacts DEF TypeOK
  <2> QED BY <1>1, <1>2, <2>1 DEF TypeOK
<1>3. CASE /\ loading = <<>> /\ loading' = loading /\ pending # None
           /\ pending' = Put(task, pending, memory'.maps) /\ writing' = writing
  <2>1. pending \in Data /\ memory'.maps \in SUBSET Maps
    BY <1>3 DEF TypeOK, Data
  <2>2. pending' \in Data
    BY <1>3, <2>1, PutIsData
  <2> QED BY <1>1, <1>3, <2>2 DEF TypeOK
<1> QED BY <1>2, <1>3, BeginEffects

LEMMA LoadEndsTyped ==
  ASSUME TypeOK, LoadEnds
  PROVE  /\ memory' \in Data
         /\ Savers = <<>> => UNCHANGED <<pending, writing>>
         /\ Savers # <<>> => Stores(Data)
<1>1. memory' \in Data
  BY DEF TypeOK, LoadEnds
<1>2. ASSUME Savers # <<>> PROVE Stores(Data)
  <2>1. Savers \in Seq(Tasks)
    BY SaversTyped DEF TypeOK, LoadEnds
  <2>2. \A i \in 1..Len(Savers) : Savers[i] \in Tasks
    BY <2>1
  <2>3. memory'.maps \in SUBSET Maps
    BY <1>1 DEF Data
  <2>4. \A i \in 1..Len(Savers) : \A e \in Data :
          e \in Data \/ Savers[i].part = "maps"
            => Put(Savers[i], e, memory'.maps) \in Data
    BY <2>2, <2>3, PutIsData
  <2>5. (IF found = None THEN Empty ELSE found) \in Data
    BY DEF TypeOK, LoadEnds, Empty, Data
  <2> QED BY <1>1, <1>2, <2>1, <2>4, <2>5, LoadStores
<1>3. Savers = <<>> => UNCHANGED <<pending, writing>>
  BY DEF LoadEnds
<1> QED BY <1>1, <1>2, <1>3

\* The actions that save: the task, what they do to memory, and that the rest
\* of the Store is left alone.
Saves(task) ==
  /\ Change /\ Begin(task)
  /\ UNCHANGED <<file, found, failed, restarts>>

LEMMA SavesKeepTypes ==
  ASSUME TypeOK, NEW task \in Tasks, task.part \in {"maps", "rooms", "image"},
         memory' \in Data, forgotten' \subseteq Maps, Saves(task)
  PROVE  TypeOK'
<1>1. changes' \in 0..MaxChanges
  BY BoundsAreNumbers DEF TypeOK, Saves, Change
<1>2. /\ loading' \in Seq(Tasks) /\ (loading' = <<>> => found' = Unread)
      /\ pending' \in Data \cup {None} /\ writing' \in Data \cup {None}
      /\ parts' \subseteq {"maps", "rooms", "image"}
  BY BeginKeepsTypes DEF Saves
<1>3. UNCHANGED <<file, found, failed, restarts>>
  BY DEF Saves
<1> QED
  BY <1>1, <1>2, <1>3 DEF TypeOK

LEMMA RemembersMeans ==
  ASSUME TypeOK, NEW m \in Maps, RememberMap(m)
  PROVE  /\ Task("maps", None) \in Tasks /\ Saves(Task("maps", None))
         /\ memory' = [memory EXCEPT !.maps = @ \cup {m}] /\ memory' \in Data
         /\ forgotten' = forgotten
BY DEF RememberMap, Saves, Task, Tasks, TypeOK, Data

LEMMA ForgetsMeans ==
  ASSUME TypeOK, NEW m \in Maps, ForgetMap(m)
  PROVE  /\ Task("maps", None) \in Tasks /\ Saves(Task("maps", None))
         /\ memory' = [memory EXCEPT !.maps = @ \ {m}] /\ memory' \in Data
         /\ forgotten' = forgotten \cup {m} /\ Started
BY DEF ForgetMap, Saves, Task, Tasks, TypeOK, Data

LEMMA SegmentsMeans ==
  ASSUME TypeOK, NEW rooms \in RoomLists, SaveSegments(rooms)
  PROVE  /\ Task("rooms", rooms) \in Tasks /\ Saves(Task("rooms", rooms))
         /\ memory' \in Data /\ memory'.maps = memory.maps
         /\ forgotten' = forgotten /\ Started
BY DEF SaveSegments, Saves, Task, Tasks, TypeOK, Data

LEMMA ImageMeans ==
  ASSUME TypeOK, SaveMapImage
  PROVE  /\ Task("image", None) \in Tasks /\ Saves(Task("image", None))
         /\ memory' \in Data /\ memory' = memory
         /\ forgotten' = forgotten
BY DEF SaveMapImage, Saves, Task, Tasks, TypeOK, Data

LEMMA TypeStep ==
  ASSUME TypeOK, [Next]_vars
  PROVE  TypeOK'
<1>1. CASE ReadFile
  BY <1>1 DEF ReadFile, history, TypeOK
<1>2. CASE LoadEnds
  <2>1. pending' \in Data \cup {None} /\ writing' \in Data \cup {None}
    BY <1>2, LoadEndsTyped DEF Stores, TypeOK
  <2>2. memory' \in Data
    BY <1>2, LoadEndsTyped
  <2> QED BY <1>2, <2>1, <2>2 DEF LoadEnds, history, TypeOK
<1>3. CASE WriteEnds \/ WriteNext
  BY <1>3 DEF WriteEnds, WriteNext, history, TypeOK
<1>4. ASSUME NEW m \in Maps, RememberMap(m) PROVE TypeOK'
  <2>1. forgotten' \subseteq Maps
    BY <1>4, RemembersMeans DEF TypeOK
  <2> QED BY <1>4, <2>1, RemembersMeans, SavesKeepTypes DEF Task
<1>5. ASSUME NEW m \in Maps, ForgetMap(m) PROVE TypeOK'
  <2>1. forgotten' \subseteq Maps
    BY <1>5, ForgetsMeans DEF TypeOK
  <2> QED BY <1>5, <2>1, ForgetsMeans, SavesKeepTypes DEF Task
<1>6. ASSUME NEW rooms \in RoomLists, SaveSegments(rooms) PROVE TypeOK'
  <2>1. forgotten' \subseteq Maps
    BY <1>6, SegmentsMeans DEF TypeOK
  <2> QED BY <1>6, <2>1, SegmentsMeans, SavesKeepTypes DEF Task
<1>7. CASE SaveMapImage
  <2>1. forgotten' \subseteq Maps
    BY <1>7, ImageMeans DEF TypeOK
  <2> QED BY <1>7, <2>1, ImageMeans, SavesKeepTypes DEF Task
<1>8. CASE Restart
  <2>1. Startup \in Tasks
    BY DEF Startup, Task, Tasks
  <2>2. <<Startup>> \in Seq(Tasks) /\ <<Startup>> # <<>>
    BY <2>1
  <2>3. Empty \in Data
    BY DEF Empty, Data
  <2>4. restarts' \in 0..MaxRestarts
    BY <1>8, BoundsAreNumbers DEF Restart, TypeOK
  <2> QED BY <1>8, <2>2, <2>3, <2>4 DEF Restart, TypeOK
<1>9. CASE UNCHANGED vars
  BY <1>9 DEF vars, history, TypeOK
<1> QED
  BY <1>1, <1>2, <1>3, <1>4, <1>5, <1>6, <1>7, <1>8, <1>9 DEF Next

LEMMA TypeInit == Init => TypeOK
<1> SUFFICES ASSUME Init PROVE TypeOK
  OBVIOUS
<1>1. Startup \in Tasks
  BY DEF Startup, Task, Tasks
<1>2. <<Startup>> \in Seq(Tasks) /\ <<Startup>> # <<>>
  BY <1>1
<1>3. memory \in Data /\ file \in Data \cup {None}
  BY DEF Init, Empty, Data
<1>4. failed \in BOOLEAN
  BY Zenon DEF Init
<1> QED BY <1>2, <1>3, <1>4, BoundsAreNumbers DEF Init, TypeOK

\* Memory, file and the contents on their way stay well typed, whatever number of
\* saves share a load.
THEOREM StoreTypeCorrect == Spec => []TypeOK
<1> QED BY TypeInit, TypeStep, PTL DEF Spec

-----------------------------------------------------------------------------
(***************************************************************************)
(* The invariant.                                                          *)
(***************************************************************************)
MapsOf(c) == IF c = None THEN {} ELSE c.maps

\* Contents d that come after c hold its maps, but for those forgotten.
After(c, d) == d # None => MapsOf(c) \subseteq MapsOf(d) \cup forgotten

Newest ==
  IF pending # None THEN pending ELSE IF writing # None THEN writing ELSE file

\* The startup load is asked for first, and the saves that wait are of the parts
\* remembered.
TasksInv ==
  \A i \in 1..Len(loading) :
    IF i > 1 \/ Started THEN loading[i].part \in parts
    ELSE loading[i] = Startup

\* Until the startup load ends nothing is stored, so what it has read is there
\* still; memory is empty but for maps whose saves wait.
StartInv ==
  ~Started =>
    /\ pending = None /\ writing = None
    /\ found = Unread \/ found = file
    /\ ~failed
    /\ NoMapsTask => memory.maps = {}

\* The contents are in order, memory the last.
InOrder ==
  /\ After(file, writing) /\ After(file, pending) /\ After(writing, pending)
  /\ After(file, memory) /\ After(writing, memory) /\ After(pending, memory)

\* The saves under way are of maps: the newest contents hold those in memory
\* unless one of them waits.
MapsInv == NoMapsTask /\ ~failed => memory.maps = MapsOf(Newest)

\* They are of another part: all contents hold the maps of the file, which are
\* those in memory unless a write was refused.
OthersInv ==
  /\ MapsOf(file) \subseteq memory.maps \cup forgotten
  /\ ~failed => MapsOf(file) = memory.maps
  /\ writing # None => MapsOf(writing) = MapsOf(file)
  /\ pending # None => MapsOf(pending) = MapsOf(file)
  /\ found # Unread => MapsOf(found) = MapsOf(file)

SteadyInv ==
  Alone /\ Started =>
    /\ InOrder
    /\ IF "maps" \in parts THEN MapsInv ELSE OthersInv

StoreInv == TypeOK /\ TasksInv /\ StartInv /\ SteadyInv

-----------------------------------------------------------------------------
(***************************************************************************)
(* Every step keeps it.  The saves of maps and those of other parts        *)
(* differ, the load and the writes are steps of their own.                 *)
(***************************************************************************)
LEMMA EmptyLoading ==
  ASSUME loading = <<>>
  PROVE  Started /\ NoMapsTask /\ TasksInv
<1>1. Len(loading) = 0 /\ loading \in Seq(Tasks)
  OBVIOUS
<1>2. Started
  BY <1>1, StartedMeans
<1> QED BY <1>1, <1>2 DEF NoMapsTask, TasksInv

LEMMA SavesKeepTasks ==
  ASSUME StoreInv, NEW task \in Tasks, task.part \in {"maps", "rooms", "image"},
         memory' \in Data, Saves(task),
         task.part # "maps" => memory'.maps = memory.maps
  PROVE  /\ TasksInv' /\ StartInv'
         /\ Started' <=> Started
         /\ Alone' => Alone
<1>1. /\ parts' = IF Quiet /\ Alone THEN {task.part} ELSE parts \cup {task.part}
      /\ \/ /\ loading' = Append(loading, task)
            /\ UNCHANGED <<pending, writing>>
         \/ loading = <<>> /\ loading' = loading
  BY BeginEffects DEF StoreInv, Saves
<1>2. Alone' => Alone
  BY <1>1 DEF Alone
<1>3. task # Startup
  BY DEF Startup, Task
<1>4. CASE loading = <<>> /\ loading' = loading
  <2>1. loading' = <<>> /\ Len(loading') = 0 /\ Started
    BY <1>4, EmptyLoading
  <2>2. Started' /\ TasksInv'
    BY <2>1 DEF Started, TasksInv, Range
  <2> QED BY <1>2, <2>1, <2>2 DEF StartInv
<1>5. CASE loading' = Append(loading, task) /\ UNCHANGED <<pending, writing>>
  <2> DEFINE n == Len(loading)
  <2>1. /\ loading' \in Seq(Tasks) /\ n \in Nat /\ Len(loading') = n + 1
        /\ \A i \in 1..n : loading'[i] = loading[i]
        /\ loading'[n + 1] = task
    BY <1>5, AppendFacts DEF StoreInv, TypeOK
  <2>2. \A i \in 1..(n + 1) : i \in 1..n \/ i = n + 1
    BY <2>1
  <2> HIDE DEF n
  <2>3. Started <=> \A i \in 1..n : loading[i] # Startup
    BY StartedMeans DEF StoreInv, TypeOK, n
  <2>4. Started' <=> \A i \in 1..(n + 1) : loading'[i] # Startup
    <3>1. DOMAIN loading' = 1..(n + 1)
      BY <2>1
    <3> QED BY <3>1 DEF Started, Range
  <2>5. Started' <=> Started
    <3>1. n + 1 \in 1..(n + 1) /\ \A i \in 1..n : i \in 1..(n + 1)
      BY <2>1
    <3> QED BY <1>3, <2>1, <2>2, <2>3, <2>4, <3>1
  <2>6. Quiet => n = 0
    BY DEF Quiet, n
  <2>7. TasksInv'
    <3> SUFFICES ASSUME NEW i \in 1..(n + 1)
                 PROVE  IF i > 1 \/ Started THEN loading'[i].part \in parts'
                        ELSE loading'[i] = Startup
      BY <2>1, <2>5 DEF TasksInv
    <3>1. CASE i = n + 1
      <4>1. i > 1 \/ Started
        BY <2>1, <2>3, <3>1
      <4>2. loading'[i].part \in parts'
        BY <1>1, <2>1, <3>1
      <4> QED BY <4>1, <4>2
    <3>2. CASE i \in 1..n
      <4>1. parts \subseteq parts'
        BY <1>1, <2>1, <2>6, <3>2
      <4>2. loading'[i] = loading[i]
        BY <2>1, <3>2
      <4>3. IF i > 1 \/ Started THEN loading[i].part \in parts ELSE loading[i] = Startup
        BY <3>2 DEF StoreInv, TasksInv, n
      <4> QED BY <4>1, <4>2, <4>3
    <3> QED BY <2>2, <3>1, <3>2
  <2>8. StartInv'
    <3> SUFFICES ASSUME ~Started
                 PROVE  /\ pending' = None /\ writing' = None
                        /\ found' = Unread \/ found' = file'
                        /\ ~failed'
                        /\ NoMapsTask' => memory'.maps = {}
      BY <2>5 DEF StartInv
    <3>1. /\ pending' = None /\ writing' = None
          /\ found' = Unread \/ found' = file'
          /\ ~failed'
      BY <1>5 DEF StoreInv, StartInv, Saves
    <3>2. ASSUME NoMapsTask' PROVE memory'.maps = {}
      <4>1. task.part # "maps" /\ NoMapsTask
        <5>1. n + 1 \in 1..(n + 1) /\ \A i \in 1..n : i \in 1..(n + 1)
          BY <2>1
        <5>2. \A i \in 1..(n + 1) : loading'[i].part # "maps"
          BY <2>1, <3>2 DEF NoMapsTask
        <5> QED BY <2>1, <5>1, <5>2 DEF NoMapsTask, n
      <4> QED BY <4>1 DEF StoreInv, StartInv
    <3> QED BY <3>1, <3>2
  <2> QED BY <1>2, <2>5, <2>7, <2>8
<1> QED BY <1>1, <1>4, <1>5

LEMMA MapsSaveSteady ==
  ASSUME StoreInv, NEW task \in Tasks, task.part = "maps",
         memory' \in Data, Saves(task),
         memory.maps \subseteq memory'.maps \cup forgotten',
         forgotten \subseteq forgotten'
  PROVE  SteadyInv'
<1> SUFFICES ASSUME Alone', Started'
             PROVE  InOrder' /\ "maps" \in parts' /\ MapsInv'
  BY DEF SteadyInv
<1>1. Alone /\ Started
  BY SavesKeepTasks
<1>2. InOrder /\ memory \in Data /\ memory # None /\ memory' # None
  BY <1>1, NoMarks DEF StoreInv, SteadyInv, TypeOK
<1>3. /\ "maps" \in parts'
      /\ \/ /\ loading' = Append(loading, task)
            /\ UNCHANGED <<pending, writing>>
         \/ /\ pending # None /\ writing' = writing
            /\ pending' = Put(task, pending, memory'.maps)
  BY BeginEffects DEF StoreInv, Saves
<1>4. file' = file
  BY DEF Saves
<1>5. CASE loading' = Append(loading, task) /\ UNCHANGED <<pending, writing>>
  <2>1. ~NoMapsTask'
    <3>1. Len(loading') = Len(loading) + 1 /\ Len(loading) \in Nat
          /\ loading'[Len(loading) + 1] = task
      BY <1>5, AppendFacts DEF StoreInv, TypeOK
    <3>2. Len(loading) + 1 \in 1..Len(loading')
      BY <3>1
    <3> QED BY <3>1, <3>2 DEF NoMapsTask
  <2>2. InOrder'
    BY <1>2, <1>4, <1>5 DEF InOrder, After, MapsOf
  <2> QED BY <1>3, <2>1, <2>2 DEF MapsInv
<1>6. CASE /\ pending # None /\ writing' = writing
           /\ pending' = Put(task, pending, memory'.maps)
  <2>1. pending' \in Data /\ pending'.maps = memory'.maps
    <3>1. pending \in Data /\ memory'.maps \in SUBSET Maps
      BY <1>6 DEF StoreInv, TypeOK, Data
    <3> QED BY <1>6, <3>1, PutIsData
  <2>2. pending' # None
    BY <2>1, NoMarks
  <2>3. InOrder'
    BY <1>2, <1>4, <1>6, <2>1, <2>2 DEF InOrder, After, MapsOf
  <2>4. MapsInv'
    BY <2>1, <2>2 DEF MapsInv, Newest, MapsOf
  <2> QED BY <1>3, <2>3, <2>4
<1> QED BY <1>3, <1>5, <1>6

\* When all contents hold the maps in memory they are in order.
LEMMA OthersInOrder ==
  ASSUME TypeOK', OthersInv'
  PROVE  InOrder'
<1>1. memory' # None
  BY NoMarks DEF TypeOK
<1> QED BY <1>1 DEF OthersInv, InOrder, After, MapsOf

LEMMA OtherSaveSteady ==
  ASSUME StoreInv, TypeOK', NEW task \in Tasks, task.part \in {"rooms", "image"},
         memory' \in Data, Saves(task), memory'.maps = memory.maps,
         forgotten' = forgotten
  PROVE  SteadyInv'
<1> SUFFICES ASSUME Alone', Started'
             PROVE  "maps" \notin parts' /\ OthersInv'
  BY OthersInOrder DEF SteadyInv
<1>1. Alone /\ Started
  BY SavesKeepTasks
<1>2. /\ parts' = IF Quiet /\ Alone THEN {task.part} ELSE parts \cup {task.part}
      /\ \/ UNCHANGED <<pending, writing>>
         \/ /\ pending # None /\ writing' = writing
            /\ pending' = Put(task, pending, memory'.maps)
  BY BeginEffects DEF StoreInv, Saves
<1>3. "maps" \notin parts'
  BY <1>2 DEF Alone
<1>4. OthersInv
  <2>1. CASE "maps" \notin parts
    BY <1>1, <2>1 DEF StoreInv, SteadyInv
  <2>2. CASE "maps" \in parts
    <3>1. Quiet
      BY <1>2, <1>3, <2>2
    <3>2. NoMapsTask /\ found = Unread /\ pending = None /\ writing = None
      BY <3>1, EmptyLoading DEF Quiet, StoreInv, TypeOK
    <3>3. ~failed => memory.maps = MapsOf(file)
      BY <1>1, <2>2, <3>2 DEF StoreInv, SteadyInv, MapsInv, Newest
    <3>4. memory # None
      BY NoMarks DEF StoreInv, TypeOK
    <3>5. MapsOf(file) \subseteq memory.maps \cup forgotten
      BY <1>1, <3>4 DEF StoreInv, SteadyInv, InOrder, After, MapsOf
    <3> QED BY <3>2, <3>3, <3>5 DEF OthersInv
  <2> QED BY <2>1, <2>2
<1>5. file' = file /\ found' = found /\ failed' = failed
  BY DEF Saves
<1>6. CASE UNCHANGED <<pending, writing>>
  BY <1>3, <1>4, <1>5, <1>6 DEF OthersInv, MapsOf
<1>7. CASE /\ pending # None /\ writing' = writing
           /\ pending' = Put(task, pending, memory'.maps)
  <2>1. pending \in Data /\ memory'.maps \in SUBSET Maps
    BY <1>7 DEF StoreInv, TypeOK, Data
  <2>2. pending' \in Data /\ pending'.maps = pending.maps
    BY <1>7, <2>1, PutIsData
  <2>3. pending.maps = MapsOf(file)
    BY <1>4, <1>7 DEF OthersInv, MapsOf
  <2> QED BY <1>3, <1>4, <1>5, <1>7, <2>2, <2>3 DEF OthersInv, MapsOf
<1> QED BY <1>2, <1>6, <1>7

LEMMA LoadKeeps ==
  ASSUME StoreInv, TypeOK', LoadEnds
  PROVE  TasksInv' /\ StartInv' /\ SteadyInv'
<1> DEFINE kept == IF "maps" \in parts THEN memory'.maps ELSE MapsOf(found)
           D == {e \in Data : e.maps = kept}
           base == IF found = None THEN Empty ELSE found
<1>1. /\ loading \in Seq(Tasks) /\ loading # <<>> /\ found # Unread
      /\ loading' = <<>> /\ found' = Unread
      /\ UNCHANGED <<file, forgotten, parts, failed>>
      /\ memory' = IF ~Started /\ found # None THEN found ELSE memory
  BY DEF LoadEnds, history, StoreInv, TypeOK
<1>2. Started' /\ TasksInv' /\ StartInv' /\ NoMapsTask'
  <2>1. Len(loading') = 0 /\ DOMAIN loading' = 1..0
    BY <1>1
  <2>2. Started' /\ NoMapsTask' /\ TasksInv'
    BY <2>1 DEF Started, NoMapsTask, TasksInv, Range
  <2> QED BY <2>2 DEF StartInv
<1>3. memory' \in Data /\ memory' # None /\ memory'.maps \in SUBSET Maps
  BY NoMarks DEF TypeOK, Data
<1>4. base \in Data /\ base.maps = MapsOf(found)
  BY <1>1 DEF StoreInv, TypeOK, Empty, Data, MapsOf
<1> SUFFICES ASSUME Alone
             PROVE  InOrder' /\ IF "maps" \in parts THEN MapsInv' ELSE OthersInv'
  BY <1>1, <1>2 DEF SteadyInv, Alone
<1> DEFINE n == Len(loading)
<1>5. /\ n \in Nat /\ n >= 1
      /\ \A i \in 1..n : loading[i] \in Tasks
  BY <1>1, TailFacts
<1>6. Startup.part = "all"
  BY DEF Startup, Task
<1>7. /\ Savers \in Seq(Tasks)
      /\ \A i \in 1..Len(Savers) : Savers[i] \in Tasks /\ Savers[i].part \in parts
      /\ Started => Savers # <<>>
  <2>1. CASE Started
    <3>1. Savers = loading
      BY <2>1 DEF Savers
    <3> QED BY <1>1, <1>5, <2>1, <3>1 DEF StoreInv, TasksInv
  <2>2. CASE ~Started
    <3>1. /\ Savers = Tail(loading) /\ Savers \in Seq(Tasks) /\ Len(Savers) = n - 1
          /\ \A i \in 1..(n - 1) : Savers[i] = loading[i + 1]
      BY <1>1, <2>2, TailFacts DEF Savers
    <3>2. \A i \in 1..(n - 1) : i + 1 \in 1..n /\ i + 1 > 1
      BY <1>5
    <3>3. \A i \in 1..(n - 1) :
            loading[i + 1] \in Tasks /\ loading[i + 1].part \in parts
      BY <1>5, <3>2 DEF StoreInv, TasksInv
    <3> QED BY <2>2, <3>1, <3>3
  <2> QED BY <2>1, <2>2
<1>8. ASSUME ~Started, Savers = <<>> \/ "maps" \notin parts PROVE NoMapsTask
  <2>1. ASSUME NEW i \in 1..n PROVE loading[i].part # "maps"
    <3>1. CASE i = 1
      BY <1>6, <1>8, <3>1 DEF StoreInv, TasksInv
    <3>2. CASE i > 1
      <4>1. loading[i].part \in parts
        BY <3>2 DEF StoreInv, TasksInv
      <4>2. Savers # <<>>
        <5>1. Savers = Tail(loading) /\ Len(Tail(loading)) = n - 1
          BY <1>1, <1>8, TailFacts DEF Savers
        <5>2. Len(Savers) # 0
          BY <1>5, <3>2, <5>1
        <5> QED BY <5>2
      <4> QED BY <1>8, <4>1, <4>2
    <3> QED BY <1>5, <3>1, <3>2
  <2> QED BY <2>1 DEF NoMapsTask
<1> HIDE DEF n
<1>9. ASSUME ~Started PROVE found = file /\ pending = None /\ writing = None /\ ~failed
  BY <1>1, <1>9 DEF StoreInv, StartInv
<1>10. ASSUME "maps" \notin parts \/ (~Started /\ Savers = <<>>)
       PROVE  /\ MapsOf(found) = MapsOf(file)
              /\ ~Started \/ ~failed => MapsOf(found) = memory'.maps
              /\ MapsOf(file) \subseteq memory'.maps \cup forgotten
  <2>1. CASE Started
    BY <1>1, <1>10, <2>1 DEF StoreInv, SteadyInv, OthersInv
  <2>2. CASE ~Started
    <3>1. NoMapsTask
      BY <1>8, <1>10, <2>2
    <3>2. memory.maps = {} /\ found = file
      BY <1>9, <2>2, <3>1 DEF StoreInv, StartInv
    <3> QED BY <1>1, <2>2, <3>2 DEF MapsOf
  <2> QED BY <2>1, <2>2
<1>11. ASSUME Savers # <<>> PROVE Stores(D)
  <2>1. D \subseteq Data
    OBVIOUS
  <2>2. \A i \in 1..Len(Savers) : \A e \in Data :
          e \in D \/ Savers[i].part = "maps"
            => Put(Savers[i], e, memory'.maps) \in D
    BY <1>3, <1>7, PutIsData DEF kept
  <2>3. (\A i \in 1..Len(Savers) : Savers[i].part = "maps") \/ base \in D
    <3>1. CASE "maps" \in parts
      BY <1>7, <3>1 DEF Alone
    <3>2. CASE "maps" \notin parts
      BY <1>4, <3>2
    <3> QED BY <3>1, <3>2
  <2> HIDE DEF D
  <2> QED BY <1>3, <1>7, <1>11, <2>1, <2>2, <2>3, LoadStores DEF StoreInv
<1>12. Savers = <<>> => UNCHANGED <<pending, writing>>
  BY DEF LoadEnds
<1>13. \A e \in D : e # None /\ MapsOf(e) = kept
  BY NoMarks DEF MapsOf
<1>14. /\ "maps" \in parts => kept = memory'.maps
       /\ "maps" \notin parts => kept = MapsOf(file)
       /\ ~Started => kept = memory'.maps
  BY <1>10
<1> HIDE DEF D, base, kept
<1>15. MapsOf(file) \subseteq memory'.maps \cup forgotten
  <2>1. CASE Started
    <3>1. After(file, memory) /\ memory' = memory
      BY <1>1, <2>1 DEF StoreInv, SteadyInv, InOrder
    <3> QED BY <1>3, <3>1 DEF After, MapsOf
  <2>2. CASE ~Started
    BY <1>1, <1>3, <1>9, <2>2 DEF MapsOf
  <2> QED BY <2>1, <2>2
<1>16. /\ MapsOf(file) \subseteq kept \cup forgotten
       /\ kept \subseteq memory'.maps \cup forgotten
  BY <1>14, <1>15
<1>17. ASSUME Started, writing # None
       PROVE  /\ MapsOf(file) \subseteq MapsOf(writing) \cup forgotten
              /\ MapsOf(writing) \subseteq memory'.maps \cup forgotten
              /\ MapsOf(writing) \subseteq kept \cup forgotten
              /\ "maps" \notin parts => MapsOf(writing) = MapsOf(file)
  <2>1. /\ InOrder /\ memory' = memory
        /\ "maps" \notin parts => MapsOf(writing) = MapsOf(file)
    BY <1>1, <1>17 DEF StoreInv, SteadyInv, OthersInv
  <2>2. /\ MapsOf(file) \subseteq MapsOf(writing) \cup forgotten
        /\ MapsOf(writing) \subseteq memory'.maps \cup forgotten
    BY <1>3, <1>17, <2>1 DEF InOrder, After, MapsOf
  <2> QED BY <1>14, <2>1, <2>2
<1>18. CASE Savers = <<>>
  <2>1. /\ ~Started /\ pending' = None /\ writing' = None
        /\ MapsOf(file') = memory'.maps
    BY <1>1, <1>7, <1>9, <1>10, <1>12, <1>18 DEF MapsOf
  <2> QED
    BY <1>1, <1>3, <2>1 DEF InOrder, After, MapsInv, OthersInv, Newest, MapsOf
<1>19. CASE Savers # <<>>
  <2>1. \/ /\ ~(writing = None /\ pending = None)
           /\ pending' \in D /\ writing' = writing
        \/ /\ writing = None /\ pending = None
           /\ writing' \in D /\ pending' \in D \cup {None}
    BY <1>11, <1>19 DEF Stores
  <2>2. /\ pending' # None => MapsOf(pending') = kept
        /\ writing' # None =>
             (Started /\ writing # None /\ writing' = writing) \/ MapsOf(writing') = kept
        /\ MapsOf(Newest') = kept
    BY <1>9, <1>13, <2>1 DEF MapsOf, Newest
  <2>3. ASSUME writing' # None
        PROVE  /\ MapsOf(file) \subseteq MapsOf(writing') \cup forgotten
               /\ MapsOf(writing') \subseteq memory'.maps \cup forgotten
               /\ MapsOf(writing') \subseteq kept \cup forgotten
               /\ "maps" \notin parts => MapsOf(writing') = MapsOf(file)
    BY <1>14, <1>16, <1>17, <2>2, <2>3
  <2>4. InOrder'
    <3>1. MapsOf(None) = {} /\ MapsOf(memory') = memory'.maps
      BY <1>3 DEF MapsOf
    <3>2. After(file, memory)' /\ After(writing, memory)' /\ After(file, writing)'
      BY <1>1, <1>15, <2>3, <3>1 DEF After
    <3>3. After(file, pending)' /\ After(writing, pending)' /\ After(pending, memory)'
      BY <1>1, <1>16, <2>2, <2>3, <3>1 DEF After
    <3> QED BY <3>2, <3>3 DEF InOrder
  <2>5. "maps" \in parts => MapsInv'
    BY <1>14, <2>2 DEF MapsInv
  <2>6. ASSUME "maps" \notin parts PROVE OthersInv'
    <3>1. MapsOf(file) \subseteq memory'.maps \cup forgotten
          /\ (~failed => MapsOf(file) = memory'.maps)
      BY <1>10, <2>6
    <3> QED BY <1>1, <1>14, <2>2, <2>3, <2>6, <3>1 DEF OthersInv, MapsOf
  <2> QED BY <2>4, <2>5, <2>6
<1> QED BY <1>18, <1>19

LEMMA WritesKeep ==
  ASSUME StoreInv, ReadFile \/ WriteEnds \/ WriteNext
  PROVE  TasksInv' /\ StartInv' /\ SteadyInv'
<1>1. UNCHANGED <<memory, loading, parts, forgotten>>
  BY DEF ReadFile, WriteEnds, WriteNext, history
<1>2. /\ TasksInv' /\ (Started' <=> Started) /\ (Alone' <=> Alone)
      /\ (NoMapsTask' <=> NoMapsTask)
  BY <1>1 DEF StoreInv, TasksInv, Started, Alone, NoMapsTask
<1>3. StartInv'
  BY <1>1, <1>2 DEF StoreInv, StartInv, ReadFile, WriteEnds, WriteNext, history
<1>4. SteadyInv'
  <2> SUFFICES ASSUME Alone, Started
               PROVE  InOrder' /\ IF "maps" \in parts THEN MapsInv' ELSE OthersInv'
    BY <1>1, <1>2 DEF SteadyInv
  <2>1. InOrder /\ IF "maps" \in parts THEN MapsInv ELSE OthersInv
    BY DEF StoreInv, SteadyInv
  <2>2. CASE ReadFile
    BY <1>1, <1>2, <2>1, <2>2
       DEF ReadFile, history, InOrder, After, MapsInv, OthersInv, Newest, MapsOf
  <2>3. CASE WriteEnds
    BY <1>1, <1>2, <2>1, <2>3
       DEF WriteEnds, InOrder, After, MapsInv, OthersInv, Newest, MapsOf
  <2>4. CASE WriteNext
    BY <1>1, <1>2, <2>1, <2>4
       DEF WriteNext, history, InOrder, After, MapsInv, OthersInv, Newest, MapsOf
  <2> QED BY <2>2, <2>3, <2>4
<1> QED BY <1>2, <1>3, <1>4

LEMMA StartingInv ==
  ASSUME loading = <<Startup>>, pending = None, writing = None, found = Unread,
         memory = Empty, ~failed
  PROVE  TasksInv /\ StartInv /\ SteadyInv
<1>1. Len(loading) = 1 /\ DOMAIN loading = 1..1 /\ loading[1] = Startup
  OBVIOUS
<1>2. ~Started
  BY <1>1 DEF Started, Range
<1> QED BY <1>1, <1>2 DEF TasksInv, StartInv, SteadyInv, Empty

LEMMA RestartKeeps ==
  ASSUME Restart
  PROVE  TasksInv' /\ StartInv' /\ SteadyInv'
<1>1. /\ loading' = <<Startup>> /\ pending' = None /\ writing' = None
      /\ found' = Unread /\ memory' = Empty /\ ~failed'
  BY DEF Restart
<1>2. Len(loading') = 1 /\ DOMAIN loading' = 1..1 /\ loading'[1] = Startup
  BY <1>1
<1>3. ~Started'
  BY <1>2 DEF Started, Range
<1> QED BY <1>1, <1>2, <1>3 DEF TasksInv, StartInv, SteadyInv, Empty

LEMMA StoreStep ==
  ASSUME StoreInv, [Next]_vars
  PROVE  StoreInv'
<1>1. TypeOK /\ TypeOK'
  BY TypeStep DEF StoreInv
<1>2. CASE ReadFile \/ WriteEnds \/ WriteNext
  BY <1>1, <1>2, WritesKeep DEF StoreInv
<1>3. CASE LoadEnds
  BY <1>1, <1>3, LoadKeeps DEF StoreInv
<1>4. ASSUME NEW m \in Maps, RememberMap(m) PROVE StoreInv'
  <2> DEFINE task == Task("maps", None)
  <2>1. /\ task \in Tasks /\ task.part = "maps" /\ Saves(task)
        /\ memory' = [memory EXCEPT !.maps = @ \cup {m}] /\ memory' \in Data
        /\ forgotten' = forgotten
    BY <1>1, <1>4, RemembersMeans DEF Task
  <2>2. memory.maps \subseteq memory'.maps \cup forgotten'
    BY <1>1, <2>1 DEF TypeOK, Data
  <2> HIDE DEF task
  <2>3. TasksInv' /\ StartInv'
    BY <2>1, SavesKeepTasks
  <2>4. SteadyInv'
    BY <2>1, <2>2, MapsSaveSteady
  <2> QED BY <1>1, <2>3, <2>4 DEF StoreInv
<1>5. ASSUME NEW m \in Maps, ForgetMap(m) PROVE StoreInv'
  <2> DEFINE task == Task("maps", None)
  <2>1. /\ task \in Tasks /\ task.part = "maps" /\ Saves(task)
        /\ memory' = [memory EXCEPT !.maps = @ \ {m}] /\ memory' \in Data
        /\ forgotten' = forgotten \cup {m}
    BY <1>1, <1>5, ForgetsMeans DEF Task
  <2>2. memory.maps \subseteq memory'.maps \cup forgotten' /\ forgotten \subseteq forgotten'
    BY <1>1, <2>1 DEF TypeOK, Data
  <2> HIDE DEF task
  <2>3. TasksInv' /\ StartInv'
    BY <2>1, SavesKeepTasks
  <2>4. SteadyInv'
    BY <2>1, <2>2, MapsSaveSteady
  <2> QED BY <1>1, <2>3, <2>4 DEF StoreInv
<1>6. ASSUME NEW rooms \in RoomLists, SaveSegments(rooms) PROVE StoreInv'
  <2> DEFINE task == Task("rooms", rooms)
  <2>1. /\ task \in Tasks /\ task.part = "rooms" /\ Saves(task)
        /\ memory' \in Data /\ memory'.maps = memory.maps /\ forgotten' = forgotten
    BY <1>1, <1>6, SegmentsMeans DEF Task
  <2> HIDE DEF task
  <2>2. TasksInv' /\ StartInv' /\ SteadyInv'
    BY <1>1, <2>1, SavesKeepTasks, OtherSaveSteady
  <2> QED BY <1>1, <2>2 DEF StoreInv
<1>7. CASE SaveMapImage
  <2> DEFINE task == Task("image", None)
  <2>1. /\ task \in Tasks /\ task.part = "image" /\ Saves(task)
        /\ memory' \in Data /\ memory'.maps = memory.maps /\ forgotten' = forgotten
    BY <1>1, <1>7, ImageMeans DEF Task
  <2> HIDE DEF task
  <2>2. TasksInv' /\ StartInv' /\ SteadyInv'
    BY <1>1, <2>1, SavesKeepTasks, OtherSaveSteady
  <2> QED BY <1>1, <2>2 DEF StoreInv
<1>8. CASE Restart
  BY <1>1, <1>8, RestartKeeps DEF StoreInv
<1>9. CASE UNCHANGED vars
  BY <1>1, <1>9 DEF vars, history, StoreInv, TasksInv, StartInv, SteadyInv, Started,
     Alone, NoMapsTask, InOrder, After, MapsInv, OthersInv, Newest, MapsOf
<1> QED
  BY <1>2, <1>3, <1>4, <1>5, <1>6, <1>7, <1>8, <1>9 DEF Next

LEMMA StoreInit == Init => StoreInv
BY TypeInit, StartingInv DEF Init, StoreInv

\* The maps in memory are those in the Store once the tasks are done, while only
\* saves of one part overlap and the disk refuses no write: whatever the number of
\* maps, changes and restarts, and however their loads and writes interleave.
THEOREM PersistedMaps == Spec => []OnePartIsPersisted
<1>1. StoreInv => OnePartIsPersisted
  <2> SUFFICES ASSUME StoreInv, Cardinality(parts) <= 1, ~failed, Quiet
               PROVE  memory.maps = IF file = None THEN {} ELSE file.maps
    BY DEF OnePartIsPersisted, MapsArePersisted
  <2>1. Alone /\ Started /\ NoMapsTask
    BY AloneMeans, EmptyLoading DEF StoreInv, TypeOK, Quiet
  <2>2. Newest = file
    BY DEF Newest, Quiet
  <2>3. memory.maps = MapsOf(file)
    BY <2>1, <2>2 DEF StoreInv, SteadyInv, MapsInv, OthersInv
  <2> QED BY <2>3 DEF MapsOf
<1> QED BY <1>1, StoreInit, StoreStep, PTL DEF Spec

\* A map leaves the file only when it has been forgotten, while only saves of one
\* part overlap: no start, crash, late or refused write brings an older list back.
THEOREM MapsSurvive == Spec => StoredMapsSurvive
<1>1. ASSUME StoreInv, [Next]_vars
      PROVE  [Cardinality(parts) <= 1 /\ file # None =>
                file.maps \subseteq file'.maps \cup forgotten]_vars
  <2> SUFFICES ASSUME Cardinality(parts) <= 1, file # None
               PROVE  file.maps \subseteq file'.maps \cup forgotten
    OBVIOUS
  <2>1. CASE file' = file
    BY <2>1
  <2>2. CASE WriteEnds /\ file' # file
    <3>1. writing # None /\ file' = writing /\ Alone
      BY <1>1, <2>2, AloneMeans DEF WriteEnds, StoreInv, TypeOK
    <3>2. Started
      BY <1>1, <3>1 DEF StoreInv, StartInv
    <3>3. After(file, writing)
      BY <1>1, <3>1, <3>2 DEF StoreInv, SteadyInv, InOrder
    <3> QED BY <3>1, <3>3 DEF After, MapsOf
  <2> QED
    BY <1>1, <2>1, <2>2 DEF Next, ReadFile, LoadEnds, WriteNext, RememberMap,
       ForgetMap, SaveSegments, SaveMapImage, Restart, vars
<1> QED BY <1>1, StoreInit, StoreStep, PTL DEF Spec, StoredMapsSurvive
=============================================================================
