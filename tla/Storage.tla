------------------------------ MODULE Storage ------------------------------
(***************************************************************************)
(* The Store of one coordinator: the load at startup and the saves of      *)
(* several tasks, each of which loads what is stored, replaces its own     *)
(* part and stores the whole again (coordinator.py 866-1002).              *)
(*                                                                         *)
(* The Store is Home Assistant's.  A load under way is shared, its result  *)
(* too, by all who ask meanwhile; otherwise the contents that wait to be   *)
(* written are copied, or the file is read in a thread.  A save replaces   *)
(* the contents that wait; one thread at a time writes them, replacing the *)
(* file as a whole.                                                        *)
(*                                                                         *)
(* The tasks that share a load run on one after the other when it ends;    *)
(* that is one step here.  Names of maps and what else the image saves are *)
(* left out: a save of the image only loads and stores.                    *)
(***************************************************************************)
EXTENDS Naturals, FiniteSets, Sequences, Functions

CONSTANTS
  Maps,        \* map ids
  RoomLists,   \* values of last_seen_segments
  Images,      \* BOOLEAN: whether the map image is saved
  None, Unread,
  MaxChanges, MaxRestarts   \* bounds of the model

ASSUME BoundsAreNumbers == MaxChanges \in Nat /\ MaxRestarts \in Nat
ASSUME MarksAreDistinct == None \notin RoomLists /\ None # Unread

Data == [maps : SUBSET Maps, rooms : RoomLists \cup {None}]
Empty == [maps |-> {}, rooms |-> None]

ASSUME MarksAreNoData == {None, Unread} \cap Data = {}

VARIABLES
  memory,     \* last_seen_maps, last_seen_segments
  file,       \* what is on disk, None when there is no file
  pending,    \* contents waiting to be written
  writing,    \* contents a thread writes
  loading,    \* the tasks that wait for the load under way
  found,      \* what its thread has read
  forgotten,  \* history: the maps ever forgotten
  parts,      \* history: the parts whose saves have overlapped, see Overlap
  failed,     \* history: the disk refused a write since the start
  changes, restarts   \* counted

history == <<forgotten, parts, failed, changes, restarts>>

vars == <<memory, file, pending, writing, loading, found, history>>

\* The task of a save, by the part it replaces, and the load at startup.
Tasks == [part : {"maps", "rooms", "image", "all"},
          rooms : RoomLists \cup {None}]
Task(part, rooms) == [part |-> part, rooms |-> rooms]
Startup == Task("all", None)

-----------------------------------------------------------------------------
(***************************************************************************)
(* The Store.                                                              *)
(***************************************************************************)
\* Fault: the maps are added to those stored.
PutAdding(task, d, maps) ==
  IF task.part = "maps" THEN [d EXCEPT !.maps = @ \cup maps]
  ELSE IF task.part = "rooms" THEN [d EXCEPT !.rooms = task.rooms]
  ELSE d

\* What a task makes of loaded data: the maps become those in memory at that
\* moment, the rooms those the task was given.
Put(task, d, maps) ==
  IF task.part = "maps" THEN [d EXCEPT !.maps = maps]
  ELSE IF task.part = "rooms" THEN [d EXCEPT !.rooms = task.rooms]
  ELSE d

\* What is stored after each of the tasks, the first changing d.
InTurn(tasks, d, maps) ==
  LET stored[i \in 0..Len(tasks)] ==
        IF i = 0 THEN d ELSE Put(tasks[i], stored[i - 1], maps)
  IN  stored

\* async_save of one version after the other: the first is written at once
\* when nothing else is, the last one waits.  When they are one dictionary the
\* thread may find in the first what the later tasks have put there.
Save(versions, shared) ==
  IF writing = None /\ pending = None
  THEN /\ writing' \in IF shared THEN Range(versions) ELSE {versions[1]}
       /\ pending' = IF Len(versions) = 1 THEN None
                     ELSE versions[Len(versions)]
  ELSE pending' = versions[Len(versions)] /\ UNCHANGED writing

Started == Startup \notin Range(loading)

\* The saves that wait for the load: nothing is asked before the startup.
Savers == IF Started THEN loading ELSE Tail(loading)

Quiet == loading = <<>> /\ pending = None /\ writing = None

\* Saves that begin before the earlier ones are done.  Once those of two parts
\* have overlapped that is remembered.
Overlap(part) ==
  parts' = IF Quiet /\ Cardinality(parts) <= 1 THEN {part}
           ELSE parts \cup {part}

\* async_load: of the load under way, of what waits to be written, of the file.
Begin(task) ==
  /\ Overlap(task.part)
  /\ IF loading # <<>> \/ pending = None
     THEN loading' = Append(loading, task) /\ UNCHANGED <<pending, writing>>
     ELSE Save(<<Put(task, pending, memory'.maps)>>, TRUE) /\ UNCHANGED loading

ReadFile ==
  /\ loading # <<>> /\ found = Unread
  /\ found' = file
  /\ UNCHANGED <<memory, file, pending, writing, loading, history>>

\* Fault: a file that is not there is taken over too.
LoadEndsUnread ==
  /\ loading # <<>> /\ found # Unread
  /\ memory' = IF ~Started THEN found ELSE memory
  /\ loading' = <<>> /\ found' = Unread
  /\ UNCHANGED <<file, pending, writing, history>>

\* async_load_storage takes over what there is; the saves put their part, each
\* into a dictionary of its own when nothing is stored yet.
LoadEnds ==
  /\ loading # <<>> /\ found # Unread
  /\ memory' = IF ~Started /\ found # None THEN found
               ELSE memory
  /\ IF Savers = <<>> THEN UNCHANGED <<pending, writing>>
     ELSE Save([i \in 1..Len(Savers) |->
                  IF found = None THEN Put(Savers[i], Empty, memory'.maps)
                  ELSE InTurn(Savers, found, memory'.maps)[i]], found # None)
  /\ loading' = <<>> /\ found' = Unread
  /\ UNCHANGED <<file, history>>

\* A write the disk refuses is logged, and its contents are gone.
WriteEnds ==
  /\ writing # None
  /\ \/ file' = writing /\ UNCHANGED failed
     \/ failed' = TRUE /\ UNCHANGED file
  /\ writing' = None
  /\ UNCHANGED <<memory, pending, loading, found, forgotten, parts, changes,
                 restarts>>

WriteNext ==
  /\ writing = None /\ pending # None
  /\ writing' = pending /\ pending' = None
  /\ UNCHANGED <<memory, file, loading, found, history>>

-----------------------------------------------------------------------------
(***************************************************************************)
(* What makes a coordinator save.  Services and the vacuum entity are      *)
(* there once the startup load is over.                                    *)
(***************************************************************************)
Change == changes < MaxChanges /\ changes' = changes + 1

\* _remember_map_id.  Its task starts at once.
RememberMap(m) ==
  /\ Change
  /\ m \notin memory.maps
  /\ memory' = [memory EXCEPT !.maps = @ \cup {m}]
  /\ Begin(Task("maps", None))
  /\ UNCHANGED <<file, found, forgotten, failed, restarts>>

ForgetMap(m) ==
  /\ Change /\ Started
  /\ m \in memory.maps
  /\ memory' = [memory EXCEPT !.maps = @ \ {m}]
  /\ forgotten' = forgotten \cup {m}
  /\ Begin(Task("maps", None))
  /\ UNCHANGED <<file, found, failed, restarts>>

SaveSegments(rooms) ==
  /\ Change /\ Started
  /\ memory' = [memory EXCEPT !.rooms = rooms]
  /\ Begin(Task("rooms", rooms))
  /\ UNCHANGED <<file, found, forgotten, failed, restarts>>

SaveMapImage ==
  /\ Images /\ Change
  /\ Begin(Task("image", None))
  /\ UNCHANGED <<memory, file, found, forgotten, failed, restarts>>

\* Fault: messages are handled without a load.
RestartUnloaded ==
  /\ restarts < MaxRestarts
  /\ restarts' = restarts + 1
  /\ memory' = Empty
  /\ pending' = None /\ writing' = None
  /\ loading' = <<>> /\ found' = Unread /\ failed' = FALSE
  /\ parts' = IF Cardinality(parts) <= 1 THEN {} ELSE parts
  /\ UNCHANGED <<file, forgotten, changes>>

\* A crash and the next start, at any moment.  The load begins in the step that
\* ends connect(), so no message is handled before it.
Restart ==
  /\ restarts < MaxRestarts
  /\ restarts' = restarts + 1
  /\ memory' = Empty
  /\ pending' = None /\ writing' = None
  /\ loading' = <<Startup>> /\ found' = Unread /\ failed' = FALSE
  /\ parts' = IF Cardinality(parts) <= 1 THEN {} ELSE parts
  /\ UNCHANGED <<file, forgotten, changes>>

-----------------------------------------------------------------------------
Init ==
  /\ memory = Empty
  /\ file \in {None} \cup [maps : SUBSET Maps, rooms : {None}]
  /\ pending = None /\ writing = None
  /\ loading = <<Startup>> /\ found = Unread
  /\ forgotten = {} /\ parts = {} /\ failed = FALSE
  /\ changes = 0 /\ restarts = 0

Next ==
  \/ ReadFile \/ LoadEnds \/ WriteEnds \/ WriteNext
  \/ \E m \in Maps : RememberMap(m) \/ ForgetMap(m)
  \/ \E rooms \in RoomLists : SaveSegments(rooms)
  \/ SaveMapImage
  \/ Restart

Spec == Init /\ [][Next]_vars

-----------------------------------------------------------------------------
(***************************************************************************)
(* What should hold.                                                       *)
(***************************************************************************)
TypeOK ==
  /\ memory \in Data
  /\ file \in Data \cup {None}
  /\ pending \in Data \cup {None} /\ writing \in Data \cup {None}
  /\ loading \in Seq(Tasks)
  /\ found \in Data \cup {None, Unread}
  /\ loading = <<>> => found = Unread
  /\ forgotten \subseteq Maps /\ parts \subseteq {"maps", "rooms", "image"}
  /\ failed \in BOOLEAN
  /\ changes \in 0..MaxChanges /\ restarts \in 0..MaxRestarts

\* "Record a visited map id ... and persist it" (coordinator.py 964-965), and
\* a forgotten one is gone for good (989-996): once the tasks are done the
\* Store holds the maps in memory.  The code does not keep it when saves of two
\* parts overlap.
MapsArePersisted ==
  Quiet => memory.maps = IF file = None THEN {} ELSE file.maps

\* This does hold while only saves of one part overlap, however their loads,
\* saves and writes do, until the disk refuses a write: nothing repeats it.
OnePartIsPersisted == Cardinality(parts) <= 1 /\ ~failed => MapsArePersisted

\* A map leaves the Store only when the user forgets it, whatever is
\* remembered during a start, wherever the process is killed and whatever the
\* disk refuses, while only saves of one part overlap.
StoredMapsSurvive ==
  [][Cardinality(parts) <= 1 /\ file # None =>
       file.maps \subseteq file'.maps \cup forgotten]_vars
=============================================================================
