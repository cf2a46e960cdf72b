----------------------------- MODULE EntryProofs -----------------------------
(***************************************************************************)
(* What holds of EntryLifecycle for any devices, transports and number of  *)
(* attempts.  The invariant says what each step of a setup or an unload    *)
(* finds done, and that coordinators are told apart: one that is dropped   *)
(* keeps its client, and no later step may take it for another.            *)
(***************************************************************************)
EXTENDS EntryLifecycle, FiniteSetTheorems, TLAPS

\* A local device may have become a polled one; nothing else changes its kind.
KindInv ==
  /\ \A o \in Coordinators :
       kind[o] = Transport[o[1]] \/ (Transport[o[1]] = "local" /\ kind[o] = "cloud")
  /\ \A o \in files : kind[o] = "mqtt"

Connected(o) ==
  client[o] = "running" \/ (kind[o] = "cloud" /\ client[o] = "none")

\* What each step finds done for the coordinator at hand.
StepInv ==
  /\ phase \in {"unloaded", "retry", "loaded", "failed"} => current = None
  /\ phase = "unloading" /\ current # None => step = "disconnect"
  /\ phase = "setup" => step # "disconnect" /\ attempt # 0
  /\ step \in {"files", "open"} => client[current] = "none"
  /\ step = "files" => kind[current] = "mqtt"
  /\ step = "dial" => kind[current] = "mqtt" /\ current \in files
  /\ step = "open" => kind[current] = "local"
  /\ step \in {"load", "migrate", "write"} => Connected(current)
  /\ current # None => current[2] <= attempt
  /\ current # None => current[1] \notin todo

\* Coordinators not made yet have no client.
Fresh(o) ==
  o[2] > attempt \/ (phase = "setup" /\ o[2] = attempt /\ o[1] \in todo)

FreshInv == \A o \in Coordinators : Fresh(o) => client[o] = "none"

\* The coordinators offered are of different devices, none of them still to
\* come, and an unload leaves nothing of those it has come to.
ListInv ==
  /\ phase \in {"unloaded", "retry"} => listed = {}
  /\ \A o \in listed : o[2] <= attempt
  /\ \A o, p \in listed : o[1] = p[1] => o = p
  /\ phase = "setup" =>
       \A o \in listed : /\ o[1] \notin todo
                         /\ current # None => o[1] # current[1]
  /\ phase \in {"setup", "loaded"} => \A o \in listed : Connected(o)
  /\ phase = "unloading" =>
       \A o \in listed :
         \/ o[1] \in todo /\ Connected(o)
         \/ o = current
         \/ /\ o[1] \notin todo
            /\ client[o] \in {"none", "closed"}
            /\ o \in files => o \in undeleted

\* While there is but one device, all is about that one, and its segments are
\* stored, or their write refused, by the time it is offered.
SingleInv ==
  phase = "setup" /\ single =>
    \E d \in Devices \cup {None} :
      /\ todo \subseteq {d}
      /\ current # None => current[1] = d
      /\ \A o \in listed :
           o[1] = d /\ (legacy => d \in segments \/ o \in unwritten)

EntryInv ==
  /\ TypeOK /\ KindInv /\ StepInv /\ FreshInv /\ ListInv /\ SingleInv
  /\ FilesOutliveClient
-----------------------------------------------------------------------------
(***************************************************************************)
(* Facts used for several steps.                                           *)
(***************************************************************************)

\* At most one device was found: all of them are one.
LEMMA SingleFound ==
  ASSUME NEW found \in SUBSET Devices, Cardinality(found) <= 1
  PROVE  \E d \in Devices \cup {None} : found \subseteq {d}
<1>1. IsFiniteSet(found) /\ Cardinality(found) \in Nat
  BY DevicesAreFinite, FS_Subset, FS_CardinalityType
<1>2. CASE Cardinality(found) = 0
  BY <1>1, <1>2, FS_EmptySet
<1>3. CASE Cardinality(found) = 1
  <2>1. PICK d : found = {d}
    BY <1>1, <1>3, FS_Singleton
  <2> QED BY <2>1
<1> QED BY <1>1, <1>2, <1>3

\* The coordinator at hand, and those offered, are not to be made any more.
LEMMA AtHandIsMade ==
  ASSUME EntryInv, current # None
  PROVE  current \in Coordinators /\ ~Fresh(current)
<1>1. current \in Coordinators /\ current[2] <= attempt /\ current[1] \notin todo
  BY DEF EntryInv, TypeOK, StepInv
<1>2. current[2] \in Nat /\ attempt \in Nat
  BY <1>1, BoundsAreNumbers DEF Coordinators, EntryInv, TypeOK
<1> QED BY <1>1, <1>2 DEF Fresh

LEMMA OfferedIsMade ==
  ASSUME EntryInv, NEW o \in listed
  PROVE  o \in Coordinators /\ ~Fresh(o)
<1>1. o \in Coordinators /\ o[2] <= attempt /\ (phase = "setup" => o[1] \notin todo)
  BY DEF EntryInv, TypeOK, ListInv
<1>2. o[2] \in Nat /\ attempt \in Nat
  BY <1>1, BoundsAreNumbers DEF Coordinators, EntryInv, TypeOK
<1> QED BY <1>1, <1>2 DEF Fresh

\* A step of setup or unload has a coordinator at hand.
LEMMA StepHasCoordinator ==
  ASSUME EntryInv
  PROVE  step \in Steps => current # None
BY NoneIsNothing DEF EntryInv, TypeOK

\* What the invariant says is about these variables only.
LEMMA Untouched ==
  ASSUME EntryInv, TypeOK',
         UNCHANGED <<setupVars, current, step, kind, client, files, undeleted>>,
         UNCHANGED <<legacy, segments, unwritten>>
  PROVE  EntryInv'
BY DEF EntryInv, KindInv, StepInv, FreshInv, ListInv, SingleInv, Connected, Fresh,
       FilesOutliveClient, setupVars

-----------------------------------------------------------------------------
(***************************************************************************)
(* Every step keeps the invariant.                                         *)
(***************************************************************************)

\* A setup begins with nothing at hand and nothing offered.
LEMMA BeginSetupKeeps ==
  ASSUME EntryInv, BeginSetup
  PROVE  EntryInv'
<1>1. TypeOK'
  <2>1. single' \in BOOLEAN
    <3>1. CASE UNCHANGED single
      BY <3>1 DEF EntryInv, TypeOK
    <3>2. CASE \E found \in SUBSET Devices : single' = (Cardinality(found) <= 1)
      <4>1. PICK found \in SUBSET Devices : single' = (Cardinality(found) <= 1)
        BY <3>2
      <4>2. (Cardinality(found) <= 1) \in BOOLEAN
        BY SMT
      <4> QED BY <4>1, <4>2, Zenon
    <3> QED BY <3>1, <3>2 DEF BeginSetup
  <2> QED BY <2>1, BoundsAreNumbers DEF EntryInv, TypeOK, BeginSetup, pushVars,
     legacyVars
<1>2. KindInv'
  BY DEF EntryInv, KindInv, BeginSetup
<1>3. StepInv'
  BY NoneIsNothing DEF EntryInv, TypeOK, StepInv, Steps, BeginSetup
<1>4. FreshInv'
  BY DEF EntryInv, TypeOK, FreshInv, Fresh, Coordinators, BeginSetup
<1>5. ListInv'
  BY DEF EntryInv, ListInv, BeginSetup
<1>6. SingleInv'
  <2> SUFFICES ASSUME phase' = "setup", single'
           PROVE  SingleInv'
    BY DEF SingleInv
  <2>1. current = None /\ listed = {} /\ UNCHANGED <<current, listed>>
    BY DEF EntryInv, StepInv, ListInv, BeginSetup
  <2>2. todo' \in SUBSET Devices /\ Cardinality(todo') <= 1
    BY DEF EntryInv, BeginSetup
  <2> QED BY <2>1, <2>2, SingleFound DEF SingleInv
<1>7. FilesOutliveClient'
  BY DEF EntryInv, FilesOutliveClient, BeginSetup
<1> QED BY <1>1, <1>2, <1>3, <1>4, <1>5, <1>6, <1>7 DEF EntryInv

\* A coordinator that is made is fresh, and of a device not offered yet.
LEMMA StartCoordinatorKeeps ==
  ASSUME EntryInv, NEW d \in Devices, StartCoordinator(d)
  PROVE  EntryInv'
<1>1. /\ <<d, attempt>> \in Coordinators
      /\ client[<<d, attempt>>] = "none"
  BY DEF EntryInv, TypeOK, StepInv, FreshInv, Fresh, Coordinators,
     StartCoordinator
<1>2. Transport[d] \in {"mqtt", "local", "cloud"}
  BY TransportIsKnown
<1>3. /\ FirstStep[Transport[d]] \in {"files", "open", "load"}
      /\ FirstStep[Transport[d]] = "files" <=> Transport[d] = "mqtt"
      /\ FirstStep[Transport[d]] = "open" <=> Transport[d] = "local"
  BY <1>2 DEF FirstStep
<1>4. TypeOK'
  BY <1>1, <1>2, <1>3, NoneIsNothing DEF EntryInv, TypeOK, Steps,
     StartCoordinator, pushVars, legacyVars, Becomes
<1>5. KindInv'
  BY <1>1 DEF EntryInv, KindInv, StartCoordinator, Becomes
<1>6. StepInv'
  BY <1>1, <1>2, <1>3 DEF EntryInv, TypeOK, StepInv, Connected,
     StartCoordinator, Becomes
<1>7. FreshInv'
  BY DEF EntryInv, FreshInv, Fresh, StartCoordinator
<1>8. ListInv'
  BY DEF EntryInv, ListInv, Connected, StartCoordinator, Becomes
<1>9. SingleInv'
  BY DEF EntryInv, SingleInv, ListInv, StartCoordinator
<1>10. FilesOutliveClient'
  BY <1>1 DEF EntryInv, FilesOutliveClient, StartCoordinator, Becomes
<1> QED BY <1>4, <1>5, <1>6, <1>7, <1>8, <1>9, <1>10 DEF EntryInv

\* The files of the coordinator at hand are on disk before it dials, and may
\* be there when it failed before that.
LEMMA MakeFilesKeeps ==
  ASSUME EntryInv, MakeFiles
  PROVE  EntryInv'
<1>1. current \in Coordinators /\ ~Fresh(current) /\ current # None
  BY AtHandIsMade, StepHasCoordinator DEF EntryInv, Steps, MakeFiles
<1>2. TypeOK'
  BY NoneIsNothing DEF EntryInv, TypeOK, Steps, MakeFiles, setupVars,
     pushVars, legacyVars, Becomes, Await, Done
<1>3. KindInv'
  BY DEF EntryInv, KindInv, StepInv, MakeFiles
<1>4. StepInv'
  BY NoneIsNothing DEF EntryInv, StepInv, Steps, MakeFiles, setupVars, Await,
     Done
<1>5. FreshInv'
  BY <1>1 DEF EntryInv, TypeOK, FreshInv, Fresh, MakeFiles, setupVars, Becomes
<1>6. ListInv'
  BY <1>1 DEF EntryInv, TypeOK, ListInv, Connected, MakeFiles, setupVars,
     Becomes, Await, Done
<1>7. SingleInv'
  BY <1>1 DEF EntryInv, SingleInv, ListInv, MakeFiles, setupVars, Await, Done
<1>8. FilesOutliveClient'
  BY DEF EntryInv, TypeOK, FilesOutliveClient, MakeFiles, Becomes
<1> QED BY <1>2, <1>3, <1>4, <1>5, <1>6, <1>7, <1>8 DEF EntryInv

\* A client runs once it is connected; one that cannot connect is dropped, its
\* files stay.
LEMMA DialKeeps ==
  ASSUME EntryInv, Dial
  PROVE  EntryInv'
<1>1. current \in Coordinators /\ ~Fresh(current) /\ current # None
  BY AtHandIsMade, StepHasCoordinator DEF EntryInv, Steps, Dial
<1>2. TypeOK'
  BY NoneIsNothing DEF EntryInv, TypeOK, Steps, Dial, setupVars, pushVars,
     legacyVars, Becomes, Await, Done
<1>3. KindInv'
  BY DEF EntryInv, KindInv, Dial
<1>4. StepInv'
  BY NoneIsNothing DEF EntryInv, TypeOK, StepInv, Connected, Steps, Dial,
     setupVars, Becomes, Await, Done
<1>5. FreshInv'
  BY <1>1 DEF EntryInv, TypeOK, FreshInv, Fresh, Dial, setupVars, Becomes
<1>6. ListInv'
  BY <1>1 DEF EntryInv, TypeOK, ListInv, Connected, Dial, setupVars, Becomes,
     Await, Done
<1>7. SingleInv'
  BY <1>1 DEF EntryInv, SingleInv, ListInv, Dial, setupVars, Await, Done
<1>8. FilesOutliveClient'
  BY DEF EntryInv, TypeOK, FilesOutliveClient, StepInv, Dial, Becomes
<1> QED BY <1>2, <1>3, <1>4, <1>5, <1>6, <1>7, <1>8 DEF EntryInv

\* A local device ends connected, polled, or dropped.
LEMMA OpenLocalKeeps ==
  ASSUME EntryInv, OpenLocal
  PROVE  EntryInv'
<1>1. current \in Coordinators /\ ~Fresh(current) /\ current # None
  BY AtHandIsMade, StepHasCoordinator DEF EntryInv, Steps, OpenLocal
<1>2. TypeOK'
  BY NoneIsNothing DEF EntryInv, TypeOK, Steps, OpenLocal, setupVars,
     pushVars, legacyVars, Becomes, Await, Done
<1>3. KindInv'
  BY DEF EntryInv, TypeOK, KindInv, StepInv, OpenLocal, Becomes
<1>4. StepInv'
  BY NoneIsNothing DEF EntryInv, TypeOK, StepInv, Connected, Steps, OpenLocal,
     setupVars, Becomes, Await, Done
<1>5. FreshInv'
  BY <1>1 DEF EntryInv, TypeOK, FreshInv, Fresh, OpenLocal, setupVars, Becomes
<1>6. ListInv'
  BY DEF EntryInv, TypeOK, ListInv, Connected, OpenLocal, setupVars, Becomes,
     Await, Done
<1>7. SingleInv'
  BY <1>1 DEF EntryInv, SingleInv, ListInv, OpenLocal, setupVars, Await, Done
<1>8. FilesOutliveClient'
  BY DEF EntryInv, TypeOK, FilesOutliveClient, StepInv, OpenLocal, Becomes
<1> QED BY <1>2, <1>3, <1>4, <1>5, <1>6, <1>7, <1>8 DEF EntryInv

\* What is offered is connected, of a device not offered before, and stored if
\* its segments were to be migrated.
LEMMA LoadStorageKeeps ==
  ASSUME EntryInv, LoadStorage
  PROVE  EntryInv'
<1>1. current \in Coordinators /\ ~Fresh(current) /\ current # None
  BY AtHandIsMade, StepHasCoordinator DEF EntryInv, Steps, LoadStorage
<1>2. TypeOK'
  BY NoneIsNothing DEF EntryInv, TypeOK, Steps, LoadStorage, Offer, pushVars,
     legacyVars, Await, Done
<1>3. KindInv'
  BY DEF EntryInv, KindInv, LoadStorage
<1>4. StepInv'
  BY NoneIsNothing DEF EntryInv, StepInv, Connected, Steps, LoadStorage,
     Offer, Await, Done
<1>5. FreshInv'
  BY DEF EntryInv, FreshInv, Fresh, LoadStorage
<1>6. ListInv'
  BY <1>1 DEF EntryInv, ListInv, StepInv, Connected, LoadStorage, Offer,
     Await, Done
<1>7. SingleInv'
  BY <1>1 DEF EntryInv, SingleInv, LoadStorage, Offer, Migrates, legacyVars,
     Await, Done
<1>8. FilesOutliveClient'
  BY DEF EntryInv, FilesOutliveClient, LoadStorage
<1> QED BY <1>2, <1>3, <1>4, <1>5, <1>6, <1>7, <1>8 DEF EntryInv

\* A Store that cannot be loaded drops the coordinator.
LEMMA LoadToSaveKeeps ==
  ASSUME EntryInv, LoadToSave
  PROVE  EntryInv'
<1>1. current \in Coordinators /\ ~Fresh(current) /\ current # None
  BY AtHandIsMade, StepHasCoordinator DEF EntryInv, Steps, LoadToSave
<1>2. TypeOK'
  BY NoneIsNothing DEF EntryInv, TypeOK, Steps, LoadToSave, setupVars,
     pushVars, legacyVars, Await, Done
<1>3. KindInv'
  BY DEF EntryInv, KindInv, LoadToSave
<1>4. StepInv'
  BY NoneIsNothing DEF EntryInv, StepInv, Connected, Steps, LoadToSave,
     setupVars, Await, Done
<1>5. FreshInv'
  BY DEF EntryInv, FreshInv, Fresh, LoadToSave, setupVars
<1>6. ListInv'
  BY <1>1 DEF EntryInv, ListInv, Connected, LoadToSave, setupVars, Await, Done
<1>7. SingleInv'
  BY <1>1 DEF EntryInv, SingleInv, LoadToSave, setupVars, legacyVars, Await, Done
<1>8. FilesOutliveClient'
  BY DEF EntryInv, FilesOutliveClient, LoadToSave
<1> QED BY <1>2, <1>3, <1>4, <1>5, <1>6, <1>7, <1>8 DEF EntryInv

\* The same, with the segments just stored or refused.
LEMMA SaveLegacySegmentsKeeps ==
  ASSUME EntryInv, SaveLegacySegments
  PROVE  EntryInv'
<1>1. current \in Coordinators /\ ~Fresh(current) /\ current # None
  BY AtHandIsMade, StepHasCoordinator DEF EntryInv, Steps, SaveLegacySegments
<1>2. TypeOK'
  BY <1>1 DEF EntryInv, TypeOK, Coordinators, SaveLegacySegments, Offer,
     pushVars, Done
<1>3. KindInv'
  BY DEF EntryInv, KindInv, SaveLegacySegments
<1>4. StepInv'
  BY NoneIsNothing DEF EntryInv, StepInv, Steps, SaveLegacySegments, Offer,
     Done
<1>5. FreshInv'
  BY DEF EntryInv, FreshInv, Fresh, SaveLegacySegments
<1>6. ListInv'
  BY <1>1 DEF EntryInv, ListInv, StepInv, Connected, SaveLegacySegments,
     Offer, Done
<1>7. SingleInv'
  BY <1>1 DEF EntryInv, SingleInv, SaveLegacySegments, Offer, Done
<1>8. FilesOutliveClient'
  BY DEF EntryInv, FilesOutliveClient, SaveLegacySegments
<1> QED BY <1>2, <1>3, <1>4, <1>5, <1>6, <1>7, <1>8 DEF EntryInv

\* A setup ends loaded with something to offer, or not at all.
LEMMA FinishSetupKeeps ==
  ASSUME EntryInv, FinishSetup
  PROVE  EntryInv'
<1>1. TypeOK'
  BY DEF EntryInv, TypeOK, FinishSetup, pushVars
<1>2. KindInv'
  BY DEF EntryInv, KindInv, FinishSetup
<1>3. StepInv'
  BY DEF EntryInv, StepInv, Connected, FinishSetup
<1>4. FreshInv'
  BY DEF EntryInv, FreshInv, Fresh, FinishSetup
<1>5. ListInv'
  BY DEF EntryInv, ListInv, Connected, FinishSetup
<1>6. SingleInv'
  BY DEF EntryInv, SingleInv, FinishSetup
<1>7. FilesOutliveClient'
  BY DEF EntryInv, FilesOutliveClient, FinishSetup
<1> QED BY <1>1, <1>2, <1>3, <1>4, <1>5, <1>6, <1>7 DEF EntryInv

\* An unload has every offered device still to come to.
LEMMA BeginUnloadKeeps ==
  ASSUME EntryInv, BeginUnload
  PROVE  EntryInv'
<1>1. TypeOK'
  BY DEF EntryInv, TypeOK, Coordinators, BeginUnload, pushVars, legacyVars
<1>2. KindInv'
  BY DEF EntryInv, KindInv, BeginUnload
<1>3. StepInv'
  BY DEF EntryInv, StepInv, Connected, BeginUnload
<1>4. FreshInv'
  BY DEF EntryInv, FreshInv, Fresh, BeginUnload
<1>5. ListInv'
  BY DEF EntryInv, ListInv, Connected, BeginUnload
<1>6. SingleInv'
  BY DEF EntryInv, SingleInv, BeginUnload
<1>7. FilesOutliveClient'
  BY DEF EntryInv, FilesOutliveClient, BeginUnload
<1> QED BY <1>1, <1>2, <1>3, <1>4, <1>5, <1>6, <1>7 DEF EntryInv

\* A client that runs is disconnected; whoever has none has no files either.
LEMMA ShutDownKeeps ==
  ASSUME EntryInv, NEW o \in listed, ShutDown(o)
  PROVE  EntryInv'
<1>1. o \in Coordinators /\ ~Fresh(o)
  BY OfferedIsMade
<1>2. TypeOK'
  BY NoneIsNothing DEF EntryInv, TypeOK, Coordinators, Steps, ShutDown,
     legacyVars, Becomes
<1>3. KindInv'
  BY DEF EntryInv, KindInv, ShutDown
<1>4. StepInv'
  BY DEF EntryInv, StepInv, ListInv, Connected, ShutDown
<1>5. FreshInv'
  BY DEF EntryInv, TypeOK, FreshInv, Fresh, ShutDown, Becomes
<1>6. ListInv'
  BY NoneIsNothing DEF EntryInv, TypeOK, ListInv, KindInv, Connected,
     Coordinators, ShutDown, Becomes
<1>7. SingleInv'
  BY DEF EntryInv, SingleInv, ShutDown
<1>8. FilesOutliveClient'
  BY DEF EntryInv, TypeOK, FilesOutliveClient, ShutDown, Becomes
<1> QED BY <1>2, <1>3, <1>4, <1>5, <1>6, <1>7, <1>8 DEF EntryInv

\* A platform that does not unload changes nothing.
LEMMA RefuseUnloadKeeps ==
  ASSUME EntryInv, RefuseUnload
  PROVE  EntryInv'
<1>1. TypeOK'
  BY DEF EntryInv, TypeOK, RefuseUnload, pushVars, legacyVars
<1>2. KindInv'
  BY DEF EntryInv, KindInv, RefuseUnload
<1>3. StepInv'
  BY DEF EntryInv, StepInv, Connected, RefuseUnload
<1>4. FreshInv'
  BY DEF EntryInv, FreshInv, Fresh, RefuseUnload
<1>5. ListInv'
  BY DEF EntryInv, ListInv, Connected, RefuseUnload
<1>6. SingleInv'
  BY DEF EntryInv, SingleInv, RefuseUnload
<1>7. FilesOutliveClient'
  BY DEF EntryInv, FilesOutliveClient, RefuseUnload
<1> QED BY <1>1, <1>2, <1>3, <1>4, <1>5, <1>6, <1>7 DEF EntryInv

\* A disconnect leaves no client of the coordinator at hand, and no files but
\* those the disk refused to remove.
LEMMA DisconnectKeeps ==
  ASSUME EntryInv, Disconnect
  PROVE  EntryInv'
<1>1. current \in Coordinators /\ ~Fresh(current) /\ current # None
  BY AtHandIsMade, StepHasCoordinator DEF EntryInv, Steps, Disconnect
<1>2. TypeOK'
  <2>1. files' \subseteq Coordinators /\ undeleted' \subseteq Coordinators
    BY <1>1 DEF EntryInv, TypeOK, Disconnect
  <2>2. UNCHANGED <<setupVars, kind, pushVars, legacyVars, restarts>>
    BY DEF Disconnect
  <2>3. client' = [client EXCEPT ![current] = "closed"] /\ Done
    BY DEF Disconnect, Becomes
  <2> QED BY <2>1, <2>2, <2>3 DEF EntryInv, TypeOK, setupVars, pushVars,
         legacyVars, Done
<1>3. KindInv'
  BY DEF EntryInv, KindInv, Disconnect
<1>4. StepInv'
  BY NoneIsNothing DEF EntryInv, StepInv, Steps, Disconnect, setupVars, Done
<1>5. FreshInv'
  BY <1>1 DEF EntryInv, FreshInv, Fresh, Disconnect, setupVars, Becomes
<1>6. ListInv'
  BY <1>1 DEF EntryInv, TypeOK, ListInv, StepInv, Connected, Disconnect,
     setupVars, Becomes
<1>7. SingleInv'
  BY DEF EntryInv, SingleInv, Disconnect, setupVars
<1>8. FilesOutliveClient'
  BY DEF EntryInv, TypeOK, FilesOutliveClient, Disconnect, Becomes
<1> QED BY <1>2, <1>3, <1>4, <1>5, <1>6, <1>7, <1>8 DEF EntryInv

\* A disconnect that raises ends the unload with the client's files in place.
LEMMA DisconnectRaisesKeeps ==
  ASSUME EntryInv, DisconnectRaises
  PROVE  EntryInv'
<1>1. current \in Coordinators /\ ~Fresh(current) /\ current # None
  BY AtHandIsMade, StepHasCoordinator DEF EntryInv, Steps, DisconnectRaises
<1>2. TypeOK'
  BY DEF EntryInv, TypeOK, DisconnectRaises, pushVars, legacyVars, Done
<1>3. KindInv'
  BY DEF EntryInv, KindInv, DisconnectRaises
<1>4. StepInv'
  BY NoneIsNothing DEF EntryInv, StepInv, Steps, DisconnectRaises, Done
<1>5. FreshInv'
  BY DEF EntryInv, FreshInv, Fresh, DisconnectRaises
<1>6. ListInv'
  BY DEF EntryInv, ListInv, DisconnectRaises
<1>7. SingleInv'
  BY DEF EntryInv, SingleInv, DisconnectRaises
<1>8. FilesOutliveClient'
  BY DEF EntryInv, FilesOutliveClient, DisconnectRaises
<1> QED BY <1>2, <1>3, <1>4, <1>5, <1>6, <1>7, <1>8 DEF EntryInv

\* After an unload nothing is offered.
LEMMA FinishUnloadKeeps ==
  ASSUME EntryInv, FinishUnload
  PROVE  EntryInv'
<1>1. TypeOK'
  BY DEF EntryInv, TypeOK, FinishUnload, pushVars, legacyVars
<1>2. KindInv'
  BY DEF EntryInv, KindInv, FinishUnload
<1>3. StepInv'
  BY DEF EntryInv, StepInv, Connected, FinishUnload
<1>4. FreshInv'
  BY DEF EntryInv, FreshInv, Fresh, FinishUnload
<1>5. ListInv'
  BY DEF EntryInv, ListInv, FinishUnload
<1>6. SingleInv'
  BY DEF EntryInv, SingleInv, FinishUnload
<1>7. FilesOutliveClient'
  BY DEF EntryInv, FilesOutliveClient, FinishUnload
<1> QED BY <1>1, <1>2, <1>3, <1>4, <1>5, <1>6, <1>7 DEF EntryInv

\* A restart leaves no client, and files of dropped coordinators only.
LEMMA RestartKeeps ==
  ASSUME EntryInv, Restart
  PROVE  EntryInv'
<1>1. TypeOK'
  <2>1. legacy' \in BOOLEAN /\ unsaved' \in BOOLEAN
    BY Zenon DEF EntryInv, Restart
  <2> QED BY <2>1, BoundsAreNumbers DEF EntryInv, TypeOK, Restart, Done
<1>2. KindInv'
  BY DEF EntryInv, KindInv, Restart
<1>3. StepInv'
  BY NoneIsNothing DEF EntryInv, StepInv, Steps, Restart, Done
<1>4. FreshInv'
  BY DEF EntryInv, FreshInv, Restart
<1>5. ListInv'
  BY DEF EntryInv, ListInv, Restart
<1>6. SingleInv'
  BY DEF EntryInv, SingleInv, Restart
<1>7. FilesOutliveClient'
  BY DEF EntryInv, FilesOutliveClient, Restart
<1> QED BY <1>1, <1>2, <1>3, <1>4, <1>5, <1>6, <1>7 DEF EntryInv

\* Messages and timers, and the entry's save, touch none of it.
LEMMA PushesKeep ==
  ASSUME EntryInv, NEW o \in Coordinators,
         Receive(o) \/ Handle(o) \/ HandleLocal(o) \/ TimerFires(o)
  PROVE  EntryInv'
<1>1. UNCHANGED <<setupVars, current, step, kind, client, files, undeleted,
                   legacyVars>>
  BY DEF Receive, Handle, HandleLocal, TimerFires
<1>2. queued' \in [Coordinators -> 0..MaxQueued] /\ armed' \subseteq Coordinators
  BY BoundsAreNumbers
     DEF EntryInv, TypeOK, Receive, Handle, HandleLocal, TimerFires, Becomes
<1>3. TypeOK'
  <2>1. restarts' = restarts
    BY DEF Receive, Handle, HandleLocal, TimerFires
  <2> QED BY <1>1, <1>2, <2>1 DEF EntryInv, TypeOK, setupVars, legacyVars
<1> QED BY <1>1, <1>3, Untouched DEF legacyVars

LEMMA SaveEntryKeeps ==
  ASSUME EntryInv, SaveEntry
  PROVE  EntryInv'
<1>1. TypeOK'
  BY DEF EntryInv, TypeOK, SaveEntry, setupVars, pushVars
<1> QED BY <1>1, Untouched DEF SaveEntry

LEMMA EntryInit == Init => EntryInv
<1> SUFFICES ASSUME Init PROVE EntryInv
  OBVIOUS
<1>1. kind \in [Coordinators -> {"mqtt", "local", "cloud"}]
  BY TransportIsKnown DEF Init, Coordinators
<1>2. TypeOK
  <2>1. /\ current \in Coordinators \cup {None} /\ step \in Steps \cup {None}
        /\ (current = None) <=> (step = None)
    BY DEF Init
  <2>2. /\ client \in [Coordinators ->
                       {"none", "dialing", "running", "stopping", "closed"}]
        /\ queued \in [Coordinators -> 0..MaxQueued]
    BY BoundsAreNumbers DEF Init
  <2>3. single \in BOOLEAN /\ legacy \in BOOLEAN /\ unsaved \in BOOLEAN
    BY DEF Init
  <2> QED BY <1>1, <2>1, <2>2, <2>3, BoundsAreNumbers DEF Init, TypeOK
<1>3. KindInv /\ FreshInv /\ ListInv /\ SingleInv /\ FilesOutliveClient
  BY DEF Init, KindInv, FreshInv, ListInv, SingleInv, FilesOutliveClient
<1>4. StepInv
  BY NoneIsNothing DEF Init, StepInv, Steps
<1> QED BY <1>2, <1>3, <1>4 DEF EntryInv

LEMMA EntryStep ==
  ASSUME EntryInv, [Next]_vars
  PROVE  EntryInv'
<1>1. CASE BeginSetup
  BY <1>1, BeginSetupKeeps
<1>2. CASE Setup
  BY <1>2, StartCoordinatorKeeps, MakeFilesKeeps, DialKeeps, OpenLocalKeeps,
     LoadStorageKeeps, LoadToSaveKeeps, SaveLegacySegmentsKeeps,
     FinishSetupKeeps DEF Setup
<1>3. CASE BeginUnload \/ RefuseUnload
  BY <1>3, BeginUnloadKeeps, RefuseUnloadKeeps
<1>4. CASE Unload
  BY <1>4, ShutDownKeeps, DisconnectKeeps, DisconnectRaisesKeeps,
     FinishUnloadKeeps DEF Unload
<1>5. CASE Pushes
  BY <1>5, PushesKeep DEF Pushes
<1>6. CASE SaveEntry \/ Restart
  BY <1>6, SaveEntryKeeps, RestartKeeps
<1>7. CASE UNCHANGED vars
  <2>1. TypeOK'
    BY <1>7 DEF EntryInv, TypeOK, vars, setupVars, pushVars, legacyVars
  <2> QED BY <1>7, <2>1, Untouched DEF vars, legacyVars
<1> QED BY <1>1, <1>2, <1>3, <1>4, <1>5, <1>6, <1>7 DEF Next

LEMMA EntryInvariant == Spec => []EntryInv
BY EntryInit, EntryStep, PTL DEF Spec

-----------------------------------------------------------------------------
(***************************************************************************)
(* What follows.                                                           *)
(***************************************************************************)

\* The state stays well typed, whichever steps of setup and unload fail.
THEOREM EntryTypeCorrect == Spec => []TypeOK
<1>1. EntryInv => TypeOK
  BY DEF EntryInv
<1> QED BY <1>1, EntryInvariant, PTL

\* A client that dials, runs or is being stopped has its certificate files on
\* disk, over any number of setups, failures, unloads and restarts.
THEOREM FilesStayWithClient == Spec => []FilesOutliveClient
<1>1. EntryInv => FilesOutliveClient
  BY DEF EntryInv
<1> QED BY <1>1, EntryInvariant, PTL

\* Whatever a loaded entry offers polls, or has a client that runs.
THEOREM OfferedStayConnected == Spec => []OfferedIsConnected
<1>1. EntryInv => OfferedIsConnected
  BY DEF EntryInv, ListInv, Connected, OfferedIsConnected
<1> QED BY <1>1, EntryInvariant, PTL

\* The legacy segments leave the entry only when the one device that came up
\* has segments in its Store, or the disk refused to write them there.
THEOREM LegacyStaysUntilStored == Spec => LegacyDroppedOnceStored
<1> DEFINE Stored ==
             \E o \in listed :
               listed = {o} /\ (o[1] \in segments \/ o \in unwritten)
<1>1. ASSUME EntryInv, [Next]_vars, legacy, ~legacy' PROVE Stored
  <2>1. FinishSetup
    BY <1>1 DEF Next, BeginSetup, Setup, StartCoordinator, MakeFiles, Dial, OpenLocal,
       LoadStorage, LoadToSave, SaveLegacySegments, BeginUnload, RefuseUnload,
       Unload, ShutDown, Disconnect, DisconnectRaises, FinishUnload, Pushes,
       Receive, Handle, HandleLocal, TimerFires, SaveEntry, Restart, vars,
       legacyVars
  <2>2. PICK o : o \in listed
    BY <1>1, <2>1 DEF FinishSetup
  <2>3. phase = "setup" /\ single
    BY <1>1, <2>1, <2>2 DEF FinishSetup
  <2>4. \A p \in listed : p[1] = o[1] /\ (p[1] \in segments \/ p \in unwritten)
    BY <1>1, <2>2, <2>3 DEF EntryInv, SingleInv
  <2>5. listed = {o}
    BY <1>1, <2>2, <2>4 DEF EntryInv, ListInv
  <2> QED BY <2>2, <2>4, <2>5
<1>2. EntryInv /\ [Next]_vars => [legacy /\ ~legacy' => Stored]_vars
  BY <1>1
<1> QED BY <1>2, EntryInvariant, PTL DEF Spec, LegacyDroppedOnceStored

\* An unload that ends leaves no client running of what the entry offered, and
\* no certificate file but those the disk refused to remove.
THEOREM UnloadIsClean == Spec => UnloadLeavesNothing
<1> DEFINE Clean == \A o \in listed : /\ client[o] \in {"none", "closed"}
                                      /\ o \in files => o \in undeleted
           Ends == phase = "unloading" /\ phase' = "unloaded" /\ restarts' = restarts
<1>1. ASSUME EntryInv, [Next]_vars, Ends PROVE Clean
  <2>1. CASE Restart
    BY <1>1, <2>1 DEF Restart, EntryInv, TypeOK
  <2>2. CASE FinishUnload
    BY <1>1, <2>2, OfferedIsMade, NoneIsNothing
       DEF FinishUnload, EntryInv, ListInv, Coordinators
  <2>3. Restart \/ FinishUnload
    BY <1>1 DEF Next, BeginSetup, Setup, StartCoordinator, MakeFiles, Dial, OpenLocal,
       LoadStorage, LoadToSave, SaveLegacySegments, FinishSetup, BeginUnload,
       RefuseUnload, Unload, ShutDown, Disconnect, DisconnectRaises, Pushes,
       Receive, Handle, HandleLocal, TimerFires, SaveEntry, vars, setupVars
  <2> QED BY <2>1, <2>2, <2>3
<1>2. EntryInv /\ [Next]_vars => [Ends => Clean]_vars
  BY <1>1
<1> QED BY <1>2, EntryInvariant, PTL DEF Spec, UnloadLeavesNothing
=============================================================================
