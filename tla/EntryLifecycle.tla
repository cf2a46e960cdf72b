--------------------------- MODULE EntryLifecycle ---------------------------
(***************************************************************************)
(* __init__.py, coordinator.initialize() and api/client.py: the set-up of  *)
(* a config entry, one coordinator after the other, its unload, and the    *)
(* clients whose threads push messages meanwhile.  Setup and unload are    *)
(* one coroutine that waits at every step named below; Home Assistant      *)
(* never runs the two together for one entry.                              *)
(*                                                                         *)
(* A coordinator that cannot be initialized is dropped as it is: what it   *)
(* had started goes on, so coordinators are told apart by the attempt that *)
(* made them.  A local client stands here for one connection of LocalTuya. *)
(***************************************************************************)
EXTENDS Naturals, FiniteSets

CONSTANTS
  Devices,      \* the devices of the account
  Transport,    \* [Devices -> {"mqtt", "local", "cloud"}]
  None,
  MaxAttempts,  \* bounds of the model: setups, callbacks waiting for the
  MaxQueued,    \* event loop, and restarts of Home Assistant
  MaxRestarts

ASSUME TransportIsKnown == Transport \in [Devices -> {"mqtt", "local", "cloud"}]
Steps == {"files", "dial", "open", "load", "migrate", "write", "disconnect"}

ASSUME DevicesAreFinite == IsFiniteSet(Devices)
ASSUME NoneIsNothing == None \notin (Devices \X Nat) \cup Steps
ASSUME BoundsAreNumbers ==
  MaxAttempts \in Nat /\ MaxQueued \in Nat /\ MaxRestarts \in Nat

Coordinators == Devices \X (1..MaxAttempts)

VARIABLES
  phase,     \* of the entry: unloaded, setup, retry, loaded, unloading, failed
  attempt,   \* the setups begun
  todo,      \* the devices setup or unload has not come to yet
  single,    \* ~is_multi_device
  current,   \* the coordinator setup or unload works on
  step,      \* what it waits for
  listed,    \* the coordinators of hass.data
  kind,      \* connection_type
  client,    \* none, dialing, running, stopping or closed
  files,     \* the coordinators whose certificate files are on disk
  undeleted, \* history: those whose files the disk refused to remove
  queued,    \* callbacks their client's thread has put on the event loop
  armed,     \* the coordinators with a debounce timer armed
  legacy,    \* last_seen_segments is in the entry's data
  unsaved,   \* its removal is not on disk yet
  segments,  \* the devices whose Store holds segments
  unwritten, \* history: the coordinators whose segments it refused to write
  restarts

setupVars  == <<phase, attempt, todo, single, listed>>
pushVars   == <<queued, armed>>
legacyVars == <<legacy, unsaved, segments, unwritten>>

vars == <<setupVars, current, step, kind, client, files, undeleted, pushVars,
          legacyVars, restarts>>

Becomes(f, o, v) == f' = [f EXCEPT ![o] = v]

Await(s) == step' = s /\ UNCHANGED current

Done == current' = None /\ step' = None

-----------------------------------------------------------------------------
(***************************************************************************)
(* async_setup_entry.                                                      *)
(***************************************************************************)
\* The cloud is asked what devices there are.  It may name some of them only:
\* a Tuya login that fails leaves the Tuya devices out.
BeginSetup ==
  /\ phase \in {"unloaded", "retry"}
  /\ attempt < MaxAttempts
  /\ attempt' = attempt + 1
  /\ \/ phase' = "retry" /\ UNCHANGED <<todo, single>>
     \/ \E found \in SUBSET Devices :
          /\ phase' = "setup"
          /\ todo' = found
          /\ single' = (Cardinality(found) <= 1)
  /\ UNCHANGED <<current, step, listed, kind, client, files, undeleted,
                 pushVars, legacyVars, restarts>>

FirstStep == [mqtt |-> "files", local |-> "open", cloud |-> "load"]

StartCoordinator(d) ==
  /\ phase = "setup" /\ current = None
  /\ d \in todo
  /\ todo' = todo \ {d}
  /\ current' = <<d, attempt>>
  /\ step' = FirstStep[Transport[d]]
  /\ Becomes(kind, <<d, attempt>>, Transport[d])
  /\ UNCHANGED <<phase, attempt, single, listed, client, files, undeleted,
                 pushVars, legacyVars, restarts>>

\* get_blocking_mqtt_client: the files are written before TLS is set up.
MakeFiles ==
  /\ phase = "setup" /\ step = "files"
  /\ \/ /\ files' = files \cup {current}
        /\ Becomes(client, current, "dialing")
        /\ Await("dial")
     \/ /\ files' \in {files, files \cup {current}}
        /\ Done /\ UNCHANGED client
  /\ UNCHANGED <<setupVars, kind, undeleted, pushVars, legacyVars, restarts>>

\* Faults: once connected the files are removed as no longer needed, and a
\* broker that cannot be reached is tried again for ever.
DialThenClean ==
  /\ phase = "setup" /\ step = "dial"
  /\ \/ Becomes(client, current, "running") /\ Await("load")
     \/ Becomes(client, current, "none") /\ Done
  /\ files' = files \ {current}
  /\ UNCHANGED <<setupVars, kind, undeleted, pushVars, legacyVars, restarts>>

DialRetrying ==
  /\ phase = "setup" /\ step = "dial"
  /\ \/ Becomes(client, current, "running") /\ Await("load") /\ UNCHANGED todo
     \/ /\ Becomes(client, current, "none") /\ Done
        /\ todo' = todo \cup {current[1]}
  /\ UNCHANGED <<phase, attempt, single, listed, kind, files, undeleted,
                 pushVars, legacyVars, restarts>>

Dial ==
  /\ phase = "setup" /\ step = "dial"
  /\ \/ Becomes(client, current, "running") /\ Await("load")
     \/ Becomes(client, current, "none") /\ Done
  /\ UNCHANGED <<setupVars, kind, files, undeleted, pushVars, legacyVars,
                 restarts>>

\* Fault: the device is not made a polled one.
OpenLocalKeepingKind ==
  /\ phase = "setup" /\ step = "open"
  /\ \/ Becomes(client, current, "running") /\ Await("load") /\ UNCHANGED kind
     \/ Await("load") /\ UNCHANGED <<kind, client>>
     \/ Done /\ UNCHANGED <<kind, client>>
  /\ UNCHANGED <<setupVars, files, undeleted, pushVars, legacyVars, restarts>>

\* A local device that cannot be reached is polled through the cloud.
OpenLocal ==
  /\ phase = "setup" /\ step = "open"
  /\ \/ Becomes(client, current, "running") /\ Await("load") /\ UNCHANGED kind
     \/ Becomes(kind, current, "cloud") /\ Await("load") /\ UNCHANGED client
     \/ Done /\ UNCHANGED <<kind, client>>
  /\ UNCHANGED <<setupVars, files, undeleted, pushVars, legacyVars, restarts>>

Migrates == legacy /\ single /\ current[1] \notin segments

Offer == Done /\ listed' = listed \cup {current}

LoadStorage ==
  /\ phase = "setup" /\ step = "load"
  /\ \/ Migrates /\ Await("migrate") /\ UNCHANGED listed
     \/ ~Migrates /\ Offer
     \/ Done /\ UNCHANGED listed
  /\ UNCHANGED <<phase, attempt, todo, single, kind, client, files, undeleted,
                 pushVars, legacyVars, restarts>>

\* async_save_segments loads the Store before it saves: that load may raise,
\* with the client running.
LoadToSave ==
  /\ phase = "setup" /\ step = "migrate"
  /\ Await("write") \/ Done
  /\ UNCHANGED <<setupVars, kind, client, files, undeleted, pushVars,
                 legacyVars, restarts>>

\* Store.async_save logs a write that fails and returns, so the coordinator is
\* offered whether or not its segments are on disk.
SaveLegacySegments ==
  /\ phase = "setup" /\ step = "write"
  /\ \/ segments' = segments \cup {current[1]} /\ UNCHANGED unwritten
     \/ unwritten' = unwritten \cup {current} /\ UNCHANGED segments
  /\ Offer
  /\ UNCHANGED <<phase, attempt, todo, single, kind, client, files, undeleted,
                 pushVars, legacy, unsaved, restarts>>

\* Fault: the migrated data are dropped although no coordinator came up.
FinishSetupDropping ==
  /\ phase = "setup" /\ current = None /\ todo = {}
  /\ phase' = IF listed = {} THEN "retry" ELSE "loaded"
  /\ legacy' = (legacy /\ ~single)
  /\ unsaved' = (unsaved \/ (legacy /\ single))
  /\ UNCHANGED <<attempt, todo, single, current, step, listed, kind, client,
                 files, undeleted, pushVars, segments, unwritten, restarts>>

FinishSetup ==
  /\ phase = "setup" /\ current = None /\ todo = {}
  /\ IF listed = {}
     THEN phase' = "retry" /\ UNCHANGED <<legacy, unsaved>>
     ELSE /\ phase' = "loaded"
          /\ legacy' = (legacy /\ ~single)
          /\ unsaved' = (unsaved \/ (legacy /\ single))
  /\ UNCHANGED <<attempt, todo, single, current, step, listed, kind, client,
                 files, undeleted, pushVars, segments, unwritten, restarts>>

-----------------------------------------------------------------------------
(***************************************************************************)
(* async_unload_entry, once the platforms are unloaded.                    *)
(***************************************************************************)
BeginUnload ==
  /\ phase = "loaded"
  /\ phase' = "unloading"
  /\ todo' = {o[1] : o \in listed}
  /\ UNCHANGED <<attempt, single, current, step, listed, kind, client, files,
                 undeleted, pushVars, legacyVars, restarts>>

\* A platform that does not unload: nothing else is touched, and Home Assistant
\* sets the entry up again only after a restart.
RefuseUnload ==
  /\ phase = "loaded"
  /\ phase' = "failed"
  /\ UNCHANGED <<attempt, todo, single, current, step, listed, kind, client,
                 files, undeleted, pushVars, legacyVars, restarts>>

\* async_shutdown_timers, and disconnect() up to its wait: the client's
\* thread is stopped and joined.
ShutDown(o) ==
  /\ phase = "unloading" /\ current = None
  /\ o \in listed /\ o[1] \in todo
  /\ todo' = todo \ {o[1]}
  /\ armed' = armed \ {o}
  /\ IF client[o] = "running"
     THEN /\ current' = o /\ step' = "disconnect"
          /\ Becomes(client, o, "stopping")
     ELSE UNCHANGED <<current, step, client>>
  /\ UNCHANGED <<phase, attempt, single, listed, kind, files, undeleted,
                 queued, legacyVars, restarts>>

\* Fault: the files are left to the next start.
DisconnectKeepingFiles ==
  /\ phase = "unloading" /\ step = "disconnect"
  /\ Becomes(client, current, "closed")
  /\ Done
  /\ UNCHANGED <<setupVars, kind, files, undeleted, pushVars, legacyVars,
                 restarts>>

\* The broker is told, then the files are removed; one that cannot be removed
\* is logged and forgotten.
Disconnect ==
  /\ phase = "unloading" /\ step = "disconnect"
  /\ Becomes(client, current, "closed")
  /\ \/ files' = files \ {current} /\ UNCHANGED undeleted
     \/ /\ kind[current] = "mqtt"
        /\ undeleted' = undeleted \cup {current} /\ UNCHANGED files
  /\ Done
  /\ UNCHANGED <<setupVars, kind, pushVars, legacyVars, restarts>>

\* Telling the broker raises: the unload ends there, before the files and
\* before the coordinators it has not come to, all of which hass.data keeps.
DisconnectRaises ==
  /\ phase = "unloading" /\ step = "disconnect"
  /\ kind[current] = "mqtt"
  /\ phase' = "failed"
  /\ Done
  /\ UNCHANGED <<attempt, todo, single, listed, kind, client, files, undeleted,
                 pushVars, legacyVars, restarts>>

FinishUnload ==
  /\ phase = "unloading" /\ current = None /\ todo = {}
  /\ phase' = "unloaded"
  /\ listed' = {}
  /\ UNCHANGED <<attempt, todo, single, current, step, kind, client, files,
                 undeleted, pushVars, legacyVars, restarts>>

-----------------------------------------------------------------------------
(***************************************************************************)
(* Messages and timers, of dropped coordinators too.                       *)
(***************************************************************************)
\* The client's thread: call_soon_threadsafe.
Receive(o) ==
  /\ kind[o] = "mqtt" /\ client[o] = "running"
  /\ queued[o] < MaxQueued
  /\ Becomes(queued, o, queued[o] + 1)
  /\ UNCHANGED <<setupVars, current, step, kind, client, files, undeleted,
                 armed, legacyVars, restarts>>

Handle(o) ==
  /\ queued[o] > 0
  /\ Becomes(queued, o, queued[o] - 1)
  /\ armed' \in {armed, armed \cup {o}}
  /\ UNCHANGED <<setupVars, current, step, kind, client, files, undeleted,
                 legacyVars, restarts>>

\* The listener of a local client runs on the event loop, until its task is
\* cancelled at the end of disconnect().
HandleLocal(o) ==
  /\ kind[o] = "local" /\ client[o] \in {"running", "stopping"}
  /\ armed' = armed \cup {o}
  /\ UNCHANGED <<setupVars, current, step, kind, client, files, undeleted,
                 queued, legacyVars, restarts>>

TimerFires(o) ==
  /\ o \in armed
  /\ armed' = armed \ {o}
  /\ UNCHANGED <<setupVars, current, step, kind, client, files, undeleted,
                 queued, legacyVars, restarts>>

-----------------------------------------------------------------------------
(***************************************************************************)
(* Home Assistant: it writes a changed entry to disk a little later, and   *)
(* may be killed at any time.  Files, Stores and entries outlive it.       *)
(***************************************************************************)
SaveEntry ==
  /\ unsaved
  /\ unsaved' = FALSE
  /\ UNCHANGED <<setupVars, current, step, kind, client, files, undeleted,
                 pushVars, legacy, segments, unwritten, restarts>>

Restart ==
  /\ restarts < MaxRestarts
  /\ restarts' = restarts + 1
  /\ phase' = "unloaded" /\ todo' = {} /\ listed' = {}
  /\ Done
  /\ client' = [o \in Coordinators |-> "none"]
  /\ queued' = [o \in Coordinators |-> 0]
  /\ armed' = {}
  /\ legacy' = (legacy \/ unsaved)
  /\ unsaved' = FALSE
  /\ UNCHANGED <<attempt, single, kind, files, undeleted, segments, unwritten>>

-----------------------------------------------------------------------------
Init ==
  /\ phase = "unloaded" /\ attempt = 0 /\ todo = {} /\ single = TRUE
  /\ current = None /\ step = None /\ listed = {}
  /\ kind = [o \in Coordinators |-> Transport[o[1]]]
  /\ client = [o \in Coordinators |-> "none"]
  /\ files = {} /\ undeleted = {}
  /\ queued = [o \in Coordinators |-> 0] /\ armed = {}
  /\ legacy = TRUE /\ unsaved = FALSE /\ segments \in SUBSET Devices
  /\ unwritten = {} /\ restarts = 0

Setup ==
  \/ \E d \in Devices : StartCoordinator(d)
  \/ MakeFiles \/ Dial \/ OpenLocal \/ LoadStorage
  \/ LoadToSave \/ SaveLegacySegments
  \/ FinishSetup

Unload ==
  \/ \E o \in listed : ShutDown(o)
  \/ Disconnect \/ DisconnectRaises \/ FinishUnload

Pushes ==
  \E o \in Coordinators :
    Receive(o) \/ Handle(o) \/ HandleLocal(o) \/ TimerFires(o)

Next ==
  \/ BeginSetup \/ Setup
  \/ BeginUnload \/ RefuseUnload \/ Unload
  \/ Pushes
  \/ SaveEntry \/ Restart

Spec == Init /\ [][Next]_vars

\* Every wait of setup and unload has a timeout, and the event loop comes to
\* the coroutine again, however many messages there are.
FairSpec == Spec /\ WF_vars(Setup) /\ WF_vars(Unload)

-----------------------------------------------------------------------------
(***************************************************************************)
(* What should hold.                                                       *)
(***************************************************************************)
TypeOK ==
  /\ phase \in {"unloaded", "setup", "retry", "loaded", "unloading", "failed"}
  /\ attempt \in 0..MaxAttempts
  /\ todo \subseteq Devices
  /\ single \in BOOLEAN
  /\ current \in Coordinators \cup {None}
  /\ step \in Steps \cup {None}
  /\ (current = None) <=> (step = None)
  /\ listed \subseteq Coordinators
  /\ kind \in [Coordinators -> {"mqtt", "local", "cloud"}]
  /\ client \in [Coordinators ->
                   {"none", "dialing", "running", "stopping", "closed"}]
  /\ files \subseteq Coordinators /\ undeleted \subseteq Coordinators
  /\ queued \in [Coordinators -> 0..MaxQueued]
  /\ armed \subseteq Coordinators
  /\ legacy \in BOOLEAN /\ unsaved \in BOOLEAN
  /\ segments \subseteq Devices /\ unwritten \subseteq Coordinators
  /\ restarts \in 0..MaxRestarts

\* The certificate files persist for the lifetime of the MQTT client, which
\* reads them whenever it reconnects (client.py 38-39).
FilesOutliveClient ==
  \A o \in Coordinators :
    kind[o] = "mqtt" /\ client[o] \in {"dialing", "running", "stopping"}
    => o \in files

\* Every coordinator a loaded entry offers can send a command: it polls, or
\* its client runs (coordinator.py 793-802), whichever devices failed before
\* or after it.
OfferedIsConnected ==
  phase = "loaded" =>
    \A o \in listed : kind[o] = "cloud" \/ client[o] = "running"

\* The entry's segments are dropped only when one device came up, and it has
\* segments in its Store or this very setup tried to write them there and the
\* disk refused, whatever failed before (__init__.py 208-226, 255-260).
LegacyDroppedOnceStored ==
  [][legacy /\ ~legacy' =>
       \E o \in listed : listed = {o} /\ (o[1] \in segments \/ o \in unwritten)
  ]_vars

\* When an unload ends, no coordinator the entry offered has a client that
\* runs, or certificate files on disk but those the disk refused to remove
\* (__init__.py 278-286, client.py 192-216).
UnloadLeavesNothing ==
  [][phase = "unloading" /\ phase' = "unloaded" /\ restarts' = restarts =>
       \A o \in listed : /\ client[o] \in {"none", "closed"}
                         /\ o \in files => o \in undeleted]_vars

\* Setup comes to an end, whichever devices fail.
SetupEnds == phase = "setup" ~> phase # "setup"

\* "caller must clean up cert files" (client.py 29): an entry that is not set
\* up has none on disk.  The code does not keep it: a device whose setup fails
\* after the connect keeps its files, and no run checks it.
CertFilesAreCleaned == phase \in {"unloaded", "retry"} => files = {}

\* The entry's segments leave it only for a Store that holds them.  The code
\* does not keep it: a write that fails is logged by Home Assistant, and
\* __init__.py 257 drops the segments all the same.  No run checks it.
LegacyIsNeverLost ==
  [][legacy /\ ~legacy' => \E o \in listed : o[1] \in segments]_vars

\* An unload that fails leaves no client running of what the entry offered.
\* The code does not keep it: an error of one disconnect (client.py 198) keeps
\* every later coordinator as it is.  No run checks it.
FailedUnloadStopsClients ==
  [][phase = "unloading" /\ phase' = "failed" =>
       \A o \in listed : client[o] # "running"]_vars
=============================================================================
