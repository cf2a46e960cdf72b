# robovac_mqtt in TLA+

A verification project for the Home Assistant integration in
`src/custom_components/robovac_mqtt`: TLA+ modules of its components, TLC
configurations that check them on small instances, and TLAPS proofs of what
holds for every instance. File names below are relative to that directory.

## The system

The integration runs on Home Assistant's event loop. One *config entry* holds an
account; for each robot of the account there is one *coordinator*, which owns
the state the entities show. A robot is reached over one of three transports.

| Component | State | Operations | Interacts with |
|---|---|---|---|
| Entry (`__init__.py`) | list of coordinators, legacy segments | setup, unload, migration | login, coordinators |
| Flows (`config_flow.py`) | options of the entry, open forms | device form, general options, reconfigure, reauth | entry, login |
| Login and discovery (`api/cloud.py`, `http.py`, `mega_api.py`, `tuya_cloud.py`) | tokens, one Tuya session, devices | login, list, poll, command | entry, coordinators |
| MQTT client (`api/client.py`) | paho client and its thread, two certificate files | connect, disconnect, publish; messages reach the loop by `call_soon_threadsafe` | coordinator |
| Local transport (`api/local_tuya.py`) | device object, lock, listener task | connect, listen, reconnect, send, disconnect, all device calls in pool threads | coordinator |
| Coordinator (`coordinator.py`) | `VacuumState`, pending dock status, two timers, trail, map, picture, render task, known maps, notification | handle DPS, handle map stream, commit timers, render, poll, load and save, send | everything |
| Parsers (`api/parser.py`, `legacy_parser.py`, `parser_scalar.py`) | none | state + message -> state + changes | coordinator |
| Command builders (`api/commands.py`, `legacy_commands.py`) | none | intent + state -> data points | entities |
| Map stream (`api/map_stream.py`) | none | decode frames and poses, draw | coordinator |
| Store (Home Assistant's, used by `coordinator.py`) | file, contents waiting to be written | load, save | coordinator, vacuum entity |
| Vacuum entity (`vacuum.py`) | last announced segments | cleans of rooms, zones and scenes, controls, maps | coordinator |
| Settings entities (`select.py`, `switch.py`, `number.py`, `time.py`) | none | read-modify-write of a group of settings, shown before it is confirmed | coordinator |
| Card (`frontend/`) | browser state | user interface | Home Assistant |

What is hard here:

* **Order.** One report may carry several data points, each with its own view
  of the dock, the activity and the targets; reports repeat, flap and arrive
  around timers, loads and renders.
* **Threads.** Device calls, renders, file reads and writes run in pool threads;
  cancelling the task that awaits one does not stop the thread.
* **Sharing.** One device lock, one Tuya session, one Store are used by several
  tasks with waits between their steps.
* **What is shown before it is true.** Services show targets and settings ahead
  of the device; a send may fail, or be lost, after that.
* **Three clouds.** One robot may be listed by each under ids of its own, with
  credentials that only fit one backend; any request may be refused.
* **Partial failure.** Setup goes through a dozen steps per device, each of
  which may fail; what the earlier ones started must be accounted for.

## The modules

| Module | Models | Code it stands for |
|---|---|---|
| `VacuumParser` | `update_state` and its handlers for the data points that control depends on: station, work status, play/pause, error, battery, map | `api/parser.py`, `models.py` |
| `Coordinator` | the push path: both message handlers, debounce timers, render tasks, session and trail, targets, known maps, notification, storage load, services, unload | `coordinator.py` |
| `CoordinatorProperties` | its properties | |
| `DockStatus` | what the debounce promises, abstractly | |
| `LocalTuya` | one connection of the local transport: the lock with its queue, the pool threads' calls, listener, reconnects, commands and their cancellation, disconnect | `api/local_tuya.py` |
| `DeviceAccess` | what the lock promises, abstractly: one call at a time, on the current device, none after the close | |
| `EntryLifecycle` | setup, unload, retry, restart, an unload that fails; certificate files, those that cannot be removed too, dial, thread callbacks; migration of legacy segments, also onto a disk that refuses them | `__init__.py`, `api/client.py`, `coordinator.initialize` |
| `CloudPolling` | polls and commands on the shared Tuya session: refusal, re-login, retry, outage; backoff | `api/cloud.py`, `api/tuya_cloud.py`, the poll of `coordinator.py` |
| `Storage` | one Store with its load, its saves by several tasks, writes that the disk refuses | `coordinator.py` 866-1002 |
| `Settings` | the settings of a robot: calls of four platforms built from the coordinator's data, awaited, shown; lost and refused sends; the device and its reports | `switch.py`, `select.py`, `number.py`, `time.py`, `api/commands.py` |
| `CleaningJobs` | room, zone and scene cleans, map loads and controls of the vacuum entity and the selects, with the targets they show, and the robot's jobs | `vacuum.py`, `select.py`, `api/commands.py` |
| `Account` | the login and the discovery of robots over three clouds, one awaited request per step | `api/http.py`, `api/cloud.py`, `api/mega_api.py` |
| `EntryOptions` | options, reconfigure and reauth flows, with forms open over reloads; EXTENDS `Account` | `config_flow.py` |
| `PlainRobots` | scalar and legacy robots: parsers, commands, reports in any order and in part | `api/parser_scalar.py`, `api/legacy_parser.py`, `api/legacy_commands.py` |
| `MapStream` | the map from its compressed frames, whole or cut anywhere, to points on the image and back | `api/map_stream.py`, `coordinator.py` |
| `RobotMessages` | the DPS messages a robot sends | |
| `MC...` | instances for TLC | |
| `...Proofs` | theorems | |

State and actions keep the names of the code: `HandleMqttMessage` is
`_handle_mqtt_message` with everything it calls, `CommitDockStatus` the timer's
callback, `RenderDone` the end of `_async_rerender_map`, and so on; the map in
`PROJECT.json` names the lines of every definition. `Coordinator` and
`CleaningJobs` EXTEND `VacuumParser`, for a message is parsed and its
consequences are drawn in one step of the event loop.

`\* Fault:` marks an operator that is part of no specification. It is the
definition after it, with a mistake one could make in the code; with the mistake
in place the run named in `PROJECT.json` must find its property violated.

### Abstractions

* **Data.** A message is a record of the fields that decide something, an absent
  field is `None`. In `Coordinator` poses, pixels, grids, rooms and frames are
  model values; the coordinate transform is a constant function (`PosePixels`),
  the check for an impossible jump a constant relation (`Steps`). `MapStream`
  has the transforms themselves. Accessories, telemetry and wording are left
  out: nothing reads them back.
* **Steps.** What runs between two `await`s is one action. Home Assistant starts
  a task eagerly, so a render takes its snapshot, and a save begins its load, in
  the step that creates it. A service call is a step up to its send, the send,
  and a step after it.
* **Platforms.** Home Assistant runs the calls of the switch, select and number
  platforms one at a time each (`PARALLEL_UPDATES = 1`), and calls no entity
  that is unavailable. `Settings` and `CleaningJobs` take both from there.
* **Time.** The debounce is counted in ticks (`Debounce`); a dock visit has an
  age up to its limit (`BriefVisit`); a poll is due in ticks of 30 s. The length
  of a reconnect's backoff is left out: a sleep ends some time later.
* **Locks and threads.** In `LocalTuya` a request for the free lock is granted in
  a step of its own, which is the continuation of the same run; a call in a
  thread ends by a step of its own, and goes on when its task was cancelled.
* **External code.** Home Assistant's Store, timers and entry storage, tinytuya,
  paho, the clouds and the robots are modelled by what the code relies on; such
  definitions are marked external in the map. tinytuya opens a device's socket on
  first use; an `asyncio.Lock` serves its waiters in order; a Store shares a load
  under way, hands out copies of what waits to be written, and replaces the file
  as a whole; `Store.async_save` logs a write that fails and returns, so the
  caller goes on as if the contents were on disk (`Storage.WriteEnds`,
  `EntryLifecycle.SaveLegacySegments`); a robot takes commands in order and
  reports what changed.
* **Settings.** A setting is a Boolean, for a group is built, sent, reported and
  shown as a whole whatever its values are. The history variables `contested`,
  `doubtful` and `undone` name the groups of which a property cannot speak, each
  with the event that put them there; a report takes a group out again.
* **Account.** A request is answered, refused, or fails. What the clouds know is
  drawn once (`account`); each of the two endpoints that list devices is asked in
  a step of its own. Encryption and signatures are left out.
* **MapStream.** A part of a frame arrives as a block or as it is, and any prefix
  of its bytes may be all that arrives; what the decoder makes of it is computed
  once for each text (`Arrivals`). The code takes as many bytes as the text has
  for the text itself: `sure` says that this guess was right. Nothing is promised
  of a part of which it was wrong.
* **CloudPolling** decides an answer when the request is made and lets it be
  handled later; logging in is one step; ticks count waits only, not requests;
  `SetTargets`, which puts off the next poll, happens once between good polls.

## The runs

| Run | Question | Result |
|---|---|---|
| `MCCore` | Do the timers, notification, targets, map memory and renders follow the messages, in any order, around a load and an unload? | holds; the picture follows unless its drawing raises |
| `MCPicture` | Do sessions, trail and picture fit together over pauses, dock visits, restarts? | holds; the picture is current unless its drawing raised |
| `MCLocal` | Does the lock give serial access to the device in service until a cancelled call is left behind, is every socket closed, and does everyone come to an end? | holds |
| `MCEntry` | Files, clients and legacy data over setups in which anything may fail, unloads and a restart | holds; legacy data only while the disk takes them, files but for those it would not remove |
| `MCCloud` | Shared session, staleness of what is shown, commands carried out once | holds |
| `MCStore` | Do overlapping loads, saves, writes and crashes leave the maps of memory on disk, and do refused writes lose none that is there? | holds while saves of one part only overlap |
| `MCSettings` | Does what was chosen last, does what was not chosen stay, do the entities end up showing the device? | holds |
| `MCCleaning` | Are the targets shown those of the robot's job, and does a customised clean start with its settings in place? | holds |
| `MCAccount` | Does each robot become one device with credentials that fit, and do the options of one device survive the forms of the others? | holds |
| `MCDecoders` | Do plain robots show what they report, in any order? Is the map the one that was sent, or the beginning of one that came cut, and do points on its image lead back to the floor? | holds |
| `VLocalCancel` | Is device access serial when a command is cancelled? | violated |
| `VTime` | Is a wrong setting shown only after a send that failed? | violated |

The runs of the coordinator draw messages, stored states and services from one
*concern* per behaviour (`MCCoordinator`): the dock statuses, the errors and
rooms, the targets, the maps, the sessions, the renders, the frames. The
properties of `MCCore` are checked over all its concerns; each alphabet holds
every way the code can be made to branch in that concern, the combinations of
data points in one message included. Mixing concerns would multiply the states
without reaching another branch: no handler reads the fields of another concern,
except where an alphabet has both (docked with a full battery, a wash during a
room change).

`MCPicture` uses a `VIEW`: the fields it hides neither guard an action of that
alphabet nor feed the fields it shows, and the run checks invariants only.

In `MCDecoders` a behaviour is one robot: a scalar one, a legacy one, or the map
of a novel one.

### Bounds

* Coordinator: two rooms, two maps, three poses on a line of pixels, two grids
  (in one a pose is off the map). In `MCCore` the debounce has two ticks, so
  that a timer can be young, half-way and due, and three frames arrive; in
  `MCPicture` the trail has up to three points, and a dock visit is short or
  over the limit of two ticks.
* `LocalTuya`: two commands (one waits while the other holds the lock), a device
  in service, one being opened, one an orphaned call still holds.
* `EntryLifecycle`: one MQTT and one local device that may fall back to polling,
  two setups, one queued callback each, one restart; every step of a setup, every
  disconnect, write and removal of files may fail. Deadlock is not checked:
  attempts are bounded, and an unloaded entry stays so.
* `CloudPolling`: one poller, one command, two expiries and one outage, enough
  for each to lose the session the other renewed; the intervals and the
  threshold are the code's own (30 s, 300 s, 5 failures).
* `Storage`: three maps, a room list, four changes, two crashes: a map
  remembered, one forgotten and a third one around each crash; any write may be
  refused.
* `Settings`: two dock settings on two platforms, a schedule's switch and one of
  its times, and the mop intensity, which is available before it was received;
  three calls, so that one can be built, one on its
  way and one returning; a change of the device's own, a send lost or refused.
* `CleaningJobs`: two rooms, two maps, one scene, one set of parameters; two
  calls, three moves of the robot or its app, one failing send.
* `Account`, `EntryOptions`: two robots that any list may hold, with and without
  keys and models; one refusal anywhere in a discovery, a failure anywhere; two forms
  over two reloads, so that each form can be older than a reload, and one form over
  four.
* `PlainRobots`: three changes, two reports under way, one fault code, two
  suction levels. A report has five data points at most, `OrderIsFree` takes every
  order of them. `MapStream`: two floors of three by two cells, a grid that
  grows, outlines of two shapes, pictures of seven and eight bytes in every
  encoding, one part of one frame cut at any of its bytes (`MaxCuts`). The
  compression's constants are 1, 3 and 3 instead of 15, 255 and 4: lengths then
  reach their second and third byte, and a cut falls into literals, lengths and
  offsets.
* Deadlock is not checked where bounded calls and changes run out (`Storage`,
  `Settings`, `CleaningJobs`, `EntryOptions`, `MCDecoders`) or the entry is
  unloaded for good (`LocalTuya`, `EntryLifecycle`).

### Fairness

`Coordinator`: time passes, a due timer fires and a render ends (the event loop
runs what is due, a drawing ends, with a picture or an error). `LocalTuya`: a device call ends, its
socket having a timeout; the lock serves its queue; the listener goes on.
Commands and the disconnect have no fairness of their own beyond that.
`EntryLifecycle`: setup and unload go on, for every await in them has a timeout
or runs local code. `CloudPolling`: requests have timeouts, polls due are made,
an outage ends.

## What is proved

Each theorem holds for all constants that satisfy the named assumptions, which
TLC evaluates in every run.

* `CoordinatorProofs`: type correctness; `ArmedIffPending`; the coordinator
  implements `DockStatus` for every debounce period; notification, known maps
  and targets (`NotificationMatchesError`, `ActiveMapKnown`, `ExclusiveTargets`).
  The mapping to `DockStatus` reads the timer as the time for which the latest
  report has stood; a step of the coordinator maps to a report, a tick, a commit
  or a stutter.
  Sessions and pictures: `DockVisitIsOver`, `TrailIsContiguous`,
  `RoomsAnnounced`, `ImageIsCurrent`. Contiguity needs a stronger invariant: the
  stored trail and the grid it was drawn on belong together, and the robot's last
  pixel is the trail's end or the trail is to be cut. The picture needs the
  snapshots of renders in flight: the newest one is current, every other one
  cancelled. A drawing that raises leaves an older picture (`undrawn`), which the
  theorem excepts until the next one ends.
* `LocalTuyaProofs`: access is serial, sockets are released, and the transport
  implements `DeviceAccess`, for any number of commands, all of them
  cancellable: `AccessSerialized`, `SocketsAreReleased` and `AccessRefinement`
  speak of a whole behaviour up to the moment the history variable `abandoned`
  records that a call was left behind in its thread. Cancelling a command that
  waits, or one whose call has ended, is harmless. The invariant: the queue is a
  sequence without repetition of the tasks that wait; the calls in threads are
  exactly the holder's; only the owner opens and closes, and nobody is granted
  the lock without a device.
* `EntryProofs`: type correctness and the four safety properties of `MCEntry`.
  `UnloadLeavesNothing` and `OfferedIsConnected` are not inductive: the invariant
  adds what each step finds done for the coordinator at hand (`StepInv`), that
  one not made yet has no client (`FreshInv`), and that those offered are of
  different devices (`ListInv`); a coordinator dropped by an earlier attempt
  keeps its client, and no step may take it for its successor.
  `LegacyDroppedOnceStored` adds that all is about one device while only one was
  found (`SingleInv`). The code does not know of a write that the disk refused or
  of a file it would not remove, so the properties are weaker than their names
  suggest: legacy data are dropped when the Store holds segments of the device or
  the write of this very setup was refused (`unwritten`), and an unload leaves no
  files but those the disk refused to remove (`undeleted`).
* `IncomingProofs` has three parts, each with an invariant of its own.
  *Cloud.* A command is carried out at most once (`PublishedOnce`): the invariant
  relates what the cloud has done to where the command is, nothing while it waits
  for a login or for the handling of a refusal. With it the types: an interval
  never leaves the cap. `StalenessIsBounded` bounds the age of what is shown as
  available by `Patience`, the sum of the intervals up to the threshold: while
  nobody refreshed the data by hand, the age and what is left of the interval are
  together at most the sum of the intervals of the failures so far (`AgeInv`).
  *Maps.* `MapIsDecoded` for every picture, however long, every way an encoder may
  write it, and every place where it may be cut: between two sequences of a block
  the decoder stands before a piece that encodes the rest of the text, the part
  before it being decoded (`Good`), and each turn of the loop keeps that; a copy
  that reads what it writes is the repetition the encoder saw. A whole block so
  gives the text; a cut one is refused or gives a beginning of the text, for up to
  the cut the decoder does what it would do with the whole, and what it reads in
  the last sequence only shortens it. The outline, names and zones shown come from
  one backup (`OutlineInv`), and the robot's pixel from the cell and the grid of
  one pose (`PoseInv`). `PointsMapBack` for every grid, outline and
  resolution follows from what rounding does: at a multiple it is exact,
  elsewhere it is off by half a step at most.
  *Plain robots.* The loops over a report fold to a closed form of the data
  points it names, whatever their order: that is `OrderIsFree`. For
  `RobotIsShown` the invariant says that the reports on their way lead the state
  shown to one that resembles the robot (`ViewInv`), so that a new report only
  has to be led on from there, and that a command under way and the robot's
  answer agree with what the user was told.
* `SettingsProofs`: types, `ViewIsTrue`, `ChoicesLast`, `OthersUntouched`. None
  of them is inductive, for they speak of a system at rest. What becomes of a
  group is what the last command on the way says, or what the robot has when
  there is none (`Final`). `ViewInv` says the last report on the way is true and
  that with nothing on the way the data are the robot's; `CallInv` that a call
  will show what becomes of its group, and that it is alone there unless the
  group is doubtful; `ChoiceInv` that what becomes of a group has every choice;
  `PlainInv` that a command nothing contests changes one setting.
* `StorageProofs`: types, `OnePartIsPersisted`, `StoredMapsSurvive`. The contents
  on their way to the disk form a chain of ever newer versions: what waits holds
  at least the maps that are being written, those hold what is in the file, and
  memory holds them all, the forgotten ones aside. The newest holds the maps in
  memory unless a save of the maps still waits for its load. A load that is
  shared ends several saves in one step; that their contents follow one another
  in the chain is an induction over the tasks that wait. A refused write takes its
  contents out of the chain: those that are left still hold the maps of the file
  (`OthersInv`), so `StoredMapsSurvive` holds with refused writes, while
  `OnePartIsPersisted` needs that none was refused since the start (`failed`).
* `CleaningProofs`: `CustomisedAsAsked` and `TargetsAreTheJobs`. Both need to know
  that the robot says only what a job, an end or a change of map makes it say
  (`MessagesAreTyped`, `TypeInv`). `SettingsInv` follows the first of the two
  sends of a customised clean to the robot, past the other commands on the way.
  `ReportsInv` says that the last report of a job is followed by its end or is of
  the job the robot has; `TargetsInv` that the targets shown are those of what is
  still to come, up to the events after which none are promised (the history
  variables of the model).
* `AccountProofs`: types, `CredentialsFit`, `OnePerRobot`, `NoneIsLost`,
  `OthersKept`, `HostsSurvive`. Each walks through the discovery: `FitInv` says
  which credentials can be there at each step; `ListInv` that until Tuya's list is
  merged all devices come from one list, so that no robot is there twice;
  `LoginInv` that a login given up was one without a user; `HomeInv` that a
  discovery whose list was not refused knows everything the two endpoints list;
  `DoneInv` joins them.
  `RobotsAreFinite` is needed where the code counts: a placeholder gives way to a
  Tuya record under another id only when both are the only ones of their kind.
  `HostsSurvive` holds because an options form keeps the address of a device it
  saw as one of Tuya's. The proof could not be closed for a device that changed
  its cloud between the form's opening and its submission: the address does go
  then, after three reloads, and the property now excepts it (the field `via` of
  a form records what it saw).

Assumptions: the constants are sets of the right shape (`None` is no member of
them, tasks are distinct, groups are disjoint, robots finitely many, the bounds
are numbers). Of the decoders: sizes, resolution and the constants of the
compression are positive, grids and outlines are rectangles of cells
(`SizesArePositive`, `RectsAreOfCells`, `FloorsAreOfCells`), a picture is a
string of bytes and not empty (`PicturesAreBytes`), the absent map is none of the
maps (`AbsentIsNoRecord`), there are two suction levels or more
(`SuctionsAreNames`: a robot starts at the second). Of the settings: one that is
always available is alone in its group (`AvailableOnTheirOwn`). Of the account: the
old one of the two list endpoints knows all of Eufy's robots or none
(`AccountTypeOK`, the type of what the cloud may hold).

Model-checked only: liveness (`DockStatusIsShown`, `RoomsGetAnnounced`,
`FrameIsDrawn`, `EveryoneIsServed`, `SetupEnds`, `CloudRecovers`), which the
prover does not do. Every invariant and every action property of a passing run
is proved.

The library's induction theorems take an operator and cannot be used, so
`SetInduction` states induction of a set: one that has 0 and with each number the
next has all. With it the algorithms are proved about as they are written, as
recursive functions; `SameAllAlong` and `StepsCanBeRepeated` are what it gives
for those. A module that declares a `RECURSIVE` operator stays out of reach;
there is none.

## Findings

Checked by runs of their own:

* `local_tuya.py` 174: a cancelled service call frees the lock while its write
  goes on (`VLocalCancel`).
* `time.py` 99 and 204: a time entity takes the coordinator's data before its
  send and puts them back after it, over all that changed meanwhile (`VTime`).

Stated, not kept by the code, and checked by no run; TLC shows a trace when the
property is added to the configuration named:

| Property | Where | The code |
|---|---|---|
| `StationWithoutActivityResets` | `MCCore` | `parser.py` 349: a work status without station activity looks at the committed dock status, so an activity that still waits in the debounce is shown although the robot has taken it back |
| `LeftMapIsRemembered` | `MCCore` | `coordinator.py` 413: only the map after a message is remembered |
| `LegacyIsNeverLost` | `MCEntry` | `__init__.py` 257: the legacy segments are dropped also when the disk refused to write them to the Store, which `async_save` does not tell |
| `FailedUnloadStopsClients` | `MCEntry` | `client.py` 198: a disconnect that raises ends the unload, and the clients of the coordinators after it go on running |
| `CertFilesAreCleaned` | `MCEntry` | `__init__.py` 225: a coordinator that fails to initialize is dropped with its client running and its certificates on disk |
| `MapsArePersisted` | `MCStore` | `coordinator.py` 979: two saves of different parts of the Store that overlap undo one another. On a first start it takes no race of threads: two saves that share the load of a missing file each begin with a dictionary of their own |
| `MovingIsNotPaused` | `MCDecoders` | `parser_scalar.py` 172: a motion flag reported alone that goes back to 0 leaves the robot paused, though `tests/test_parser.py` 631 says "122=0 -> back to cleaning" |
| `PictureIsWhole` | `MCDecoders` | `map_stream.py` 155: the decompressor does not compare what it has with the size it was given, so a block cut in its literals or lengths replaces a good map by a short one |
| `MapsCanBeDrawn` | `MCDecoders` | `map_stream.py` 244: an outline that came short makes the drawing raise, and it is kept until the next backup |
| `TapFindsItsRoom` | `MCDecoders` | `map_stream.py`, `room_id_at_normalized`: rounding takes the middle of a pixel for the next one |

## Not modelled, and the plan

Out of scope: the generated protobuf code, the card, cryptography and request
signing, drawing, registry upkeep, the views of the state (sensors, binary
sensors, camera), and commands that only send one value (locate, buttons).

`RoomsInPlace` is stated for a map and an outline with the same origin: for
others the code shifts the room mask the other way than poses, and neither a doc
nor its one test says which way the robot means it.

Next, in this order:

1. A composition of entry, coordinator and Store: a dropped coordinator and its
   successor on one Store.
2. `CleaningJobs` over two transports, with a Tuya send that is retried.
3. Accessories and schedules; deduplication of names in `utils.py`.
