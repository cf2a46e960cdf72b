----------------------------- MODULE LocalTuya -----------------------------
(***************************************************************************)
(* api/local_tuya.py, LocalTuyaClient: one connection of the transport,    *)
(* from connect() to disconnect().  Its tasks run on the event loop and    *)
(* hand every call on the tinytuya device to a pool thread, each under     *)
(* _dev_lock, an asyncio.Lock that wakes its waiters in the order they     *)
(* came.  A call goes on in its thread whatever becomes of the task that   *)
(* awaits it.                                                              *)
(*                                                                         *)
(* A task that asks for the lock enters the queue, even when the lock is   *)
(* free: the grant that follows is then the continuation of the same step. *)
(* The length of the backoff is left out: a sleep ends some time later.    *)
(***************************************************************************)
EXTENDS Naturals, SequencesExt

CONSTANTS
  Owner,        \* the config entry: it connects and disconnects
  Listener,     \* the task of _listen_loop
  Senders,      \* the tasks of service calls, in send_command
  Cancellable,  \* the senders that may be cancelled, as a script's are
  Devices,      \* identities of tinytuya.Device objects
  None

ASSUME TasksAreDistinct ==
  /\ Owner # Listener /\ Owner \notin Senders /\ Listener \notin Senders
  /\ Cancellable \subseteq Senders

ASSUME NoneIsNobody ==
  None \notin Devices /\ None \notin Senders \cup {Owner, Listener}

VARIABLES
  pc,       \* where each task is
  queue,    \* the tasks that wait for _dev_lock
  holder,   \* the task that holds it, None when it is free
  calls,    \* the device calls in pool threads
  device,   \* _dev
  sockets,  \* the devices whose socket is open
  stop,     \* _stop
  abandoned \* history: a task was cancelled while its call ran, and the call went on

vars == <<pc, queue, holder, calls, device, sockets, stop, abandoned>>

Tasks == Senders \cup {Owner, Listener}

\* The device call a task makes under the lock, by where it is.
Waiting == {"opening", "fetching", "closing", "receiving", "reopening",
            "retrying", "refetching", "sending"}

CallAt ==
  [place \in Waiting |->
     CASE place \in {"opening", "reopening", "retrying"} -> "open"
       [] place \in {"fetching", "refetching"} -> "status"
       [] place = "receiving" -> "receive"
       [] place = "sending" -> "set"
       [] place = "closing" -> "close"]

Goto(p, place) == pc' = [pc EXCEPT ![p] = place]
\* Fault: the lock wakes the task that asked last.
AskFirst(p) == queue' = <<p>> \o queue

Ask(p) == queue' = Append(queue, p)
Unlocked == holder' = None
Call(p) == [by |-> p, op |-> CallAt[pc[p]], on |-> device]

\* A cancelled waiter takes itself off the lock's queue.
LeavesQueue(p) ==
  IF \E i \in 1..Len(queue) : queue[i] = p
  THEN \E i \in 1..Len(queue) : queue[i] = p /\ queue' = RemoveAt(queue, i)
  ELSE UNCHANGED queue

-----------------------------------------------------------------------------
(***************************************************************************)
(* The lock, and the calls made under it.                                  *)
(***************************************************************************)
Grant(p) ==
  /\ holder = None /\ queue # <<>> /\ p = Head(queue)
  /\ queue' = Tail(queue)
  /\ device # None \/ CallAt[pc[p]] = "open"
  /\ holder' = p
  /\ calls' = calls \cup {Call(p)}
  /\ UNCHANGED <<pc, device, sockets, stop, abandoned>>

\* A command that waited while the transport was closed finds no device.
Refuse(p) ==
  /\ holder = None /\ queue # <<>> /\ p = Head(queue)
  /\ queue' = Tail(queue)
  /\ device = None /\ pc[p] = "sending"
  /\ Goto(p, "idle")
  /\ UNCHANGED <<holder, calls, device, sockets, stop, abandoned>>

\* The call of the task that holds the lock ends, and the task runs on: it
\* releases the lock in the same step.
Finish(p, op) ==
  /\ holder = p
  /\ \E c \in calls : /\ c.by = p /\ c.op = op
                      /\ calls' = calls \ {c}
  /\ Unlocked

\* tinytuya opens a device's socket on its first use, and again after a close.
Uses == sockets' = sockets \cup {device}
Drops == sockets' = sockets \ {device}

-----------------------------------------------------------------------------
(***************************************************************************)
(* connect() and disconnect().                                             *)
(***************************************************************************)
Connect ==
  /\ pc[Owner] = "new"
  /\ Goto(Owner, "opening") /\ Ask(Owner)
  /\ UNCHANGED <<holder, calls, device, sockets, stop, abandoned>>

\* Fault: the device there was is dropped with its socket open.
OpenAnotherDevice ==
  /\ UNCHANGED sockets
  /\ device' \in Devices \ ({device} \cup sockets \cup {c.on : c \in calls})

\* _open_device: close the device there is, construct another.
OpenDevice ==
  /\ Drops
  /\ device' \in Devices \ ({device} \cup sockets \cup {c.on : c \in calls})

OpenEnds ==
  /\ Finish(Owner, "open")
  /\ UNCHANGED <<stop, abandoned>>
  /\ \/ OpenDevice /\ Goto(Owner, "fetching") /\ Ask(Owner)
     \/ Drops /\ Goto(Owner, "failed") /\ UNCHANGED <<device, queue>>

\* A status fetch that fails is swallowed.
FetchEnds ==
  /\ Finish(Owner, "status")
  /\ Uses \/ UNCHANGED sockets
  /\ pc' = [pc EXCEPT ![Owner] = "up", ![Listener] = "top"]
  /\ UNCHANGED <<queue, device, stop, abandoned>>

\* Fault: the listener is cancelled before the lock is taken, and frees it.
DisconnectCancelsFirst ==
  /\ pc[Owner] = "up"
  /\ stop' = TRUE
  /\ pc' = [pc EXCEPT ![Owner] = "closing", ![Listener] = "ended"]
  /\ holder' = IF holder = Listener THEN None ELSE holder
  /\ queue' = Append(SelectSeq(queue, LAMBDA p : p # Listener), Owner)
  /\ UNCHANGED <<calls, device, sockets, abandoned>>

Disconnect ==
  /\ pc[Owner] = "up"
  /\ stop' = TRUE
  /\ Goto(Owner, "closing") /\ Ask(Owner)
  /\ UNCHANGED <<holder, calls, device, sockets, abandoned>>

\* The device goes and the listener is cancelled, wherever it is.
CloseEnds ==
  /\ Finish(Owner, "close")
  /\ Drops
  /\ device' = None
  /\ pc' = [pc EXCEPT ![Owner] = "down", ![Listener] = "ended"]
  /\ LeavesQueue(Listener)
  /\ UNCHANGED <<stop, abandoned>>

-----------------------------------------------------------------------------
(***************************************************************************)
(* _listen_loop.                                                           *)
(***************************************************************************)
Listen ==
  /\ pc[Listener] = "top"
  /\ IF stop
     THEN Goto(Listener, "ended") /\ UNCHANGED queue
     ELSE Goto(Listener, "receiving") /\ Ask(Listener)
  /\ UNCHANGED <<holder, calls, device, sockets, stop, abandoned>>

\* Nothing or a packet: the next round.  An error the device reports is slept
\* over inside the try, an exception inside its handler.
ReceiveEnds ==
  /\ Finish(Listener, "receive")
  /\ \/ Uses /\ Goto(Listener, "top")
     \/ /\ Uses \/ UNCHANGED sockets
        /\ \/ Goto(Listener, "backoff") \/ Goto(Listener, "backoffAgain")
  /\ UNCHANGED <<queue, device, stop, abandoned>>

Wake ==
  /\ \/ pc[Listener] = "backoff" /\ Goto(Listener, "reopening")
     \/ pc[Listener] = "backoffAgain" /\ Goto(Listener, "retrying")
  /\ Ask(Listener)
  /\ UNCHANGED <<holder, calls, device, sockets, stop, abandoned>>

\* Failing to reopen raises: from the try into its handler, where the loop
\* sleeps once more; from the handler back to the top.
ReopenEnds ==
  /\ Finish(Listener, "open")
  /\ UNCHANGED <<stop, abandoned>>
  /\ \/ OpenDevice /\ Goto(Listener, "refetching") /\ Ask(Listener)
     \/ /\ Drops /\ UNCHANGED <<device, queue>>
        /\ Goto(Listener, IF pc[Listener] = "reopening" THEN "backoffAgain"
                                                        ELSE "top")

RefetchEnds ==
  /\ Finish(Listener, "status")
  /\ Uses \/ UNCHANGED sockets
  /\ Goto(Listener, "top")
  /\ UNCHANGED <<queue, device, stop, abandoned>>

-----------------------------------------------------------------------------
(***************************************************************************)
(* send_command(), and what may happen to the service call that runs it.   *)
(* Entities exist from the end of setup; they refuse a command at once     *)
(* when there is no device.                                                *)
(***************************************************************************)
SendCommand(s) ==
  /\ pc[s] = "idle"
  /\ pc[Owner] \in {"up", "closing"}
  /\ device # None
  /\ \A c \in calls : c.by # s      \* a task's name is free once its call is over
  /\ Goto(s, "sending") /\ Ask(s)
  /\ UNCHANGED <<holder, calls, device, sockets, stop, abandoned>>

SendEnds(s) ==
  /\ Finish(s, "set")
  /\ Uses \/ UNCHANGED sockets
  /\ Goto(s, "idle")
  /\ UNCHANGED <<queue, device, stop, abandoned>>

\* The lock is released as the exception leaves `async with'; a call that no
\* thread has taken up yet is dropped with its future.
Cancel(s) ==
  /\ s \in Cancellable
  /\ pc[s] = "sending"
  /\ Goto(s, "idle")
  /\ LeavesQueue(s)
  /\ IF holder = s
     THEN /\ Unlocked
          /\ calls' \in {calls, {c \in calls : c.by # s}}
          /\ abandoned' = (abandoned \/ calls' = calls)
     ELSE UNCHANGED <<holder, calls, abandoned>>
  /\ UNCHANGED <<device, sockets, stop>>

\* A call nobody awaits any more ends, on the device it was made on.
OrphanEnds(c) ==
  /\ holder # c.by
  /\ calls' = calls \ {c}
  /\ sockets' \in {sockets, sockets \cup {c.on}}
  /\ UNCHANGED <<pc, queue, holder, device, stop, abandoned>>

-----------------------------------------------------------------------------
Init ==
  /\ pc = [p \in Tasks |-> IF p = Owner THEN "new"
                           ELSE IF p = Listener THEN "off" ELSE "idle"]
  /\ queue = <<>> /\ holder = None /\ calls = {}
  /\ device = None /\ sockets = {} /\ stop = FALSE
  /\ abandoned = FALSE

OwnerStep == Connect \/ OpenEnds \/ FetchEnds \/ Disconnect \/ CloseEnds
ListenerStep == Listen \/ ReceiveEnds \/ Wake \/ ReopenEnds \/ RefetchEnds
SenderStep(s) == SendCommand(s) \/ SendEnds(s) \/ Cancel(s)

Next ==
  \/ \E p \in Tasks : Grant(p) \/ Refuse(p)
  \/ OwnerStep
  \/ ListenerStep
  \/ \E s \in Senders : SenderStep(s)
  \/ \E c \in calls : OrphanEnds(c)

Spec == Init /\ [][Next]_vars

\* Every device call ends, its socket having a timeout; the event loop runs
\* the task that is next.
CallEnds(p) ==
  IF p = Owner THEN OpenEnds \/ FetchEnds \/ CloseEnds
  ELSE IF p = Listener THEN ReceiveEnds \/ ReopenEnds \/ RefetchEnds
  ELSE SendEnds(p)

Fairness ==
  /\ \A p \in Tasks : WF_vars(Grant(p) \/ Refuse(p)) /\ WF_vars(CallEnds(p))
  /\ WF_vars(Listen) /\ WF_vars(Wake)

FairSpec == Spec /\ Fairness

-----------------------------------------------------------------------------
(***************************************************************************)
(* What should hold.                                                       *)
(***************************************************************************)
TypeOK ==
  /\ pc \in [Tasks -> Waiting \cup
                       {"new", "failed", "up", "down", "off", "top", "backoff",
                        "backoffAgain", "ended", "idle"}]
  /\ queue \in Seq(Tasks)
  /\ holder \in Tasks \cup {None}
  /\ calls \subseteq [by : Tasks,
                      op : {"open", "status", "receive", "set", "close"},
                      on : Devices \cup {None}]
  /\ device \in Devices \cup {None}
  /\ sockets \subseteq Devices
  /\ stop \in BOOLEAN /\ abandoned \in BOOLEAN

\* Every access to the device is serialized (local_tuya.py 71-73): never two
\* of receive, send, status, open and close at a time.
AccessIsSerialized == \A c, d \in calls : c = d

\* It is as long as no task was cancelled while its call ran in a thread: a
\* cancelled wait for the lock, or a call no thread had taken up, does no harm.
SerialUnlessAbandoned == abandoned \/ AccessIsSerialized

\* Reconnecting and disconnecting leave no socket behind: only the device in
\* service ever holds one, and none does once there is no device.
NoSocketIsLeaked == abandoned \/ sockets \subseteq {device} \ {None}

\* The lock, the queue and the order of disconnect() give serial access to
\* the current device, and none after the transport is closed, up to the step
\* that abandons a call.
Access == INSTANCE DeviceAccess
            WITH inUse   <- {[op |-> c.op, on |-> c.on] : c \in calls},
                 current <- device,
                 closed  <- pc[Owner] = "down"

ImplementsDeviceAccess ==
  Access!Init /\ [][abandoned' \/ Access!Next]_(Access!vars)

\* A listener that takes the lock over and over starves nobody: a command
\* comes to its end, and so does disconnect().
EveryoneIsServed ==
  /\ \A s \in Senders : pc[s] = "sending" ~> pc[s] = "idle"
  /\ pc[Owner] = "closing" ~> pc[Owner] = "down"
=============================================================================
