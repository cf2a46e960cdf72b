---------------------------- MODULE CloudPolling ----------------------------
(***************************************************************************)
(* The Tuya cloud transport: the polls and the commands of all devices     *)
(* share one session, EufyLogin.tuya_client.  api/cloud.py                 *)
(* (getCloudDevice, sendCloudCommand, tuya_login), api/tuya_cloud.py       *)
(* (request, get_device, send_command), and the poll of coordinator.py     *)
(* with its backoff.                                                       *)
(*                                                                         *)
(* Whoever is refused drops the session, logs in again and tries once      *)
(* more.  Between a request and the handling of its answer others run: the *)
(* session dropped may be one another actor has just renewed.              *)
(*                                                                         *)
(* The answer to a request is decided as it is made and handled some time  *)
(* later.  A login is one step, the regions it tries in turn included.     *)
(* Time is counted in ticks of 30 s, requests not counted.                 *)
(***************************************************************************)
EXTENDS Integers

CONSTANTS
  Pollers,    \* the devices polled
  Senders,    \* the commands that may be in flight together
  Clients,    \* identities of TuyaCloudClient objects
  Requests,   \* the requests of one get_device_list
  Base, Cap,  \* _CLOUD_POLL_INTERVAL, _MAX_BACKOFF_INTERVAL
  Threshold,  \* _FAILURE_THRESHOLD
  None,
  MaxExpiries, MaxOutages   \* bounds of the model

Actors == Pollers \cup Senders

ASSUME ActorsAreDistinct == Pollers \cap Senders = {}
ASSUME ThereAreClients == Clients # {} /\ None \notin Clients
ASSUME IntervalsArePositive ==
  /\ Base \in Nat \ {0} /\ Cap \in Nat /\ Cap >= Base
  /\ Requests \in Nat \ {0} /\ Threshold \in Nat \ {0}
ASSUME BoundsAreNumbers == MaxExpiries \in Nat /\ MaxOutages \in Nat

VARIABLES
  call,       \* of each actor, see Calls
  tuya,       \* tuya_client
  sids,       \* the clients that hold a session id
  alive,      \* those whose session the cloud accepts
  cloudUp,    \* no outage
  expiries, outages,   \* counted
  failures,   \* _consecutive_cloud_failures, up to the threshold
  due,        \* ticks to the next poll
  age,        \* ticks waited since the last good poll, up to a bound
  available,  \* last_update_success
  touched,    \* history: data were set by hand since the last good poll
  published   \* how often the cloud has carried out a command in flight

cloudVars == <<cloudUp, expiries, outages>>
pollVars  == <<failures, due, age, available, touched>>

vars == <<call, tuya, sids, alive, cloudVars, pollVars, published>>

\* Where an actor is, the client it calls, the requests of the call not done
\* yet, and the answer to the present one.
Calls ==
  [at : {"idle", "asking", "login", "retrying"}, on : Clients \cup {None},
   left : 0..Requests, answer : {"ok", "refused", "lost", None}]

Idle     == [at |-> "idle", on |-> None, left |-> 0, answer |-> None]
LogsIn   == [Idle EXCEPT !.at = "login"]
InFlight == {"asking", "retrying"}

-----------------------------------------------------------------------------
(***************************************************************************)
(* Backoff: _on_cloud_success, _on_cloud_failure.                          *)
(***************************************************************************)
Least(m, n) == IF m < n THEN m ELSE n

Interval(n) == Least(Base * 2 ^ Least(n, 4), Cap)

\* What the intervals of the polls let fail, up to the n-th, add up to.
Patience[n \in 0..(Threshold - 1)] ==
  IF n = 0 THEN Interval(0) ELSE Patience[n - 1] + Interval(n)

\* Fault: the interval is left where the failures had brought it.
SucceedsSlowly(p) ==
  /\ failures' = [failures EXCEPT ![p] = 0]
  /\ due' = [due EXCEPT ![p] = Interval(failures[p])]
  /\ age' = [age EXCEPT ![p] = 0]
  /\ available' = [available EXCEPT ![p] = TRUE]
  /\ touched' = [touched EXCEPT ![p] = FALSE]

Succeeds(p) ==
  /\ failures' = [failures EXCEPT ![p] = 0]
  /\ due' = [due EXCEPT ![p] = Base]
  /\ age' = [age EXCEPT ![p] = 0]
  /\ available' = [available EXCEPT ![p] = TRUE]
  /\ touched' = [touched EXCEPT ![p] = FALSE]

\* Below the threshold a failed poll returns the data there are, which counts
\* as an update.
Fails(p) ==
  LET n == Least(failures[p] + 1, Threshold)
  IN  /\ failures' = [failures EXCEPT ![p] = n]
      /\ due' = [due EXCEPT ![p] = Interval(n)]
      /\ available' = [available EXCEPT ![p] = n < Threshold]
      /\ UNCHANGED <<age, touched>>

-----------------------------------------------------------------------------
(***************************************************************************)
(* One call of an actor: its requests, the refusal that makes it log in,   *)
(* its end.                                                                *)
(***************************************************************************)
\* What the cloud may answer to a request made with client g.
Answers(g) ==
  IF cloudUp THEN {IF g \in alive THEN "ok" ELSE "refused"}
  ELSE {"refused", "lost"}

\* A command is carried out with its answer, or though the answer is lost.
Publish(a, reply) ==
  \E n \in 0..1 :
    /\ a \in Pollers \/ reply = "refused" => n = 0
    /\ a \in Senders /\ reply = "ok" => n = 1
    /\ published' = [s \in Senders |-> published[s] + IF s = a THEN n ELSE 0]

Ends(a) ==
  /\ call' = [call EXCEPT ![a] = Idle]
  /\ published' = [s \in Senders |-> IF s = a THEN 0 ELSE published[s]]

EndsWell(a) ==
  Ends(a) /\ IF a \in Pollers THEN Succeeds(a) ELSE UNCHANGED pollVars

\* A command that fails raises, for the service call to show.
EndsBadly(a) ==
  Ends(a) /\ IF a \in Pollers THEN Fails(a) ELSE UNCHANGED pollVars

\* Fault: a refusal ends the first try as it ends the second.
RefusedForGood(a, try) == EndsBadly(a) /\ UNCHANGED sids

\* The first refusal drops the session of the client there is now.
Refused(a, try) ==
  \/ /\ try = "asking"
     /\ call' = [call EXCEPT ![a] = LogsIn]
     /\ sids' = sids \ {tuya}
     /\ UNCHANGED <<pollVars, published>>
  \/ try = "retrying" /\ EndsBadly(a) /\ UNCHANGED sids

Ask(a, try, g, n) ==
  \E reply \in Answers(g) :
     /\ call' = [call EXCEPT ![a] = [at |-> try, on |-> g, left |-> n,
                                     answer |-> reply]]
     /\ Publish(a, reply)
     /\ UNCHANGED pollVars

\* Without a session id a request is refused before it is made.
Request(a, try, g, n) ==
  IF g \in sids THEN Ask(a, try, g, n) /\ UNCHANGED sids
  ELSE Refused(a, try)

-----------------------------------------------------------------------------
StartPoll(p) ==
  /\ call[p] = Idle /\ due[p] = 0
  /\ Request(p, "asking", tuya, Requests)
  /\ UNCHANGED <<tuya, alive, cloudVars>>

SendCommand(s) ==
  /\ call[s] = Idle
  /\ Request(s, "asking", tuya, 1)
  /\ UNCHANGED <<tuya, alive, cloudVars>>

\* Fault: a timeout is retried like a refusal.
HandleLostAsRefused(a) ==
  LET c == call[a]
  IN  /\ c.at \in InFlight
      /\ \/ c.answer = "ok" /\ c.left > 1 /\ Request(a, c.at, c.on, c.left - 1)
         \/ c.answer = "ok" /\ c.left = 1 /\ EndsWell(a) /\ UNCHANGED sids
         \/ c.answer \in {"refused", "lost"} /\ Refused(a, c.at)
      /\ UNCHANGED <<tuya, alive, cloudVars>>

\* The answer reaches its actor: the next request, the end, or the refusal.
\* A timeout is no refusal: it ends the call, the first try as well.
Handle(a) ==
  LET c == call[a]
  IN  /\ c.at \in InFlight
      /\ \/ c.answer = "ok" /\ c.left > 1 /\ Request(a, c.at, c.on, c.left - 1)
         \/ c.answer = "ok" /\ c.left = 1 /\ EndsWell(a) /\ UNCHANGED sids
         \/ c.answer = "refused" /\ Refused(a, c.at)
         \/ c.answer = "lost" /\ EndsBadly(a) /\ UNCHANGED sids
      /\ UNCHANGED <<tuya, alive, cloudVars>>

\* The clients a call holds on to.
Called == {call[a].on : a \in Actors} \ {None}

Spare == Clients \ ({tuya} \cup Called)

\* A new client object replaces the old one, and the call is tried on it.
LoginSucceeds(a) ==
  /\ call[a] = LogsIn /\ cloudUp
  /\ Spare # {}
  /\ LET g == CHOOSE c \in Spare : TRUE
     IN
       /\ tuya' = g
       /\ sids' = {g} \cup (sids \cap Called)
       /\ alive' = {g} \cup (alive \cap Called)
       /\ call' = [call EXCEPT ![a] =
                     [at |-> "retrying", on |-> g, answer |-> "ok",
                      left |-> IF a \in Pollers THEN Requests ELSE 1]]
       /\ Publish(a, "ok")
  /\ UNCHANGED <<cloudVars, pollVars>>

LoginFails(a) ==
  /\ call[a] = LogsIn /\ ~cloudUp
  /\ EndsBadly(a)
  /\ UNCHANGED <<tuya, sids, alive, cloudVars>>

\* set_active_cleaning_targets and set_active_scene: async_set_updated_data
\* counts as an update, and the next poll comes a whole interval later.  The
\* model lets this happen once between good polls.
SetTargets(p) ==
  /\ ~touched[p]
  /\ available' = [available EXCEPT ![p] = TRUE]
  /\ touched' = [touched EXCEPT ![p] = TRUE]
  /\ due' = IF call[p] = Idle THEN [due EXCEPT ![p] = Interval(failures[p])]
            ELSE due
  /\ UNCHANGED <<call, tuya, sids, alive, cloudVars, failures, age, published>>

-----------------------------------------------------------------------------
(***************************************************************************)
(* Time and the cloud.                                                     *)
(***************************************************************************)
Waiting(p) == call[p] = Idle

Tick ==
  /\ \A p \in Pollers : Waiting(p) => due[p] > 0
  /\ due' = [p \in Pollers |-> IF Waiting(p) THEN due[p] - 1 ELSE due[p]]
  /\ age' = [p \in Pollers |-> IF Waiting(p) /\ ~touched[p] /\ available[p]
                                THEN age[p] + 1 ELSE age[p]]
  /\ UNCHANGED <<call, tuya, sids, alive, cloudVars, failures, available,
                 touched, published>>

Expire(g) ==
  /\ expiries < MaxExpiries
  /\ g \in alive
  /\ alive' = alive \ {g}
  /\ expiries' = expiries + 1
  /\ UNCHANGED <<call, tuya, sids, cloudUp, outages, pollVars, published>>

Outage ==
  /\ cloudUp /\ outages < MaxOutages
  /\ cloudUp' = FALSE
  /\ outages' = outages + 1
  /\ UNCHANGED <<call, tuya, sids, alive, expiries, pollVars, published>>

Recovery ==
  /\ ~cloudUp
  /\ cloudUp' = TRUE
  /\ UNCHANGED <<call, tuya, sids, alive, expiries, outages, pollVars, published>>

\* The first poll comes one interval after the entities are added; the session
\* is that of the setup.
Init ==
  /\ call = [a \in Actors |-> Idle]
  /\ tuya = (CHOOSE g \in Clients : TRUE) /\ sids = {tuya} /\ alive = {tuya}
  /\ cloudUp = TRUE /\ expiries = 0 /\ outages = 0
  /\ failures = [p \in Pollers |-> 0]
  /\ due = [p \in Pollers |-> Base]
  /\ age = [p \in Pollers |-> 0]
  /\ available = [p \in Pollers |-> TRUE]
  /\ touched = [p \in Pollers |-> FALSE]
  /\ published = [s \in Senders |-> 0]

Next ==
  \/ \E p \in Pollers : StartPoll(p) \/ SetTargets(p)
  \/ \E s \in Senders : SendCommand(s)
  \/ \E a \in Actors : Handle(a) \/ LoginSucceeds(a) \/ LoginFails(a)
  \/ Tick
  \/ \E g \in Clients : Expire(g)
  \/ Outage \/ Recovery

Spec == Init /\ [][Next]_vars

\* Requests have a timeout, the event loop polls what is due, and an outage
\* ends.
Fairness ==
  /\ \A p \in Pollers : WF_vars(StartPoll(p))
  /\ \A a \in Actors : WF_vars(Handle(a) \/ LoginSucceeds(a) \/ LoginFails(a))
  /\ WF_vars(Tick)
  /\ WF_vars(Recovery)

FairSpec == Spec /\ Fairness

-----------------------------------------------------------------------------
(***************************************************************************)
(* What should hold.                                                       *)
(***************************************************************************)
TypeOK ==
  /\ call \in [Actors -> Calls]
  /\ tuya \in Clients /\ sids \subseteq Clients /\ alive \subseteq Clients
  /\ cloudUp \in BOOLEAN
  /\ expiries \in 0..MaxExpiries /\ outages \in 0..MaxOutages
  /\ failures \in [Pollers -> 0..Threshold]
  /\ due \in [Pollers -> 0..Cap]
  /\ age \in [Pollers -> Nat]
  /\ available \in [Pollers -> BOOLEAN] /\ touched \in [Pollers -> BOOLEAN]
  /\ published \in [Senders -> 0..2]

\* The data of a device shown as available are never older than the intervals
\* of the failures let pass add up to (coordinator.py 829-862), whatever
\* failures and successes came before, unless a user's command refreshed them.
StalenessIsBounded ==
  \A p \in Pollers :
    available[p] /\ ~touched[p] => age[p] <= Patience[Threshold - 1]

\* A command is never carried out twice: only a refused one is sent again
\* (cloud.py 400-422).
PublishedOnce == \A s \in Senders : published[s] <= 1

\* Once the cloud stays up and sessions last, every device is polled with
\* success for ever.
CloudRecovers == \A p \in Pollers : <>[](failures[p] = 0 /\ available[p])
=============================================================================
