--------------------------- MODULE IncomingProofs ---------------------------
(***************************************************************************)
(* What comes in from a cloud: the polls and commands of the Tuya session  *)
(* (CloudPolling), the map stream (MapStream) and the plain data points    *)
(* (PlainRobots).  The three share no state and no definition, but the     *)
(* lemmas on recursion below; for each of them its own invariant and its   *)
(* own theorems:                                                           *)
(*                                                                         *)
(*   - the session carries a command out at most once, for any number of   *)
(*     devices and commands and whatever the cloud does, and a device is   *)
(*     shown as available no longer than its failures explain;             *)
(*   - a frame is decoded to the picture the robot meant, however long it  *)
(*     is and whatever its encoder copied, or where it was cut to the      *)
(*     beginning of it or to nothing, and points on the map image go back  *)
(*     to where they came from;                                            *)
(*   - a plain report says the same in whatever order its data points are  *)
(*     written, and once the reports are handled the robot is shown.       *)
(***************************************************************************)
EXTENDS CloudPolling, PlainRobots, MapStream,
        FiniteSetTheorems, WellFoundedInduction, SequenceTheorems, TLAPS

-----------------------------------------------------------------------------
(***************************************************************************)
(* Induction over the natural numbers, stated of a set.  What it gives for *)
(* recursive functions: what is the same at the start and goes on the same *)
(* way is the same all along, and a step can be repeated.                  *)
(***************************************************************************)
LEMMA SetInduction ==
  ASSUME NEW S, 0 \in S, \A n \in Nat : n \in S => n + 1 \in S
  PROVE  Nat \subseteq S
<1> DEFINE R == {ss \in Nat \X Nat : ss[1] < ss[2]}
           T == Nat \ S
<1>1. IsWellFoundedOn(R, Nat)
  BY NatLessThanWellFounded DEF OpToRel
<1>2. ASSUME T # {} PROVE FALSE
  <2>1. T \subseteq Nat
    OBVIOUS
  <2> HIDE DEF R, T
  <2>2. PICK x \in T : \A y \in T : ~ (<<y, x>> \in R)
    BY <1>1, <1>2, <2>1, WFMin
  <2>3. x \in Nat /\ x # 0 /\ x - 1 \in Nat
    BY <2>1 DEF T
  <2>4. x - 1 \in T
    BY <2>3 DEF T
  <2>5. <<x - 1, x>> \in R
    BY <2>3 DEF R
  <2> QED BY <2>2, <2>4, <2>5
<1> QED BY <1>2

\* f and g start alike, and what is alike goes on alike.
GoAlike(f, g, L) ==
  f[0] = g[0] /\ \A n \in 1..L : f[n - 1] = g[n - 1] => f[n] = g[n]

AreAlike(f, g, L) == \A n \in 0..L : f[n] = g[n]

LEMMA SameAllAlong ==
  ASSUME NEW L \in Nat, NEW f, NEW g, GoAlike(f, g, L)
  PROVE  AreAlike(f, g, L)
<1> DEFINE S == {n \in Nat : n \in 0..L => f[n] = g[n]}
<1>1. 0 \in S
  BY DEF GoAlike
<1>2. ASSUME NEW n \in Nat, n \in S PROVE n + 1 \in S
  <2>1. CASE n + 1 \in 0..L
    <3>1. n \in 0..L /\ n + 1 \in 1..L /\ (n + 1) - 1 = n
      BY <2>1
    <3>2. f[n] = g[n]
      BY <1>2, <3>1
    <3>3. f[n + 1] = g[n + 1]
      BY <3>1, <3>2 DEF GoAlike
    <3> QED BY <3>3
  <2>2. CASE n + 1 \notin 0..L
    BY <2>2
  <2> QED BY <2>1, <2>2
<1>3. Nat \subseteq S
  <2> HIDE DEF S
  <2> QED BY <1>1, <1>2, SetInduction
<1> QED BY <1>3 DEF AreAlike

\* f[k] is b after the first k steps.
Iterates(f, step, b, n) ==
  f[0] = b /\ \A k \in 1..n : f[k] = step[k][f[k - 1]]

\* The values of a step repeated stay in the set it works on.
LEMMA StepsCanBeRepeated ==
  ASSUME NEW S, NEW b \in S, NEW L \in Nat, NEW step \in [1..L -> [S -> S]]
  PROVE  \E f \in [0..L -> S] : Iterates(f, step, b, L)
<1> DEFINE P(n) == \E f \in [0..n -> S] : Iterates(f, step, b, n)
           T == {n \in Nat : n \in 0..L => P(n)}
<1>1. 0 \in T
  <2> DEFINE f == [i \in 0..0 |-> b]
  <2>1. f \in [0..0 -> S]
    OBVIOUS
  <2>2. Iterates(f, step, b, 0)
    BY DEF Iterates
  <2> QED BY <2>1, <2>2
<1>2. ASSUME NEW n \in Nat, n \in T PROVE n + 1 \in T
  <2> SUFFICES ASSUME n + 1 \in 0..L PROVE P(n + 1)
    OBVIOUS
  <2>1. n \in 0..L /\ n + 1 \in 1..L
    OBVIOUS
  <2>2. PICK f \in [0..n -> S] : Iterates(f, step, b, n)
    BY <1>2, <2>1
  <2> DEFINE v == step[n + 1][f[n]]
             g == [i \in 0..(n + 1) |-> IF i = n + 1 THEN v ELSE f[i]]
  <2>3. v \in S
    <3>1. f[n] \in S /\ step[n + 1] \in [S -> S]
      BY <2>1
    <3> QED BY <3>1
  <2>4. g \in [0..(n + 1) -> S]
    <3> HIDE DEF v
    <3>1. ASSUME NEW i \in 0..(n + 1) PROVE (IF i = n + 1 THEN v ELSE f[i]) \in S
      <4>1. CASE i = n + 1
        BY <4>1, <2>3
      <4>2. CASE i # n + 1
        <5>1. i \in 0..n
          BY <4>2
        <5>2. f[i] \in S
          BY <5>1
        <5> QED BY <4>2, <5>2
      <4> QED BY <4>1, <4>2
    <3> QED BY <3>1, Zenon
  <2>5. g[0] = b
    BY <2>2 DEF Iterates
  <2>6. ASSUME NEW i \in 1..(n + 1) PROVE g[i] = step[i][g[i - 1]]
    <3>1. CASE i = n + 1
      <4>1. i \in 0..(n + 1) /\ i - 1 \in 0..(n + 1) /\ i - 1 # n + 1 /\ i - 1 = n
        BY <3>1
      <4>2. g[i] = v /\ g[i - 1] = f[n]
        BY <3>1, <4>1
      <4> QED BY <4>2, <3>1
    <3>2. CASE i # n + 1
      <4>1. i \in 1..n /\ i \in 0..(n + 1) /\ i - 1 \in 0..(n + 1) /\ i - 1 # n + 1
        BY <3>2
      <4>2. g[i] = f[i] /\ g[i - 1] = f[i - 1]
        BY <4>1, <3>2
      <4>3. f[i] = step[i][f[i - 1]]
        BY <2>2, <4>1 DEF Iterates
      <4> QED BY <4>2, <4>3
    <3> QED BY <3>1, <3>2
  <2>7. Iterates(g, step, b, n + 1)
    <3> HIDE DEF g
    <3> QED BY <2>5, <2>6 DEF Iterates
  <2> HIDE DEF g
  <2> QED BY <2>4, <2>7
<1>3. Nat \subseteq T
  <2> HIDE DEF T
  <2> QED BY <1>1, <1>2, SetInduction
<1>4. L \in T
  <2> HIDE DEF T
  <2> QED BY <1>3
<1> QED BY <1>4

-----------------------------------------------------------------------------
(***************************************************************************)
(* The session of the Tuya cloud (CloudPolling): how often a command is    *)
(* carried out.  The invariant relates what the cloud has done to where the*)
(* command is: nothing while it waits for a login or for the handling of a *)
(* refusal.                                                                *)
(***************************************************************************)
CallsOK ==
  /\ call \in [Actors -> Calls]
  /\ published \in [Senders -> Nat]

\* For a command whose call is c, carried out n times.
SendOK(c, n) ==
  /\ n <= 1
  /\ c.at \in {"idle", "login"} => n = 0
  /\ c.at \in InFlight => c.left = 1
  /\ c.at \in InFlight /\ c.answer = "refused" => n = 0

SendInv == \A s \in Senders : SendOK(call[s], published[s])

CloudInv == CallsOK /\ SendInv

\* What a step does to the call of actor a: it becomes c, and if a is a
\* command it has been carried out n times by then.
Becoming(a, c, n) ==
  /\ call' = [call EXCEPT ![a] = c]
  /\ published' = [s \in Senders |-> IF s = a THEN n ELSE published[s]]

-----------------------------------------------------------------------------
\* A step of one actor keeps the invariant when it does so for that actor.
LEMMA ActorStep ==
  ASSUME CloudInv, NEW a \in Actors, NEW c \in Calls, NEW n \in Nat,
         Becoming(a, c, n), a \in Senders => SendOK(c, n)
  PROVE  CloudInv'
<1>1. CallsOK'
  BY DEF CloudInv, CallsOK, Becoming
<1>2. ASSUME NEW s \in Senders PROVE SendOK(call[s], published[s])'
  <2>1. CASE s = a
    <3>1. call'[s] = c /\ published'[s] = n
      BY <2>1 DEF CloudInv, CallsOK, Becoming
    <3> QED BY <2>1, <3>1 DEF SendOK
  <2>2. CASE s # a
    <3>1. call'[s] = call[s] /\ published'[s] = published[s]
      BY <2>2 DEF CloudInv, CallsOK, Becoming, Actors
    <3>2. SendOK(call[s], published[s])
      BY DEF CloudInv, SendInv
    <3> QED BY <3>1, <3>2 DEF SendOK
  <2> QED BY <2>1, <2>2
<1> QED BY <1>1, <1>2 DEF CloudInv, SendInv

LEMMA IdleIsCall == Idle \in Calls /\ LogsIn \in Calls
BY IntervalsArePositive DEF Idle, LogsIn, Calls

\* A call that ends leaves its actor idle, one that logs in is not counted.
LEMMA EndKeeps ==
  ASSUME CloudInv, NEW a \in Actors, Ends(a)
  PROVE  CloudInv'
<1>1. Becoming(a, Idle, 0)
  BY DEF Ends, Becoming
<1>2. SendOK(Idle, 0)
  BY DEF SendOK, Idle, InFlight
<1> QED BY <1>1, <1>2, IdleIsCall, ActorStep

\* A refusal that finds nothing carried out.
LEMMA RefusedKeeps ==
  ASSUME CloudInv, NEW a \in Actors, NEW try, Refused(a, try),
         a \in Senders => published[a] = 0
  PROVE  CloudInv'
<1>1. CASE EndsBadly(a)
  BY <1>1, EndKeeps DEF EndsBadly
<1>2. CASE call' = [call EXCEPT ![a] = LogsIn] /\ UNCHANGED published
  <2>1. Becoming(a, LogsIn, 0)
    BY <1>2 DEF CloudInv, CallsOK, Becoming
  <2>2. SendOK(LogsIn, 0)
    BY DEF SendOK, LogsIn, Idle, InFlight
  <2> QED BY <2>1, <2>2, IdleIsCall, ActorStep
<1> QED BY <1>1, <1>2 DEF Refused

\* An answer on its way, to a command not carried out before.
LEMMA AnswerKeeps ==
  ASSUME CloudInv, NEW a \in Actors, NEW c \in Calls,
         call' = [call EXCEPT ![a] = c], Publish(a, c.answer),
         c.at \in InFlight,
         a \in Senders => published[a] = 0 /\ c.left = 1
  PROVE  CloudInv'
<1>1. PICK n \in 0..1 :
         /\ a \in Pollers \/ c.answer = "refused" => n = 0
         /\ published' = [s \in Senders |-> published[s] + IF s = a THEN n ELSE 0]
  BY DEF Publish
<1>2. Becoming(a, c, n)
  BY <1>1 DEF CloudInv, CallsOK, Becoming
<1>3. a \in Senders => SendOK(c, n)
  BY <1>1 DEF SendOK, InFlight
<1> QED BY <1>1, <1>2, <1>3, ActorStep

\* A request of an actor that has nothing carried out yet.
LEMMA RequestKeeps ==
  ASSUME CloudInv, NEW a \in Actors, NEW try \in InFlight, NEW g \in Clients \cup {None},
         NEW n \in 1..Requests, Request(a, try, g, n),
         a \in Senders => published[a] = 0 /\ n = 1
  PROVE  CloudInv'
<1>1. CASE Refused(a, try)
  BY <1>1, RefusedKeeps
<1>2. CASE Ask(a, try, g, n)
  <2>1. PICK reply \in Answers(g) :
          /\ call' = [call EXCEPT ![a] = [at |-> try, on |-> g, left |-> n,
                                          answer |-> reply]]
          /\ Publish(a, reply)
    BY <1>2 DEF Ask
  <2> DEFINE c == [at |-> try, on |-> g, left |-> n, answer |-> reply]
  <2>2. reply \in {"ok", "refused", "lost"}
    BY DEF Answers
  <2>3. c \in Calls /\ c.at = try /\ c.left = n /\ c.answer = reply
    BY <2>2, IntervalsArePositive DEF Calls, InFlight
  <2>4. call' = [call EXCEPT ![a] = c] /\ Publish(a, c.answer)
    BY <2>1, <2>3
  <2> HIDE DEF c
  <2> QED BY <2>3, <2>4, AnswerKeeps
<1> QED BY <1>1, <1>2 DEF Request

-----------------------------------------------------------------------------
(***************************************************************************)
(* The actions.                                                            *)
(***************************************************************************)
LEMMA StartKeeps ==
  ASSUME CloudInv, tuya \in Clients, NEW a \in Actors,
         (a \in Pollers /\ StartPoll(a)) \/ (a \in Senders /\ SendCommand(a))
  PROVE  CloudInv'
<1>1. a \in Senders => published[a] = 0
  BY ActorsAreDistinct DEF CloudInv, SendInv, SendOK, SendCommand, Idle
<1>2. CASE a \in Pollers /\ StartPoll(a)
  <2>1. Request(a, "asking", tuya, Requests) /\ a \notin Senders
    BY <1>2, ActorsAreDistinct DEF StartPoll
  <2> QED BY <2>1, RequestKeeps, IntervalsArePositive DEF InFlight
<1>3. CASE a \in Senders /\ SendCommand(a)
  BY <1>1, <1>3, RequestKeeps, IntervalsArePositive DEF SendCommand, InFlight
<1> QED BY <1>2, <1>3

\* The answer of a command is that of its only request.
LEMMA HandleKeeps ==
  ASSUME CloudInv, NEW a \in Actors, Handle(a)
  PROVE  CloudInv'
<1> DEFINE c == call[a]
<1>1. /\ c.at \in InFlight /\ c.left \in 0..Requests
      /\ c.on \in Clients \cup {None}
  BY DEF Handle, CloudInv, CallsOK, Calls
<1>2. a \in Senders => c.left = 1 /\ (c.answer = "refused" => published[a] = 0)
  BY <1>1 DEF CloudInv, SendInv, SendOK
<1>3. CASE c.left > 1 /\ Request(a, c.at, c.on, c.left - 1)
  <2>1. c.left - 1 \in 1..Requests /\ a \notin Senders
    BY <1>1, <1>2, <1>3, IntervalsArePositive
  <2> QED BY <1>1, <1>3, <2>1, RequestKeeps
<1>4. CASE EndsWell(a) \/ EndsBadly(a)
  BY <1>4, EndKeeps DEF EndsWell, EndsBadly
<1>5. CASE c.answer = "refused" /\ Refused(a, c.at)
  BY <1>2, <1>5, RefusedKeeps
<1> QED BY <1>3, <1>4, <1>5 DEF Handle

LEMMA LoginKeeps ==
  ASSUME CloudInv, NEW a \in Actors, LoginSucceeds(a) \/ LoginFails(a)
  PROVE  CloudInv'
<1>1. CASE LoginFails(a)
  BY <1>1, EndKeeps DEF LoginFails, EndsBadly
<1>2. CASE LoginSucceeds(a)
  <2>1. tuya' \in Clients
    BY <1>2 DEF LoginSucceeds, Spare
  <2> DEFINE c == [at |-> "retrying", on |-> tuya', answer |-> "ok",
                   left |-> IF a \in Pollers THEN Requests ELSE 1]
  <2>2. /\ c \in Calls /\ c.at \in InFlight /\ c.answer = "ok"
        /\ a \in Senders => c.left = 1
    BY <2>1, ActorsAreDistinct, IntervalsArePositive DEF Calls, InFlight
  <2>3. call' = [call EXCEPT ![a] = c] /\ Publish(a, c.answer)
    BY <1>2 DEF LoginSucceeds
  <2>4. a \in Senders => published[a] = 0
    BY <1>2 DEF LoginSucceeds, LogsIn, Idle, CloudInv, SendInv, SendOK
  <2> HIDE DEF c
  <2> QED BY <2>2, <2>3, <2>4, AnswerKeeps
<1> QED BY <1>1, <1>2

\* The present client is always one.
LEMMA TuyaStep ==
  ASSUME tuya \in Clients, [Next]_vars
  PROVE  tuya' \in Clients
BY DEF Next, StartPoll, SetTargets, SendCommand, Handle, LoginSucceeds, LoginFails,
   Spare, Tick, Expire, Outage, Recovery, vars

LEMMA CloudStep ==
  ASSUME CloudInv, tuya \in Clients, [Next]_vars
  PROVE  CloudInv'
<1>1. CASE \E p \in Pollers : StartPoll(p)
  BY <1>1, StartKeeps DEF Actors
<1>2. CASE \E s \in Senders : SendCommand(s)
  BY <1>2, StartKeeps DEF Actors
<1>3. CASE \E a \in Actors : Handle(a) \/ LoginSucceeds(a) \/ LoginFails(a)
  BY <1>3, HandleKeeps, LoginKeeps
<1>4. CASE UNCHANGED <<call, published>>
  BY <1>4 DEF CloudInv, CallsOK, SendInv
<1>5. CASE \/ \E p \in Pollers : SetTargets(p)
           \/ Tick \/ (\E g \in Clients : Expire(g)) \/ Outage \/ Recovery
           \/ UNCHANGED vars
  BY <1>4, <1>5 DEF SetTargets, Tick, Expire, Outage, Recovery, vars
<1> QED BY <1>1, <1>2, <1>3, <1>5 DEF Next

LEMMA CloudInit == Init => CloudInv /\ tuya \in Clients
<1> SUFFICES ASSUME Init PROVE CloudInv /\ tuya \in Clients
  OBVIOUS
<1>1. CallsOK
  BY IdleIsCall DEF Init, CallsOK
<1>2. SendInv
  BY DEF Init, SendInv, SendOK, Idle, InFlight, Actors
<1>3. tuya \in Clients
  BY ThereAreClients DEF Init
<1> QED BY <1>1, <1>2, <1>3 DEF CloudInv

\* A command is never carried out twice, however often sessions expire, logins
\* fail and answers get lost while others use the same session.
THEOREM CommandsPublishedOnce == Spec => []PublishedOnce
<1>1. CloudInv => PublishedOnce
  BY DEF CloudInv, SendInv, SendOK, PublishedOnce
<1>2. CloudInv /\ tuya \in Clients /\ [Next]_vars => (CloudInv /\ tuya \in Clients)'
  BY CloudStep, TuyaStep
<1> QED BY <1>1, <1>2, CloudInit, PTL DEF Spec

-----------------------------------------------------------------------------
(***************************************************************************)
(* Types.  An interval is a number of ticks up to the cap.                 *)
(***************************************************************************)
SessionTyped == tuya \in Clients /\ sids \subseteq Clients /\ alive \subseteq Clients

CloudTyped ==
  /\ cloudUp \in BOOLEAN
  /\ expiries \in 0..MaxExpiries /\ outages \in 0..MaxOutages

PollTyped ==
  /\ failures \in [Pollers -> 0..Threshold] /\ due \in [Pollers -> 0..Cap]
  /\ age \in [Pollers -> Nat]
  /\ available \in [Pollers -> BOOLEAN] /\ touched \in [Pollers -> BOOLEAN]

\* The poller's answer, should the call of actor a end.
PollMoves(a) ==
  UNCHANGED pollVars \/ (a \in Pollers /\ (Succeeds(a) \/ Fails(a)))

LEMMA IntervalIsTyped ==
  ASSUME NEW n \in Nat
  PROVE  Interval(n) \in 0..Cap
<1> DEFINE k == Least(n, 4)
<1>1. k \in 0..4
  BY DEF Least
<1>2. 2^0 = 1 /\ 2^1 = 2 /\ 2^2 = 4 /\ 2^3 = 8 /\ 2^4 = 16
  BY SMT
<1>3. k = 0 \/ k = 1 \/ k = 2 \/ k = 3 \/ k = 4
  BY <1>1
<1> HIDE DEF k
<1>4. 2^k \in {1, 2, 4, 8, 16}
  BY <1>2, <1>3
<1> DEFINE w == 2^k
<1>5. w \in {1, 2, 4, 8, 16}
  BY <1>4
<1> HIDE DEF w
<1>6. Base * w \in Nat
  BY <1>5, IntervalsArePositive
<1>7. Interval(n) = Least(Base * w, Cap)
  BY DEF Interval, w, k
<1> QED
  BY <1>6, <1>7, IntervalsArePositive DEF Least

LEMMA MovesAreTyped ==
  ASSUME PollTyped, NEW p \in Pollers, Succeeds(p) \/ Fails(p)
  PROVE  PollTyped'
<1>1. CASE Succeeds(p)
  BY <1>1, IntervalsArePositive DEF Succeeds, PollTyped
<1>2. CASE Fails(p)
  <2> DEFINE n == Least(failures[p] + 1, Threshold)
  <2>1. n \in 0..Threshold /\ n \in Nat
    BY IntervalsArePositive DEF PollTyped, Least
  <2>2. Interval(n) \in 0..Cap
    BY <2>1, IntervalIsTyped
  <2>3. /\ failures' = [failures EXCEPT ![p] = n]
        /\ due' = [due EXCEPT ![p] = Interval(n)]
        /\ available' = [available EXCEPT ![p] = n < Threshold]
        /\ UNCHANGED <<age, touched>>
    BY <1>2 DEF Fails
  <2> HIDE DEF n
  <2> QED
    BY <2>1, <2>2, <2>3 DEF PollTyped
<1> QED
  BY <1>1, <1>2

\* What a request or its refusal does to the session and to the poll.
LEMMA RequestMoves ==
  ASSUME NEW a \in Actors, NEW try, NEW g, NEW n, Request(a, try, g, n)
  PROVE  sids' \subseteq sids /\ PollMoves(a)
BY DEF Request, Ask, Refused, EndsBadly, PollMoves

LEMMA CallMoves ==
  ASSUME NEW a \in Actors,
         \/ a \in Pollers /\ StartPoll(a)
         \/ a \in Senders /\ SendCommand(a)
         \/ Handle(a)
  PROVE  /\ sids' \subseteq sids /\ PollMoves(a)
         /\ UNCHANGED <<tuya, alive, cloudVars>>
<1>1. CASE (a \in Pollers /\ StartPoll(a)) \/ (a \in Senders /\ SendCommand(a))
  BY <1>1, RequestMoves DEF StartPoll, SendCommand
<1>2. CASE Handle(a)
  <2>1. CASE Request(a, call[a].at, call[a].on, call[a].left - 1)
    BY <1>2, <2>1, RequestMoves DEF Handle
  <2>2. CASE (EndsWell(a) \/ EndsBadly(a)) /\ UNCHANGED sids
    BY <1>2, <2>2 DEF Handle, EndsWell, EndsBadly, PollMoves
  <2>3. CASE Refused(a, call[a].at)
    BY <1>2, <2>3 DEF Handle, Refused, EndsBadly, PollMoves
  <2> QED
    BY <1>2, <2>1, <2>2, <2>3 DEF Handle
<1> QED
  BY <1>1, <1>2

LEMMA SessionStaysTyped ==
  ASSUME SessionTyped, [Next]_vars
  PROVE  SessionTyped'
<1>1. ASSUME NEW a \in Actors,
             \/ a \in Pollers /\ StartPoll(a)
             \/ a \in Senders /\ SendCommand(a)
             \/ Handle(a)
      PROVE  SessionTyped'
  BY <1>1, CallMoves DEF SessionTyped
<1>2. ASSUME NEW a \in Actors, LoginSucceeds(a) PROVE SessionTyped'
  <2>1. PICK g \in Clients :
          tuya' = g /\ sids' = {g} \cup (sids \cap Called)
          /\ alive' = {g} \cup (alive \cap Called)
    BY <1>2 DEF LoginSucceeds, Spare
  <2> QED
    BY <2>1 DEF SessionTyped
<1>3. CASE \/ \E a \in Actors : LoginFails(a)
           \/ \E p \in Pollers : SetTargets(p)
           \/ Tick \/ (\E g \in Clients : Expire(g)) \/ Outage \/ Recovery
           \/ UNCHANGED vars
  BY <1>3 DEF LoginFails, SetTargets, Tick, Expire, Outage, Recovery, vars, SessionTyped
<1> QED
  BY <1>1, <1>2, <1>3 DEF Next, Actors

LEMMA CloudStaysTyped ==
  ASSUME CloudTyped, [Next]_vars
  PROVE  CloudTyped'
<1>1. CASE UNCHANGED cloudVars
  BY <1>1 DEF CloudTyped, cloudVars
<1>2. CASE (\E g \in Clients : Expire(g)) \/ Outage \/ Recovery
  <2>1. expiries' \in 0..MaxExpiries /\ outages' \in 0..MaxOutages
    BY <1>2, BoundsAreNumbers DEF CloudTyped, Expire, Outage, Recovery
  <2>2. cloudUp' \in BOOLEAN
    BY <1>2 DEF CloudTyped, Expire, Outage, Recovery
  <2> QED
    BY <2>1, <2>2 DEF CloudTyped
<1> QED
  BY <1>1, <1>2 DEF Next, StartPoll, SendCommand, Handle, LoginSucceeds, LoginFails,
     SetTargets, Tick, vars, cloudVars

LEMMA PollStaysTyped ==
  ASSUME PollTyped, [Next]_vars
  PROVE  PollTyped'
<1>1. ASSUME NEW a \in Actors, PollMoves(a) PROVE PollTyped'
  BY <1>1, MovesAreTyped DEF PollMoves, PollTyped, pollVars
<1>2. ASSUME NEW a \in Actors,
             \/ a \in Pollers /\ StartPoll(a)
             \/ a \in Senders /\ SendCommand(a)
             \/ Handle(a)
      PROVE  PollTyped'
  BY <1>1, <1>2, CallMoves
<1>3. ASSUME NEW a \in Actors, LoginSucceeds(a) \/ LoginFails(a) PROVE PollTyped'
  <2>1. PollMoves(a)
    BY <1>3 DEF LoginSucceeds, LoginFails, EndsBadly, PollMoves
  <2> QED
    BY <1>1, <2>1
<1>4. ASSUME NEW p \in Pollers, SetTargets(p) PROVE PollTyped'
  <2>1. Interval(failures[p]) \in 0..Cap
    BY IntervalIsTyped DEF PollTyped
  <2> QED
    BY <1>4, <2>1 DEF SetTargets, PollTyped
<1>5. CASE Tick
  <2>1. due' \in [Pollers -> 0..Cap]
    BY <1>5, IntervalsArePositive DEF Tick, PollTyped
  <2>2. age' \in [Pollers -> Nat]
    BY <1>5 DEF Tick, PollTyped
  <2> QED
    BY <1>5, <2>1, <2>2 DEF Tick, PollTyped
<1>6. CASE (\E g \in Clients : Expire(g)) \/ Outage \/ Recovery \/ UNCHANGED vars
  BY <1>6 DEF Expire, Outage, Recovery, vars, PollTyped, pollVars
<1> QED
  BY <1>2, <1>3, <1>4, <1>5, <1>6 DEF Next, Actors

LEMMA TypesInit == Init => SessionTyped /\ CloudTyped /\ PollTyped
<1> SUFFICES ASSUME Init PROVE SessionTyped /\ CloudTyped /\ PollTyped
  OBVIOUS
<1>1. SessionTyped
  BY ThereAreClients DEF Init, SessionTyped
<1>2. CloudTyped
  BY BoundsAreNumbers DEF Init, CloudTyped
<1>3. PollTyped
  BY IntervalsArePositive DEF Init, PollTyped
<1> QED BY <1>1, <1>2, <1>3

\* The state of polls, commands and session stays well typed; that a command is
\* carried out once is part of the argument.
THEOREM CloudTypeCorrect == Spec => []TypeOK
<1> DEFINE Inv == CloudInv /\ SessionTyped /\ CloudTyped /\ PollTyped
<1>1. Init => Inv
  BY CloudInit, TypesInit
<1>2. Inv /\ [Next]_vars => Inv'
  BY CloudStep, SessionStaysTyped, CloudStaysTyped, PollStaysTyped DEF SessionTyped
<1>3. Inv => TypeOK
  <2> SUFFICES ASSUME Inv PROVE TypeOK
    OBVIOUS
  <2>1. published \in [Senders -> 0..2]
    BY DEF CloudInv, CallsOK, SendInv, SendOK
  <2> QED
    BY <2>1 DEF TypeOK, CloudInv, CallsOK, SessionTyped, CloudTyped, PollTyped
<1> QED BY <1>1, <1>2, <1>3, PTL DEF Spec

-----------------------------------------------------------------------------
(***************************************************************************)
(* The sums of the first numbers of a sequence.                            *)
(***************************************************************************)
SumsUpTo(f, d, n) == f[0] = d[0] /\ \A i \in 1..n : f[i] = f[i - 1] + d[i]

LEMMA OneMoreValue ==
  ASSUME NEW n \in Nat, NEW f \in [0..n -> Nat], NEW v \in Nat
  PROVE  [i \in 0..(n + 1) |-> IF i = n + 1 THEN v ELSE f[i]]
           \in [0..(n + 1) -> Nat]
<1>1. ASSUME NEW i \in 0..(n + 1)
      PROVE  (IF i = n + 1 THEN v ELSE f[i]) \in Nat
  <2>1. CASE i = n + 1
    BY <2>1
  <2>2. CASE i # n + 1
    <3>1. i \in 0..n
      BY <2>2
    <3>2. f[i] \in Nat
      BY <3>1
    <3> QED BY <2>2, <3>2
  <2> QED BY <2>1, <2>2
<1> QED BY <1>1, Zenon

LEMMA SumsExist ==
  ASSUME NEW d \in [Nat -> Nat], NEW m \in Nat
  PROVE  \E f \in [0..m -> Nat] : SumsUpTo(f, d, m)
<1> DEFINE S == {n \in Nat : \E f \in [0..n -> Nat] : SumsUpTo(f, d, n)}
<1>1. 0 \in S
  <2> DEFINE f == [i \in 0..0 |-> d[0]]
  <2>1. f \in [0..0 -> Nat]
    OBVIOUS
  <2>2. SumsUpTo(f, d, 0)
    BY DEF SumsUpTo
  <2> QED BY <2>1, <2>2
<1>2. ASSUME NEW n \in Nat, n \in S PROVE n + 1 \in S
  <2>1. PICK f \in [0..n -> Nat] : SumsUpTo(f, d, n)
    BY <1>2
  <2> DEFINE v == f[n] + d[n + 1]
             g == [i \in 0..(n + 1) |-> IF i = n + 1 THEN v ELSE f[i]]
  <2>2. v \in Nat
    OBVIOUS
  <2>3. g \in [0..(n + 1) -> Nat]
    <3> HIDE DEF v
    <3> QED BY <2>2, OneMoreValue
  <2>4. g[0] = d[0]
    BY <2>1 DEF SumsUpTo
  <2>5. ASSUME NEW i \in 1..(n + 1) PROVE g[i] = g[i - 1] + d[i]
    <3>1. CASE i = n + 1
      BY <3>1
    <3>2. CASE i # n + 1
      <4>1. i \in 1..n /\ i \in 0..(n + 1) /\ i - 1 \in 0..(n + 1) /\ i - 1 # n + 1
        BY <3>2
      <4>2. g[i] = f[i] /\ g[i - 1] = f[i - 1]
        BY <4>1, <3>2
      <4>3. f[i] = f[i - 1] + d[i]
        BY <2>1, <4>1 DEF SumsUpTo
      <4> QED BY <4>2, <4>3
    <3> QED BY <3>1, <3>2
  <2>6. SumsUpTo(g, d, n + 1)
    <3> HIDE DEF g
    <3> QED BY <2>4, <2>5 DEF SumsUpTo
  <2>7. \E h \in [0..(n + 1) -> Nat] : SumsUpTo(h, d, n + 1)
    <3> HIDE DEF g
    <3> QED BY <2>3, <2>6
  <2>8. n + 1 \in Nat
    OBVIOUS
  <2> QED BY <2>7, <2>8, Zenon
<1>3. Nat \subseteq S
  <2> HIDE DEF S
  <2> QED BY <1>1, <1>2, SetInduction
<1>4. m \in S
  <2> HIDE DEF S
  <2> QED BY <1>3
<1> QED BY <1>4

\* The recursive definition of Patience does define a function.
LEMMA PatienceAddsUp ==
  /\ Patience[0] = Interval(0)
  /\ \A n \in 1..(Threshold - 1) : Patience[n] = Patience[n - 1] + Interval(n)
<1> DEFINE m == Threshold - 1
           d == [n \in Nat |-> Interval(n)]
           Def(h) == [n \in 0..m |-> IF n = 0 THEN Interval(0)
                                     ELSE h[n - 1] + Interval(n)]
<1>1. m \in Nat
  BY IntervalsArePositive
<1>2. d \in [Nat -> Nat]
  BY IntervalIsTyped, IntervalsArePositive
<1>3. PICK f \in [0..m -> Nat] : SumsUpTo(f, d, m)
  <2> HIDE DEF d, m
  <2> QED BY <1>1, <1>2, SumsExist
<1>4. f = Def(f)
  <2> HIDE DEF m
  <2>1. ASSUME NEW n \in 0..m
        PROVE  f[n] = IF n = 0 THEN Interval(0) ELSE f[n - 1] + Interval(n)
    <3>1. CASE n = 0
      BY <1>3, <3>1 DEF SumsUpTo
    <3>2. CASE n # 0
      <4>1. n \in 1..m /\ n \in Nat
        BY <3>2, <1>1
      <4>2. f[n] = f[n - 1] + d[n]
        BY <1>3, <4>1 DEF SumsUpTo
      <4> QED BY <4>1, <4>2, <3>2
    <3> QED BY <3>1, <3>2
  <2> QED BY <2>1
<1>5. Patience = Def(Patience)
  BY <1>4 DEF Patience
<1> HIDE DEF m
<1>6. ASSUME NEW n \in 0..m
      PROVE  Patience[n] = IF n = 0 THEN Interval(0)
                           ELSE Patience[n - 1] + Interval(n)
  BY <1>5
<1>7. 0 \in 0..m /\ \A n \in 1..m : n \in 0..m /\ n # 0
  BY <1>1
<1>8. Patience[0] = Interval(0) /\ \A n \in 1..m : Patience[n] = Patience[n - 1] + Interval(n)
  BY <1>6, <1>7
<1> QED BY <1>8 DEF m

LEMMA PatienceGrows ==
  \A n \in 0..(Threshold - 1) :
    Patience[n] \in Nat /\ Patience[n] <= Patience[Threshold - 1]
<1> DEFINE m == Threshold - 1
<1>1. m \in Nat
  BY IntervalsArePositive
<1>2. \A n \in Nat : Interval(n) \in Nat
  BY IntervalIsTyped, IntervalsArePositive
<1>3. Patience[0] = Interval(0) /\ \A n \in 1..m : Patience[n] = Patience[n - 1] + Interval(n)
  BY PatienceAddsUp
<1> HIDE DEF m
<1>4. ASSUME NEW n \in 0..m PROVE Patience[n] \in Nat
  <2> DEFINE P == {k \in Nat : k \in 0..m => Patience[k] \in Nat}
  <2>1. 0 \in P
    BY <1>2, <1>3
  <2>2. ASSUME NEW k \in Nat, k \in P PROVE k + 1 \in P
    <3>1. CASE k + 1 \in 0..m
      <4>1. k \in 0..m /\ k + 1 \in 1..m /\ k + 1 \in Nat /\ (k + 1) - 1 = k
        BY <3>1, <1>1
      <4>2. Patience[k] \in Nat /\ Interval(k + 1) \in Nat
        BY <2>2, <4>1, <1>2
      <4>3. Patience[k + 1] = Patience[k] + Interval(k + 1)
        BY <1>3, <4>1
      <4>4. Patience[k + 1] \in Nat
        BY <4>2, <4>3
      <4> QED BY <4>4
    <3> QED BY <3>1
  <2>3. Nat \subseteq P
    <3> HIDE DEF P
    <3> QED BY <2>1, <2>2, SetInduction
  <2> QED BY <2>3, <1>1
<1>5. ASSUME NEW n \in 0..m PROVE Patience[n] <= Patience[m]
  <2> DEFINE P == {k \in Nat : k \in 0..m => Patience[m - k] <= Patience[m]}
  <2>1. 0 \in P
    <3>1. Patience[m] \in Nat /\ m - 0 = m
      BY <1>1, <1>4
    <3> QED BY <3>1
  <2>2. ASSUME NEW k \in Nat, k \in P PROVE k + 1 \in P
    <3>1. CASE k + 1 \in 0..m
      <4>1. /\ k \in 0..m /\ m - k \in 1..m /\ m - (k + 1) \in 0..m /\ m - k \in 0..m
            /\ m - k \in Nat /\ (m - k) - 1 = m - (k + 1) /\ m \in 0..m
        BY <3>1, <1>1
      <4>2. /\ Patience[m - k] \in Nat /\ Patience[m - (k + 1)] \in Nat
            /\ Patience[m] \in Nat /\ Interval(m - k) \in Nat
        BY <4>1, <1>2, <1>4
      <4>3. Patience[m - k] = Patience[m - (k + 1)] + Interval(m - k)
        BY <1>3, <4>1
      <4>4. Patience[m - k] <= Patience[m]
        BY <2>2, <4>1
      <4>5. Patience[m - (k + 1)] <= Patience[m]
        BY <4>2, <4>3, <4>4
      <4> QED BY <4>5
    <3> QED BY <3>1
  <2>3. Nat \subseteq P
    <3> HIDE DEF P
    <3> QED BY <2>1, <2>2, SetInduction
  <2>4. m - n \in Nat /\ m - n \in 0..m /\ m - (m - n) = n
    BY <1>1
  <2>5. m - n \in P
    BY <2>3, <2>4
  <2> QED BY <2>4, <2>5
<1> QED BY <1>4, <1>5 DEF m

-----------------------------------------------------------------------------
(***************************************************************************)
(* How long a device is shown as available.  While nobody has refreshed    *)
(* the data by hand, the time since the last good poll and the time to the *)
(* next are at most what the intervals of the failures so far add up to,   *)
(* and the device is unavailable once they have reached the threshold.     *)
(***************************************************************************)
AgeOK(t, v, f, old, next) ==
  ~t => /\ v <=> f < Threshold
        /\ v => old + next <= Patience[f]

\* Each device with its time since the last good poll.
AgeInv ==
  \A p \in Pollers : AgeOK(touched[p], available[p], failures[p], age[p], due[p])

LEMMA FirstInterval == Patience[0] = Base
<1>1. Least(0, 4) = 0
  BY DEF Least
<1>2. 2^0 = 1
  BY SMT
<1>3. Base * 2^Least(0, 4) = Base
  <2> DEFINE w == 2^Least(0, 4)
  <2>1. w = 1
    BY <1>1, <1>2
  <2> HIDE DEF w
  <2>2. Base * w = Base
    BY <2>1, IntervalsArePositive
  <2> QED BY <2>2 DEF w
<1>4. Interval(0) = Least(Base, Cap)
  BY <1>3 DEF Interval
<1>5. Interval(0) = Base
  BY <1>4, IntervalsArePositive DEF Least
<1> QED BY <1>5, PatienceAddsUp

LEMMA MovesKeepAge ==
  ASSUME PollTyped, AgeInv, NEW p \in Pollers, Succeeds(p) \/ Fails(p)
  PROVE  AgeInv'
<1> SUFFICES ASSUME NEW q \in Pollers
             PROVE  AgeOK(touched[q], available[q], failures[q], age[q], due[q])'
  BY DEF AgeInv
<1>0. AgeOK(touched[q], available[q], failures[q], age[q], due[q])
  BY DEF AgeInv
<1>1. CASE q # p
  <2>1. /\ touched'[q] = touched[q] /\ available'[q] = available[q]
        /\ failures'[q] = failures[q] /\ age'[q] = age[q] /\ due'[q] = due[q]
    BY <1>1 DEF Succeeds, Fails, PollTyped
  <2> QED BY <1>0, <2>1 DEF AgeOK
<1>2. CASE q = p /\ Succeeds(p)
  <2>1. /\ touched'[q] = FALSE /\ available'[q] = TRUE /\ failures'[q] = 0
        /\ age'[q] = 0 /\ due'[q] = Base
    BY <1>2 DEF Succeeds, PollTyped
  <2>4. Patience[0] = Base
    BY FirstInterval
  <2>5. 0 < Threshold /\ 0 + Base <= Patience[0]
    BY <2>4, IntervalsArePositive
  <2> QED BY <2>1, <2>5 DEF AgeOK
<1>3. CASE q = p /\ Fails(p)
  <2> DEFINE n == Least(failures[p] + 1, Threshold)
  <2>1. /\ failures[p] \in 0..Threshold /\ age[p] \in Nat /\ due[p] \in Nat
    BY DEF PollTyped
  <2>2. /\ failures'[q] = n /\ age'[q] = age[p] /\ due'[q] = Interval(n)
        /\ touched'[q] = touched[p] /\ (available'[q] <=> n < Threshold)
    BY <1>3 DEF Fails, PollTyped
  <2>3. ASSUME n < Threshold, ~touched[p]
        PROVE  age[p] + Interval(n) <= Patience[n]
    <3>1. failures[p] < Threshold /\ n = failures[p] + 1
      BY <2>1, <2>3, IntervalsArePositive DEF Least
    <3>2. available[p]
      BY <1>0, <1>3, <2>3, <3>1 DEF AgeOK
    <3>3. age[p] + due[p] <= Patience[failures[p]]
      BY <1>0, <1>3, <2>3, <3>2 DEF AgeOK
    <3>4. n \in 1..(Threshold - 1) /\ n - 1 = failures[p] /\ n \in Nat
          /\ failures[p] \in 0..(Threshold - 1)
      BY <2>1, <2>3, <3>1, IntervalsArePositive
    <3> HIDE DEF n
    <3>5. Patience[n] = Patience[failures[p]] + Interval(n)
      BY <3>4, PatienceAddsUp
    <3>6. Patience[failures[p]] \in Nat /\ Interval(n) \in Nat
      BY <3>4, PatienceGrows, IntervalIsTyped, IntervalsArePositive
    <3> QED BY <2>1, <3>3, <3>5, <3>6
  <2> HIDE DEF n
  <2> QED BY <2>2, <2>3 DEF AgeOK
<1> QED BY <1>1, <1>2, <1>3

LEMMA AgeStep ==
  ASSUME PollTyped, AgeInv, [Next]_vars
  PROVE  AgeInv'
<1>1. ASSUME NEW a \in Actors, PollMoves(a) PROVE AgeInv'
  BY <1>1, MovesKeepAge DEF PollMoves, AgeInv, pollVars
<1>2. ASSUME NEW a \in Actors,
             \/ a \in Pollers /\ StartPoll(a)
             \/ a \in Senders /\ SendCommand(a)
             \/ Handle(a)
      PROVE  AgeInv'
  BY <1>1, <1>2, CallMoves
<1>3. ASSUME NEW a \in Actors, LoginSucceeds(a) \/ LoginFails(a) PROVE AgeInv'
  <2>1. PollMoves(a)
    BY <1>3 DEF LoginSucceeds, LoginFails, EndsBadly, PollMoves
  <2> QED BY <1>1, <2>1
<1>4. ASSUME NEW p \in Pollers, SetTargets(p) PROVE AgeInv'
  <2> SUFFICES ASSUME NEW q \in Pollers
               PROVE  AgeOK(touched[q], available[q], failures[q], age[q], due[q])'
    BY DEF AgeInv
  <2>1. CASE q = p
    <3>1. touched'[q] = TRUE
      BY <1>4, <2>1 DEF SetTargets, PollTyped
    <3> QED BY <3>1 DEF AgeOK
  <2>2. CASE q # p
    <3>1. /\ touched'[q] = touched[q] /\ available'[q] = available[q]
          /\ failures'[q] = failures[q] /\ age'[q] = age[q] /\ due'[q] = due[q]
      BY <1>4, <2>2 DEF SetTargets, PollTyped
    <3> QED BY <3>1 DEF AgeInv, AgeOK
  <2> QED BY <2>1, <2>2
<1>5. CASE Tick
  <2> SUFFICES ASSUME NEW q \in Pollers
               PROVE  AgeOK(touched[q], available[q], failures[q], age[q], due[q])'
    BY DEF AgeInv
  <2>1. AgeOK(touched[q], available[q], failures[q], age[q], due[q])
        /\ age[q] \in Nat /\ due[q] \in Nat
    BY DEF AgeInv, PollTyped
  <2>2. UNCHANGED <<touched, available, failures>>
    BY <1>5 DEF Tick
  <2>3. CASE Waiting(q) /\ ~touched[q] /\ available[q]
    <3>1. age'[q] = age[q] + 1 /\ due'[q] = due[q] - 1
      BY <1>5, <2>3 DEF Tick
    <3>2. age'[q] + due'[q] = age[q] + due[q]
      BY <2>1, <3>1
    <3> QED BY <2>1, <2>2, <3>2 DEF AgeOK
  <2>4. CASE ~Waiting(q)
    <3>1. age'[q] = age[q] /\ due'[q] = due[q]
      BY <1>5, <2>4 DEF Tick
    <3> QED BY <2>1, <2>2, <3>1 DEF AgeOK
  <2>5. CASE touched[q] \/ ~available[q]
    BY <2>1, <2>2, <2>5 DEF AgeOK
  <2> QED BY <2>3, <2>4, <2>5
<1>6. CASE (\E g \in Clients : Expire(g)) \/ Outage \/ Recovery \/ UNCHANGED vars
  BY <1>6 DEF Expire, Outage, Recovery, vars, AgeInv, pollVars
<1> QED
  BY <1>2, <1>3, <1>4, <1>5, <1>6 DEF Next, Actors

LEMMA AgeInit == Init => AgeInv
<1> SUFFICES ASSUME Init, NEW p \in Pollers
             PROVE  AgeOK(touched[p], available[p], failures[p], age[p], due[p])
  BY DEF AgeInv
<1>1. /\ touched[p] = FALSE /\ available[p] = TRUE /\ failures[p] = 0
      /\ age[p] = 0 /\ due[p] = Base
  BY DEF Init
<1>4. 0 < Threshold /\ 0 + Base <= Patience[0]
  BY FirstInterval, IntervalsArePositive
<1> QED BY <1>1, <1>4 DEF AgeOK

\* The data of a device shown as available are never older than the intervals of
\* the failures let pass add up to, for any base, cap and threshold: the backoff
\* of coordinator.py 829-862, whoever else uses the session.
THEOREM StalenessBound == Spec => []StalenessIsBounded
<1>1. Init => PollTyped /\ AgeInv
  BY TypesInit, AgeInit
<1>2. PollTyped /\ AgeInv /\ [Next]_vars => (PollTyped /\ AgeInv)'
  BY PollStaysTyped, AgeStep
<1>3. PollTyped /\ AgeInv => StalenessIsBounded
  <2> SUFFICES ASSUME PollTyped, AgeInv, NEW p \in Pollers, available[p], ~touched[p]
               PROVE  age[p] <= Patience[Threshold - 1]
    BY DEF StalenessIsBounded
  <2>1. failures[p] < Threshold /\ age[p] + due[p] <= Patience[failures[p]]
    BY DEF AgeInv, AgeOK
  <2>2. failures[p] \in 0..Threshold /\ age[p] \in Nat /\ due[p] \in Nat
    BY DEF PollTyped
  <2>3. failures[p] \in 0..(Threshold - 1) /\ Threshold - 1 \in 0..(Threshold - 1)
    BY <2>1, <2>2, IntervalsArePositive
  <2>4. /\ Patience[failures[p]] \in Nat /\ Patience[Threshold - 1] \in Nat
        /\ Patience[failures[p]] <= Patience[Threshold - 1]
    BY <2>3, PatienceGrows
  <2> QED BY <2>1, <2>2, <2>4
<1> QED BY <1>1, <1>2, <1>3, PTL DEF Spec

-----------------------------------------------------------------------------
(***************************************************************************)
(* The map stream (MapStream): rounding.                                   *)
(***************************************************************************)
LEMMA RoundOfProduct ==
  ASSUME NEW k \in Int, NEW d \in Nat \ {0}
  PROVE  Round(k * d, d) = k
<1>1. (k * d) \div d = k /\ (k * d) % d = 0
  OBVIOUS
<1> QED BY <1>1 DEF Round

LEMMA RoundHalf ==
  ASSUME NEW n \in Int
  PROVE  /\ Round(n, 2) \in Int
         /\ 2 * Round(n, 2) \in {n - 1, n, n + 1}
BY DEF Round

\* The nearest multiple is half of d away, at most.
LEMMA RoundNear ==
  ASSUME NEW n \in Int, NEW d \in Nat \ {0}
  PROVE  /\ Round(n, d) \in Int
         /\ 2 * (Round(n, d) * d - n) <= d
         /\ 2 * (n - Round(n, d) * d) <= d
BY DEF Round

LEMMA MinOfTwo ==
  ASSUME NEW a \in Int, NEW b \in Int
  PROVE  Min({a, b}) = IF a <= b THEN a ELSE b
<1>1. \E x \in {a, b} : \A y \in {a, b} : x <= y
  BY a <= b \/ b <= a
<1> QED BY <1>1 DEF Min

LEMMA MaxOfTwo ==
  ASSUME NEW a \in Int, NEW b \in Int
  PROVE  Max({a, b}) = IF a >= b THEN a ELSE b
<1>1. \E x \in {a, b} : \A y \in {a, b} : x >= y
  BY a >= b \/ b >= a
<1> QED BY <1>1 DEF Max

LEMMA ClampIs ==
  ASSUME NEW n \in Int, NEW hi \in Nat
  PROVE  Clamp(n, hi) = IF n < 0 THEN 0 ELSE IF n > hi THEN hi ELSE n
<1>1. Min({n, hi}) = IF n <= hi THEN n ELSE hi
  BY MinOfTwo
<1>2. Min({n, hi}) \in Int
  BY <1>1
<1>3. Max({0, Min({n, hi})}) = IF 0 >= Min({n, hi}) THEN 0 ELSE Min({n, hi})
  BY <1>2, MaxOfTwo
<1> QED BY <1>1, <1>3 DEF Clamp

-----------------------------------------------------------------------------
(***************************************************************************)
(* Lengths and tokens of the compression: what is written is read back, as *)
(* far as it is there.                                                     *)
(***************************************************************************)
\* The bytes of s begin in data at pos; data may end before they do.
BeginsAt(data, pos, s) ==
  \A k \in 1..Len(s) : pos + k - 1 <= Len(data) => data[pos + k - 1] = s[k]

LEMMA BeginsInParts ==
  ASSUME NEW data \in Seq(Nat), NEW pos \in Nat \ {0},
         NEW s \in Seq(Nat), NEW t \in Seq(Nat), BeginsAt(data, pos, s \o t)
  PROVE  /\ Len(s \o t) = Len(s) + Len(t)
         /\ BeginsAt(data, pos, s)
         /\ BeginsAt(data, pos + Len(s), t)
<1>1. Len(s \o t) = Len(s) + Len(t) /\ Len(s) \in Nat /\ Len(t) \in Nat
  OBVIOUS
<1>2. ASSUME NEW k \in 1..Len(s), pos + k - 1 <= Len(data) PROVE data[pos + k - 1] = s[k]
  <2>1. k \in 1..Len(s \o t) /\ (s \o t)[k] = s[k]
    BY <1>1
  <2> QED BY <1>2, <2>1 DEF BeginsAt
<1>3. ASSUME NEW k \in 1..Len(t), pos + Len(s) + k - 1 <= Len(data)
      PROVE  data[pos + Len(s) + k - 1] = t[k]
  <2>1. Len(s) + k \in 1..Len(s \o t) /\ (s \o t)[Len(s) + k] = t[k]
    BY <1>1
  <2>2. pos + (Len(s) + k) - 1 = pos + Len(s) + k - 1
    BY <1>1
  <2>3. data[pos + (Len(s) + k) - 1] = (s \o t)[Len(s) + k]
    BY <1>3, <2>1, <2>2 DEF BeginsAt
  <2> QED BY <2>1, <2>2, <2>3
<1> QED BY <1>1, <1>2, <1>3 DEF BeginsAt

LEMMA ExtraIsBytes ==
  ASSUME NEW k \in Nat
  PROVE  Extra(k) \in Seq(Nat) /\ (k < LenMax => Len(Extra(k)) = 0)
<1>1. CASE k < LenMax
  BY <1>1 DEF Extra
<1>2. CASE ~ (k < LenMax)
  <2> DEFINE q == (k - LenMax) \div ExtMax
             r == (k - LenMax) % ExtMax
             full == [i \in 1..q |-> ExtMax]
  <2>1. q \in Nat /\ r \in Nat /\ ExtMax \in Nat
    BY <1>2, SizesArePositive
  <2>2. Extra(k) = full \o <<r>>
    BY <1>2 DEF Extra
  <2> HIDE DEF q, r
  <2>3. full \in Seq(Nat) /\ <<r>> \in Seq(Nat)
    BY <2>1
  <2> HIDE DEF full
  <2> QED BY <2>2, <2>3, <1>2
<1> QED BY <1>1, <1>2

\* A length above the token's: the bytes that are full, and the last one.
FullBytes(k) == (k - LenMax) \div ExtMax
LastByte(k)  == (k - LenMax) % ExtMax

LEMMA ExtraAt ==
  ASSUME NEW k \in Nat, ~ (k < LenMax)
  PROVE  /\ FullBytes(k) \in Nat /\ LastByte(k) \in 0..(ExtMax - 1)
         /\ FullBytes(k) * ExtMax + LastByte(k) = k - LenMax
         /\ Len(Extra(k)) = FullBytes(k) + 1
         /\ \A i \in 1..FullBytes(k) : Extra(k)[i] = ExtMax
         /\ Extra(k)[FullBytes(k) + 1] = LastByte(k)
<1> DEFINE q == FullBytes(k)
           r == LastByte(k)
           full == [i \in 1..q |-> ExtMax]
<1>1. q \in Nat /\ r \in 0..(ExtMax - 1) /\ q * ExtMax + r = k - LenMax
  BY SizesArePositive DEF FullBytes, LastByte
<1>2. Extra(k) = full \o <<r>>
  BY DEF Extra, FullBytes, LastByte
<1> HIDE DEF q, r
<1>3. ExtMax \in Nat /\ r \in Nat
  BY <1>1, SizesArePositive
<1>4. full \in Seq(Nat) /\ Len(full) = q /\ \A i \in 1..q : full[i] = ExtMax
  BY <1>1, <1>3
<1> HIDE DEF full
<1>5. /\ \A i \in 1..q : (full \o <<r>>)[i] = ExtMax
      /\ (full \o <<r>>)[q + 1] = r
      /\ Len(full \o <<r>>) = q + 1
  BY <1>1, <1>3, <1>4
<1>6. /\ q \in Nat /\ r \in 0..(ExtMax - 1) /\ q * ExtMax + r = k - LenMax
      /\ Len(Extra(k)) = q + 1
      /\ \A i \in 1..q : Extra(k)[i] = ExtMax
      /\ Extra(k)[q + 1] = r
  BY <1>1, <1>2, <1>5
<1> QED BY <1>6 DEF q, r

LEMMA MinIs ==
  ASSUME NEW S \in SUBSET Int, NEW x \in S, \A y \in S : x <= y
  PROVE  Min(S) = x
<1>1. \A z \in S : (\A y \in S : z <= y) => z = x
  OBVIOUS
<1> QED BY <1>1 DEF Min

\* The half byte that stands for a length.
HalfOf(k) == Min({k, LenMax})

\* A length is read: all of it, or less where the data ends within it.
LengthAt(data, pos, half, k) ==
  \E v \in 0..k, next \in Nat :
    /\ ReadLength(data, pos, half) = <<v, next>>
    /\ next >= pos /\ next <= Len(data) + 1
    /\ \/ v = k /\ next = pos + Len(Extra(k))
       \/ next = Len(data) + 1 /\ pos + Len(Extra(k)) > Len(data) + 1

\* The half byte of a length, and what follows it, give the length back.
LEMMA LengthIsRead ==
  ASSUME NEW data \in Seq(Nat), NEW pos \in Nat \ {0}, NEW k \in Nat,
         BeginsAt(data, pos, Extra(k)), pos <= Len(data) + 1
  PROVE  LengthAt(data, pos, HalfOf(k), k)
<1>1. LenMax \in Nat \ {0} /\ ExtMax \in Nat \ {0} /\ Len(data) \in Nat
  BY SizesArePositive
<1>2. HalfOf(k) = IF k <= LenMax THEN k ELSE LenMax
  BY <1>1, MinOfTwo DEF HalfOf
<1>3. CASE k < LenMax
  <2>1. HalfOf(k) = k /\ Len(Extra(k)) = 0
    BY <1>1, <1>2, <1>3, ExtraIsBytes
  <2>2. ReadLength(data, pos, k) = <<k, pos>>
    BY <1>3 DEF ReadLength
  <2> QED BY <2>1, <2>2 DEF LengthAt
<1>4. CASE ~ (k < LenMax)
  <2> DEFINE q == FullBytes(k)
             r == LastByte(k)
             S == {i \in pos..Len(data) : data[i] # ExtMax} \cup {Len(data)}
  <2>1. HalfOf(k) = LenMax
    BY <1>1, <1>2, <1>4
  <2>2. /\ q \in Nat /\ r \in 0..(ExtMax - 1)
        /\ q * ExtMax + r = k - LenMax
        /\ \A i \in 1..q : Extra(k)[i] = ExtMax
        /\ Extra(k)[q + 1] = r
    BY <1>4, ExtraAt
  <2>3. Len(Extra(k)) = q + 1
    BY <1>4, ExtraAt
  <2> HIDE DEF q, r
  <2>4. pos + q <= Len(data) => data[pos + q] = r
    <3>1. q + 1 \in 1..Len(Extra(k)) /\ pos + (q + 1) - 1 = pos + q
      BY <2>2, <2>3
    <3> QED BY <3>1, <2>2, <2>3 DEF BeginsAt
  <2>5. ASSUME NEW i \in pos..(pos + q - 1), i <= Len(data) PROVE data[i] = ExtMax
    <3>1. i - pos + 1 \in 1..q /\ i - pos + 1 \in 1..Len(Extra(k))
          /\ pos + (i - pos + 1) - 1 = i
      BY <2>2, <2>3
    <3> QED BY <3>1, <2>2, <2>5 DEF BeginsAt
  <2>6. S \in SUBSET Int
    BY <1>1
  <2>7. CASE pos + q <= Len(data)
    <3>1. pos + q \in S
      BY <2>2, <2>4, <2>7, <1>1
    <3>2. ASSUME NEW y \in S PROVE pos + q <= y
      <4>1. CASE y = Len(data)
        BY <4>1, <2>7
      <4>2. CASE y \in pos..Len(data) /\ data[y] # ExtMax
        BY <4>2, <2>5, <2>2
      <4> QED BY <4>1, <4>2
    <3>3. Min(S) = pos + q
      <4> HIDE DEF S
      <4> QED BY <2>6, <3>1, <3>2, MinIs
    <3>4. ReadLength(data, pos, LenMax)
            = <<LenMax + (pos + q - pos) * ExtMax + data[pos + q], pos + q + 1>>
      BY <3>3, <2>7, <2>2, <1>1 DEF ReadLength
    <3>5. LenMax + (pos + q - pos) * ExtMax + r = k /\ pos + q + 1 = pos + (q + 1)
      <4>1. pos + q - pos = q
        BY <2>2
      <4> QED BY <4>1, <2>2, <1>1
    <3>6. ReadLength(data, pos, LenMax) = <<k, pos + (q + 1)>>
      BY <2>4, <2>7, <3>4, <3>5
    <3>7. k \in 0..k /\ pos + (q + 1) \in Nat /\ pos + (q + 1) >= pos
          /\ pos + (q + 1) <= Len(data) + 1
      BY <2>2, <2>7, <1>1
    <3> QED BY <2>1, <2>3, <3>6, <3>7 DEF LengthAt
  <2>8. CASE pos + q > Len(data)
    <3>1. pos + Len(Extra(k)) > Len(data) + 1
      BY <2>2, <2>3, <2>8, <1>1
    <3>2. CASE pos > Len(data)
      <4>1. ReadLength(data, pos, LenMax) = <<LenMax, pos>>
        BY <3>2 DEF ReadLength
      <4>2. LenMax \in 0..k /\ pos = Len(data) + 1
        BY <1>1, <1>4, <3>2
      <4> QED BY <2>1, <3>1, <4>1, <4>2 DEF LengthAt
    <3>3. CASE pos <= Len(data)
      <4>1. \A i \in pos..Len(data) : data[i] = ExtMax
        <5>1. \A i \in pos..Len(data) : i \in pos..(pos + q - 1) /\ i <= Len(data)
          BY <2>2, <2>8, <1>1
        <5> QED BY <5>1, <2>5
      <4>2. S = {Len(data)}
        BY <4>1
      <4>3. Min(S) = Len(data)
        <5>1. \A y \in S : Len(data) <= y
          BY <4>2, <1>1
        <5>2. Len(data) \in S
          BY <4>2
        <5> HIDE DEF S
        <5> QED BY <2>6, <5>1, <5>2, MinIs
      <4>4. data[Len(data)] = ExtMax
        <5>1. Len(data) \in pos..Len(data)
          BY <3>3, <1>1
        <5> QED BY <4>1, <5>1
      <4>5. ReadLength(data, pos, LenMax)
              = <<LenMax + (Len(data) - pos) * ExtMax + ExtMax, Len(data) + 1>>
        <5>1. ~ (LenMax < LenMax \/ pos > Len(data))
          BY <3>3, <1>1
        <5>2. ReadLength(data, pos, LenMax)
                = <<LenMax + (Min(S) - pos) * ExtMax + data[Min(S)], Min(S) + 1>>
          BY <5>1 DEF ReadLength
        <5> HIDE DEF S
        <5> QED BY <4>3, <4>4, <5>2
      <4>6. PICK n \in Nat : n = Len(data) - pos + 1 /\ n <= q
        <5>1. Len(data) - pos + 1 \in Nat /\ Len(data) - pos + 1 <= q
          BY <3>3, <2>8, <2>2, <1>1
        <5> QED BY <5>1
      <4>7. (Len(data) - pos) * ExtMax + ExtMax = n * ExtMax
        <5>1. PICK x \in Int, y \in Nat : x = Len(data) - pos /\ y = ExtMax
          BY <1>1
        <5>2. n = x + 1
          BY <4>6, <5>1
        <5>3. (x + 1) * y = x * y + y
          BY <5>1
        <5> QED BY <5>1, <5>2, <5>3
      <4>8. n * ExtMax <= q * ExtMax /\ n * ExtMax \in Nat
        <5> DEFINE e == q - n
        <5>1. e \in Nat /\ q = n + e
          BY <4>6, <2>2
        <5> HIDE DEF e
        <5>3. PICK d \in Nat : q = n + d
          BY <5>1
        <5>2. q * ExtMax = n * ExtMax + d * ExtMax /\ d * ExtMax \in Nat
              /\ n * ExtMax \in Nat
          BY <5>3, <1>1
        <5> QED BY <5>2
      <4>9. LenMax + (Len(data) - pos) * ExtMax + ExtMax \in 0..k
        <5>1. PICK a \in Nat, b \in Nat : a = n * ExtMax /\ b = q * ExtMax
          BY <4>8, <2>2, <1>1
        <5>2. a <= b /\ b + r = k - LenMax
          BY <5>1, <4>8, <2>2
        <5>3. LenMax + a \in 0..k
          BY <5>2, <2>2, <1>1
        <5>4. LenMax + (Len(data) - pos) * ExtMax + ExtMax
                = LenMax + ((Len(data) - pos) * ExtMax + ExtMax)
          BY <1>1
        <5> QED BY <5>1, <5>3, <5>4, <4>7
      <4>10. Len(data) + 1 \in Nat /\ Len(data) + 1 >= pos /\ Len(data) + 1 <= Len(data) + 1
        BY <1>1, <3>3
      <4> QED BY <2>1, <3>1, <4>5, <4>9, <4>10 DEF LengthAt
    <3> QED BY <3>2, <3>3, <1>1
  <2> QED BY <2>7, <2>8, <2>2, <1>1
<1> QED BY <1>3, <1>4

\* The two half bytes of a token.
LiteralHalf(token) == token \div (LenMax + 1)
MatchHalf(token)   == token % (LenMax + 1)

LEMMA TokenIsRead ==
  ASSUME NEW l \in Nat, NEW m \in Nat
  PROVE  /\ Token(l, m) \in Nat
         /\ LiteralHalf(Token(l, m)) = HalfOf(l)
         /\ MatchHalf(Token(l, m)) = HalfOf(m)
<1> DEFINE a == HalfOf(l)
           b == HalfOf(m)
<1>1. LenMax \in Nat \ {0}
  BY SizesArePositive
<1>2. a \in 0..LenMax /\ b \in 0..LenMax
  <2>1. a = (IF l <= LenMax THEN l ELSE LenMax) /\ b = (IF m <= LenMax THEN m ELSE LenMax)
    BY <1>1, MinOfTwo DEF HalfOf
  <2> QED BY <2>1, <1>1
<1>3. Token(l, m) = a * (LenMax + 1) + b
  BY DEF Token, HalfOf
<1> HIDE DEF a, b
<1>4. /\ a * (LenMax + 1) + b \in Nat
      /\ (a * (LenMax + 1) + b) \div (LenMax + 1) = a
      /\ (a * (LenMax + 1) + b) % (LenMax + 1) = b
  BY <1>1, <1>2
<1> QED BY <1>3, <1>4 DEF a, b, LiteralHalf, MatchHalf

-----------------------------------------------------------------------------
(***************************************************************************)
(* One sequence of a block.                                                *)
(***************************************************************************)
LEMMA LiteralsAreBytes ==
  ASSUME NEW s \in Seq(Nat), NEW m \in Nat
  PROVE  /\ Literals(s, m) \in Seq(Nat)
         /\ Len(Literals(s, m)) = 1 + Len(Extra(Len(s))) + Len(s)
<1>0. Len(s) \in Nat
  OBVIOUS
<1>1. Token(Len(s), m) \in Nat /\ Len(s) \in Nat
  BY <1>0, TokenIsRead
<1>2. Extra(Len(s)) \in Seq(Nat)
  BY <1>1, ExtraIsBytes
<1>3. ASSUME NEW t \in Nat, NEW e \in Seq(Nat)
      PROVE  <<t>> \o e \o s \in Seq(Nat) /\ Len(<<t>> \o e \o s) = 1 + Len(e) + Len(s)
  OBVIOUS
<1> QED BY <1>1, <1>2, <1>3 DEF Literals

LEMMA MatchIsBytes ==
  ASSUME NEW o \in Nat, NEW m \in Nat
  PROVE  /\ Match(o, m) \in Seq(Nat)
         /\ Len(Match(o, m)) = 2 + Len(Extra(m))
<1>1. o % ByteSize \in Nat /\ o \div ByteSize \in Nat
  BY SizesArePositive DEF ByteSize
<1>2. Extra(m) \in Seq(Nat)
  BY ExtraIsBytes
<1>3. ASSUME NEW a \in Nat, NEW b \in Nat, NEW e \in Seq(Nat)
      PROVE  <<a, b>> \o e \in Seq(Nat) /\ Len(<<a, b>> \o e) = 2 + Len(e)
  OBVIOUS
<1> QED BY <1>1, <1>2, <1>3 DEF Match

\* Where the literals of a sequence begin.
LEMMA SliceIs ==
  ASSUME NEW data \in Seq(Nat), NEW from \in Nat \ {0}, NEW l \in Nat, from <= Len(data) + 1
  PROVE  /\ Slice(data, from, l) \in Seq(Nat)
         /\ from + l <= Len(data) + 1 => Slice(data, from, l) = SubSeq(data, from, from + l - 1)
         /\ from + l > Len(data) => Slice(data, from, l) = SubSeq(data, from, Len(data))
<1>1. PICK n \in Int : n = from + l - 1 /\ Len(data) \in Nat
  BY from + l - 1 \in Int
<1>2. Min({Len(data), n}) = IF Len(data) <= n THEN Len(data) ELSE n
  BY <1>1, MinOfTwo
<1>3. Slice(data, from, l) = SubSeq(data, from, IF Len(data) <= n THEN Len(data) ELSE n)
  BY <1>1, <1>2 DEF Slice
<1>4. ASSUME NEW b \in Int, b <= Len(data) PROVE SubSeq(data, from, b) \in Seq(Nat)
  BY <1>4
<1>5. Slice(data, from, l) \in Seq(Nat)
  BY <1>1, <1>3, <1>4
<1>6. from + l <= Len(data) + 1 => Slice(data, from, l) = SubSeq(data, from, from + l - 1)
  <2>1. ASSUME from + l <= Len(data) + 1
        PROVE  (IF Len(data) <= n THEN Len(data) ELSE n) = n
    BY <1>1, <2>1
  <2> QED BY <1>1, <1>3, <2>1
<1>7. from + l > Len(data) => Slice(data, from, l) = SubSeq(data, from, Len(data))
  <2>1. from + l > Len(data) => Len(data) <= n
    BY <1>1
  <2> QED BY <2>1, <1>3
<1> QED BY <1>5, <1>6, <1>7

\* A sequence, by what its lengths and its offset are read as.
SequenceReads(data, pos, st, at, grown) ==
  /\ at > Len(data) => Sequence(data, st) = [pos |-> at, out |-> grown, ok |-> TRUE]
  /\ at = Len(data) => Sequence(data, st) = Broken(data)
  /\ at < Len(data) =>
       LET o == data[at] + data[at + 1] * ByteSize
           match == ReadLength(data, at + 2, MatchHalf(data[pos]))
       IN  Sequence(data, st) =
             IF o \notin 1..(2 * Len(grown)) THEN Broken(data)
             ELSE [pos |-> match[2], out |-> Copy(grown, o, match[1] + MinMatch),
                   ok |-> TRUE]

LEMMA SequenceIs ==
  ASSUME NEW data \in Seq(Nat), NEW pos \in Nat, NEW out, NEW l \in Nat, NEW from \in Nat,
         ReadLength(data, pos + 1, LiteralHalf(data[pos])) = <<l, from>>,
         NEW at, at = from + l, NEW grown, grown = out \o Slice(data, from, l),
         NEW st, st = [pos |-> pos, out |-> out, ok |-> TRUE]
  PROVE  SequenceReads(data, pos, st, at, grown)
<1> DEFINE lit == ReadLength(data, pos + 1, LiteralHalf(data[pos]))
<1>1. lit[1] = l /\ lit[2] = from
  OBVIOUS
<1>2. st.pos = pos /\ st.out = out
  OBVIOUS
<1>3. lit[2] + lit[1] = at /\ st.out \o Slice(data, lit[2], lit[1]) = grown
  BY <1>1, <1>2
<1>4. Sequence(data, st) =
        IF at > Len(data) THEN [pos |-> at, out |-> grown, ok |-> TRUE]
        ELSE IF at = Len(data) \/ data[at] + data[at + 1] * ByteSize \notin 1..(2 * Len(grown))
             THEN Broken(data)
             ELSE [pos |-> ReadLength(data, at + 2, MatchHalf(data[pos]))[2],
                   out |-> Copy(grown, data[at] + data[at + 1] * ByteSize,
                                ReadLength(data, at + 2, MatchHalf(data[pos]))[1] + MinMatch),
                   ok |-> TRUE]
  BY <1>2, <1>3, Zenon DEF Sequence, LiteralHalf, MatchHalf
<1>5. at \in Nat /\ Len(data) \in Nat
  OBVIOUS
<1> QED BY <1>4, <1>5 DEF SequenceReads

\* Literals are read: all of them, or less where the data ends within them.
LiteralsAt(data, pos, s, m) ==
  \E l \in Nat, from \in Nat \ {0}, p \in 0..Len(s) :
    /\ ReadLength(data, pos + 1, LiteralHalf(data[pos])) = <<l, from>>
    /\ from > pos
    /\ Slice(data, from, l) = SubSeq(s, 1, p)
    /\ from + l <= Len(data) \/ pos + Len(Literals(s, m)) <= Len(data) + 1
         => p = Len(s) /\ from + l = pos + Len(Literals(s, m))

LEMMA LiteralsAreRead ==
  ASSUME NEW data \in Seq(Nat), NEW pos \in Nat \ {0}, pos <= Len(data),
         NEW s \in Seq(Nat), NEW m \in Nat,
         BeginsAt(data, pos, Literals(s, m))
  PROVE  MatchHalf(data[pos]) = HalfOf(m) /\ LiteralsAt(data, pos, s, m)
<1> DEFINE t == Token(Len(s), m)
           e == Extra(Len(s))
<1>0. Len(s) \in Nat /\ Len(data) \in Nat
  OBVIOUS
<1>1. /\ t \in Nat /\ e \in Seq(Nat)
      /\ LiteralHalf(t) = HalfOf(Len(s))
      /\ MatchHalf(t) = HalfOf(m)
  <2>1. e \in Seq(Nat)
    BY <1>0, ExtraIsBytes
  <2> HIDE DEF e
  <2> QED BY <2>1, <1>0, TokenIsRead
<1>2. Literals(s, m) = (<<t>> \o e) \o s
  BY DEF Literals
<1>4. Len(Literals(s, m)) = 1 + Len(e) + Len(s)
  BY LiteralsAreBytes
<1> HIDE DEF t, e
<1>5. Len(<<t>> \o e) = 1 + Len(e) /\ <<t>> \o e \in Seq(Nat) /\ <<t>> \in Seq(Nat)
      /\ Len(<<t>>) = 1 /\ Len(e) \in Nat
  BY <1>1
<1>6. BeginsAt(data, pos, <<t>> \o e) /\ BeginsAt(data, pos + Len(<<t>> \o e), s)
  BY <1>1, <1>2, <1>5, BeginsInParts
<1>7. BeginsAt(data, pos, <<t>>) /\ BeginsAt(data, pos + 1, e)
  <2>1. BeginsAt(data, pos, <<t>>) /\ BeginsAt(data, pos + Len(<<t>>), e)
    BY <1>1, <1>5, <1>6, BeginsInParts
  <2> QED BY <2>1, <1>5
<1>8. data[pos] = t
  <2>1. data[pos + 1 - 1] = <<t>>[1]
    BY <1>7, <1>5 DEF BeginsAt
  <2>2. <<t>>[1] = t /\ pos + 1 - 1 = pos
    OBVIOUS
  <2> QED BY <2>1, <2>2
<1>9. PICK v \in 0..Len(s), from \in Nat :
        /\ ReadLength(data, pos + 1, HalfOf(Len(s))) = <<v, from>>
        /\ from >= pos + 1 /\ from <= Len(data) + 1
        /\ \/ v = Len(s) /\ from = pos + 1 + Len(e)
           \/ from = Len(data) + 1 /\ pos + 1 + Len(e) > Len(data) + 1
  <2>1. pos + 1 \in Nat \ {0} /\ pos + 1 <= Len(data) + 1
    BY <1>0
  <2>2. LengthAt(data, pos + 1, HalfOf(Len(s)), Len(s))
    BY <2>1, <1>0, <1>7, LengthIsRead DEF e
  <2> QED BY <2>2 DEF LengthAt, e
<1>10. ReadLength(data, pos + 1, LiteralHalf(data[pos])) = <<v, from>>
  BY <1>9, <1>8, <1>1
<1>11. /\ Slice(data, from, v) \in Seq(Nat)
       /\ from + v <= Len(data) + 1 => Slice(data, from, v) = SubSeq(data, from, from + v - 1)
       /\ from + v > Len(data) => Slice(data, from, v) = SubSeq(data, from, Len(data))
  <2>1. v \in Nat /\ from \in Nat \ {0} /\ from <= Len(data) + 1
    BY <1>0, <1>9
  <2> QED BY <2>1, SliceIs
<1>12. CASE v = Len(s) /\ from = pos + 1 + Len(e)
  <2>1. BeginsAt(data, from, s)
    <3>1. pos + Len(<<t>> \o e) = from
      BY <1>12, <1>5
    <3> QED BY <3>1, <1>6
  <2>2. from + v = pos + Len(Literals(s, m))
    BY <1>12, <1>4, <1>5, <1>0
  <2>3. \A k \in 1..Len(s) : from + k - 1 <= Len(data) => data[from + k - 1] = s[k]
    BY <2>1 DEF BeginsAt
  <2>4. CASE from + v <= Len(data) + 1
    <3>1. SubSeq(data, from, from + v - 1) = SubSeq(s, 1, Len(s))
      <4>1. PICK n \in Nat : n = Len(s) /\ v = n
        BY <1>12, <1>9, <1>0
      <4>2. from \in Nat \ {0} /\ from + n <= Len(data) + 1
        BY <2>4, <4>1, <1>9, <1>0
      <4>3. \A k \in 1..n : data[from + k - 1] = s[k]
        <5>1. \A k \in 1..n : from + k - 1 <= Len(data)
          BY <4>2
        <5> QED BY <2>3, <4>1, <5>1
      <4>4. /\ SubSeq(data, from, from + n - 1) = [k \in 1..n |-> data[from + k - 1]]
            /\ SubSeq(s, 1, n) = [k \in 1..n |-> s[k]]
        <5>1. from + n - 1 - from + 1 = n /\ n - 1 + 1 = n
          BY <4>2
        <5> QED BY <5>1, <4>1, <4>2
      <4> QED BY <4>1, <4>3, <4>4
    <3>2. v \in 0..Len(s) /\ v \in Nat
      BY <1>12, <1>0
    <3>3. Slice(data, from, v) = SubSeq(s, 1, Len(s))
      BY <2>4, <3>1, <1>11
    <3>4. from \in Nat \ {0} /\ from > pos /\ Len(s) \in 0..Len(s)
      BY <1>9, <1>0
    <3>5. LiteralsAt(data, pos, s, m)
      BY <1>10, <2>2, <3>2, <3>3, <3>4 DEF LiteralsAt
    <3> QED BY <3>5, <1>1, <1>8
  <2>5. CASE from + v > Len(data) + 1
    <3>1. PICK p \in 0..Len(s) : p = Len(data) - from + 1
      <4>1. Len(data) - from + 1 \in 0..Len(s)
        BY <2>5, <1>12, <1>9, <1>0
      <4> QED BY <4>1
    <3>2. SubSeq(data, from, Len(data)) = SubSeq(s, 1, p)
      <4>1. Len(data) = from + p - 1
        BY <3>1, <1>9, <1>0
      <4>2. \A k \in 1..p : k \in 1..Len(s) /\ from + k - 1 <= Len(data)
        BY <4>1, <3>1, <1>0
      <4>3. \A k \in 1..p : data[from + k - 1] = s[k]
        BY <4>2, <2>3
      <4>4. ASSUME NEW d \in Nat, from + p - 1 = d, d = Len(data)
            PROVE  SubSeq(data, from, d) = SubSeq(s, 1, p)
        BY <4>3, <4>4, <3>1, <1>9, <1>0
      <4> QED BY <4>1, <4>4, <1>0
    <3>3. v \in Nat /\ from + v > Len(data) /\ ~ (from + v <= Len(data))
          /\ ~ (pos + Len(Literals(s, m)) <= Len(data) + 1)
      BY <2>2, <2>5, <1>9, <1>0
    <3>4. from \in Nat \ {0} /\ from > pos
      BY <1>9
    <3>5. Slice(data, from, v) = SubSeq(s, 1, p)
      BY <3>2, <3>3, <1>11
    <3>6. LiteralsAt(data, pos, s, m)
      BY <1>10, <3>3, <3>4, <3>5 DEF LiteralsAt
    <3> QED BY <3>6, <1>1, <1>8
  <2> QED BY <2>4, <2>5, <1>9, <1>0
<1>13. CASE from = Len(data) + 1 /\ pos + 1 + Len(e) > Len(data) + 1
  <2>1. from + v > Len(data) /\ v \in Nat
    BY <1>13, <1>9, <1>0
  <2>2. Slice(data, from, v) = SubSeq(s, 1, 0)
    <3>1. Slice(data, from, v) = SubSeq(data, Len(data) + 1, Len(data))
      BY <2>1, <1>11, <1>13
    <3>2. SubSeq(data, Len(data) + 1, Len(data)) = <<>> /\ SubSeq(s, 1, 0) = <<>>
      BY <1>0
    <3> QED BY <3>1, <3>2
  <2>3. pos + Len(Literals(s, m)) > Len(data) + 1
    BY <1>4, <1>5, <1>13, <1>0
  <2>4. 0 \in 0..Len(s) /\ from \in Nat \ {0} /\ from > pos
    BY <1>13, <1>0
  <2>5. ~ (from + v <= Len(data) \/ pos + Len(Literals(s, m)) <= Len(data) + 1)
    <3>1. pos + Len(Literals(s, m)) \in Nat
      BY <1>4, <1>5, <1>0
    <3> QED BY <3>1, <2>1, <2>3, <1>0
  <2>6. LiteralsAt(data, pos, s, m)
    BY <1>10, <2>1, <2>2, <2>4, <2>5 DEF LiteralsAt
  <2> QED BY <2>6, <1>1, <1>8
<1> QED BY <1>9, <1>12, <1>13

LEMMA MatchIsRead ==
  ASSUME NEW data \in Seq(Nat), NEW at \in Nat \ {0}, NEW o \in Nat, NEW m \in Nat,
         BeginsAt(data, at, Match(o, m)), at < Len(data)
  PROVE  /\ data[at] + data[at + 1] * ByteSize = o
         /\ LengthAt(data, at + 2, HalfOf(m), m)
<1> DEFINE a == o % ByteSize
           b == o \div ByteSize
           e == Extra(m)
<1>1. a \in Nat /\ b \in Nat /\ a + b * ByteSize = o
  <2>1. ByteSize \in Nat \ {0}
    BY SizesArePositive DEF ByteSize
  <2> QED BY <2>1
<1>2. e \in Seq(Nat)
  BY ExtraIsBytes
<1>3. Match(o, m) = <<a, b>> \o e
  BY DEF Match
<1> HIDE DEF a, b, e
<1>5. <<a, b>> \in Seq(Nat) /\ Len(<<a, b>>) = 2
      /\ <<a, b>>[1] = a /\ <<a, b>>[2] = b /\ Len(e) \in Nat
  BY <1>1, <1>2
<1>6. BeginsAt(data, at, <<a, b>>) /\ BeginsAt(data, at + 2, e)
  <2>1. BeginsAt(data, at, <<a, b>>) /\ BeginsAt(data, at + Len(<<a, b>>), e)
    BY <1>2, <1>3, <1>5, BeginsInParts
  <2> QED BY <2>1, <1>5
<1>7. data[at] = a /\ data[at + 1] = b
  <2>1. at + 1 - 1 = at /\ at + 2 - 1 = at + 1 /\ at <= Len(data) /\ at + 1 <= Len(data)
    OBVIOUS
  <2>2. data[at + 1 - 1] = a /\ data[at + 2 - 1] = b
    <3>1. 1 \in 1..Len(<<a, b>>) /\ 2 \in 1..Len(<<a, b>>)
      BY <1>5
    <3>2. \A k \in 1..Len(<<a, b>>) : at + k - 1 <= Len(data) => data[at + k - 1] = <<a, b>>[k]
      BY <1>6 DEF BeginsAt
    <3>3. data[at + 1 - 1] = <<a, b>>[1] /\ data[at + 2 - 1] = <<a, b>>[2]
      BY <3>1, <3>2, <2>1
    <3> QED BY <3>3, <1>5
  <2> QED BY <2>1, <2>2
<1>8. LengthAt(data, at + 2, HalfOf(m), m)
  <2>1. at + 2 \in Nat \ {0} /\ at + 2 <= Len(data) + 1
    OBVIOUS
  <2> QED BY <2>1, <1>6, LengthIsRead DEF e
<1> QED BY <1>1, <1>7, <1>8

-----------------------------------------------------------------------------
(***************************************************************************)
(* Blocks and what they begin with; whatever its encoder copied, a block   *)
(* has bytes.                                                              *)
(***************************************************************************)
LEMMA PrefixesJoin ==
  ASSUME NEW text \in Seq(Nat), NEW x \in 0..Len(text)
  PROVE  /\ SubSeq(text, 1, x) \in Seq(Nat)
         /\ Len(SubSeq(text, 1, x)) = x
         /\ \A i \in 1..x : SubSeq(text, 1, x)[i] = text[i]
         /\ x < Len(text) => Append(SubSeq(text, 1, x), text[x + 1]) = SubSeq(text, 1, x + 1)
         /\ x = Len(text) => SubSeq(text, 1, x) = text
OBVIOUS

LEMMA PrefixAndPart ==
  ASSUME NEW text \in Seq(Nat), NEW i \in 1..Len(text), NEW j \in (i - 1)..Len(text)
  PROVE  /\ SubSeq(text, i, j) \in Seq(Nat)
         /\ SubSeq(text, 1, i - 1) \o SubSeq(text, i, j) = SubSeq(text, 1, j)
OBVIOUS

\* The text before position i.
Before(text, i) == SubSeq(text, 1, i - 1)

\* A copy of what repeats goes on with the text, though it reads what it writes.
LEMMA CopyGoesOn ==
  ASSUME NEW text \in Seq(Nat), NEW j \in Nat, NEW o \in Nat \ {0}, NEW m \in Nat,
         o < j, j + m <= Len(text) + 1, Repeats(text, j, o, m), NEW l \in Nat, l = j + m
  PROVE  Copy(Before(text, j), o, m) = Before(text, l)
<1> DEFINE out == SubSeq(text, 1, j - 1)
           Source(p) == p[IF o <= Len(p) THEN Len(p) - o + 1 ELSE 2 * Len(p) - o + 1]
           More(p) == Append(p, Source(p))
           Def(h) == [k \in 0..m |-> IF k = 0 THEN out ELSE More(h[k - 1])]
           f == [k \in 0..m |-> SubSeq(text, 1, j - 1 + k)]
           upTo == CHOOSE h : h = Def(h)
<1>1. ASSUME NEW x \in (j - 1)..(j + m - 2)
      PROVE  More(SubSeq(text, 1, x)) = SubSeq(text, 1, x + 1)
  <2>1. x \in 0..Len(text) /\ x < Len(text) /\ x - o + 1 \in 1..x
    OBVIOUS
  <2>2. SubSeq(text, 1, x)[x - o + 1] = text[x - o + 1] /\ Len(SubSeq(text, 1, x)) = x
    BY <2>1, PrefixesJoin
  <2>3. x + 1 \in j..(j + m - 1) /\ x + 1 - o = x - o + 1
    OBVIOUS
  <2>4. text[x + 1] = text[x - o + 1]
    BY <2>3 DEF Repeats
  <2>5. Source(SubSeq(text, 1, x)) = text[x + 1]
    <3>1. o <= x
      BY <2>1
    <3> QED BY <3>1, <2>2, <2>4
  <2> HIDE DEF Source
  <2> QED BY <2>1, <2>5, PrefixesJoin
<1> HIDE DEF More, Source
<1>2. ASSUME NEW k \in 1..m PROVE f[k] = More(f[k - 1])
  <2>1. /\ k - 1 \in 0..m /\ k \in 0..m
        /\ j - 1 + (k - 1) \in (j - 1)..(j + m - 2)
        /\ j - 1 + (k - 1) + 1 = j - 1 + k
    OBVIOUS
  <2>2. f[k] = SubSeq(text, 1, j - 1 + k) /\ f[k - 1] = SubSeq(text, 1, j - 1 + (k - 1))
    BY <2>1
  <2> QED BY <2>1, <2>2, <1>1
<1>3. f[0] = out /\ 0 \in 0..m
  OBVIOUS
<1>4. f = Def(f)
  <2>1. ASSUME NEW k \in 0..m PROVE f[k] = IF k = 0 THEN out ELSE More(f[k - 1])
    <3> HIDE DEF f, out
    <3>1. CASE k = 0
      BY <3>1, <1>3
    <3>2. CASE k # 0
      <4>1. k \in 1..m
        BY <3>2
      <4> QED BY <4>1, <3>2, <1>2
    <3> QED BY <3>1, <3>2
  <2>2. DOMAIN f = 0..m /\ f = [k \in 0..m |-> f[k]]
    OBVIOUS
  <2> HIDE DEF f, out
  <2> QED BY <2>1, <2>2
<1>5. upTo = Def(upTo)
  <2> HIDE DEF f, Def
  <2> QED BY <1>4
<1> HIDE DEF f, upTo, out
<1>6. \A k \in 0..m : upTo[k] = f[k]
  <2>1. upTo[0] = f[0]
    BY <1>3, <1>5
  <2>2. ASSUME NEW k \in 1..m, upTo[k - 1] = f[k - 1] PROVE upTo[k] = f[k]
    <3>1. k \in 0..m /\ k # 0
      OBVIOUS
    <3>2. upTo[k] = More(upTo[k - 1])
      BY <3>1, <1>5
    <3> QED BY <3>2, <2>2, <1>2
  <2>3. GoAlike(upTo, f, m)
    BY <2>1, <2>2 DEF GoAlike
  <2>4. AreAlike(upTo, f, m)
    BY <2>3, SameAllAlong
  <2> QED BY <2>4 DEF AreAlike
<1>7. Copy(out, o, m) = upTo[m]
  BY DEF Copy, upTo, More, Source
<1>8. f[m] = SubSeq(text, 1, j - 1 + m) /\ m \in 0..m
  BY DEF f
<1>9. j - 1 + m = j + m - 1
  OBVIOUS
<1>10. SubSeq(text, 1, j + m - 1) = Before(text, l)
  BY DEF Before
<1> QED BY <1>6, <1>7, <1>8, <1>9, <1>10 DEF out, Before

\* The encodings of the text from i on, where those of later parts are h.
EncodedFrom(text, h, i) ==
  {Literals(SubSeq(text, i, Len(text)), 0)} \cup
  UNION {{Encoded(text, i, c, rest) : rest \in h[c[1] + c[3]]} : c \in Copies(text, i)}

LEMMA CopiesGoOn ==
  ASSUME NEW text \in Seq(Nat), NEW i \in 1..Len(text), NEW c \in Copies(text, i)
  PROVE  /\ c[1] \in i..Len(text) /\ c[2] \in 1..(c[1] - 1) /\ c[3] - MinMatch \in Nat
         /\ c[3] \in Nat /\ c[1] + c[3] \in (i + 1)..Len(text)
         /\ Repeats(text, c[1], c[2], c[3])
<1>1. MinMatch \in Nat \ {0} /\ Len(text) \in Nat
  BY SizesArePositive
<1>2. /\ c[1] \in i..Len(text) /\ c[2] \in 1..Len(text) /\ c[3] \in MinMatch..Len(text)
      /\ c[2] < c[1] /\ c[1] + c[3] <= Len(text)
      /\ Repeats(text, c[1], c[2], c[3])
  BY DEF Copies
<1>3. ASSUME NEW a \in i..Len(text), NEW b \in 1..Len(text), NEW m \in MinMatch..Len(text),
             b < a, a + m <= Len(text)
      PROVE  /\ b \in 1..(a - 1) /\ m - MinMatch \in Nat /\ m \in Nat
             /\ a + m \in (i + 1)..Len(text)
  <2>1. /\ a \in Int /\ b \in Int /\ m \in Int /\ i \in Int
        /\ i <= a /\ 1 <= b /\ MinMatch <= m
    BY <1>1
  <2>2. b \in 1..(a - 1) /\ m - MinMatch \in Nat /\ m \in Nat
    BY <1>1, <1>3, <2>1
  <2>3. a + m \in (i + 1)..Len(text)
    BY <1>1, <1>3, <2>1
  <2> QED BY <2>2, <2>3
<1> QED BY <1>2, <1>3

LEMMA EncodedIsBytes ==
  ASSUME NEW text \in Seq(Nat), NEW i \in 1..Len(text), NEW c \in Copies(text, i),
         NEW rest \in Seq(Nat)
  PROVE  LET head == Literals(SubSeq(text, i, c[1] - 1), c[3] - MinMatch)
                       \o Match(c[2], c[3] - MinMatch)
         IN  /\ SubSeq(text, i, c[1] - 1) \in Seq(Nat)
             /\ head \in Seq(Nat) /\ Len(head) > 0
             /\ Encoded(text, i, c, rest) = head \o rest
             /\ Encoded(text, i, c, rest) \in Seq(Nat)
<1> DEFINE s == SubSeq(text, i, c[1] - 1)
           m == c[3] - MinMatch
<1>1. c[1] - 1 \in (i - 1)..Len(text) /\ m \in Nat /\ c[2] \in Nat
  <2>1. c[1] \in i..Len(text) /\ c[2] \in 1..(c[1] - 1) /\ m \in Nat
    BY CopiesGoOn
  <2> HIDE DEF m
  <2> QED BY <2>1
<1>2. s \in Seq(Nat)
  BY <1>1, PrefixAndPart
<1>3. Encoded(text, i, c, rest) = (Literals(s, m) \o Match(c[2], m)) \o rest
  BY DEF Encoded
<1> HIDE DEF s, m
<1>4. /\ Literals(s, m) \in Seq(Nat) /\ Len(Literals(s, m)) = 1 + Len(Extra(Len(s))) + Len(s)
      /\ Match(c[2], m) \in Seq(Nat)
  BY <1>1, <1>2, LiteralsAreBytes, MatchIsBytes
<1>5. Extra(Len(s)) \in Seq(Nat) /\ Len(s) \in Nat
  BY <1>2, ExtraIsBytes
<1>6. Len(Literals(s, m)) > 0
  BY <1>4, <1>5
<1>7. /\ Literals(s, m) \o Match(c[2], m) \in Seq(Nat)
      /\ Len(Literals(s, m) \o Match(c[2], m)) > 0
      /\ (Literals(s, m) \o Match(c[2], m)) \o rest \in Seq(Nat)
  BY <1>4, <1>6
<1> QED BY <1>2, <1>3, <1>7 DEF s, m

LEMMA LaterPartsOnly ==
  ASSUME NEW text \in Seq(Nat), NEW i \in 1..Len(text), NEW g, NEW h,
         \A k \in (i + 1)..Len(text) : g[k] = h[k]
  PROVE  EncodedFrom(text, g, i) = EncodedFrom(text, h, i)
<1>1. ASSUME NEW c \in Copies(text, i) PROVE g[c[1] + c[3]] = h[c[1] + c[3]]
  BY CopiesGoOn
<1>2. UNION {{Encoded(text, i, c, rest) : rest \in g[c[1] + c[3]]} : c \in Copies(text, i)}
        = UNION {{Encoded(text, i, c, rest) : rest \in h[c[1] + c[3]]} : c \in Copies(text, i)}
  BY <1>1
<1> QED BY <1>2 DEF EncodedFrom

LEMMA EncodingsAreBytes ==
  ASSUME NEW text \in Seq(Nat), NEW h \in [1..Len(text) -> SUBSET Seq(Nat)],
         NEW i \in 1..Len(text)
  PROVE  EncodedFrom(text, h, i) \in SUBSET Seq(Nat)
<1>1. Literals(SubSeq(text, i, Len(text)), 0) \in Seq(Nat)
  <2>1. SubSeq(text, i, Len(text)) \in Seq(Nat) /\ 0 \in Nat
    BY PrefixAndPart
  <2> QED BY <2>1, LiteralsAreBytes
<1>2. ASSUME NEW c \in Copies(text, i), NEW rest \in h[c[1] + c[3]]
      PROVE  Encoded(text, i, c, rest) \in Seq(Nat)
  <2>1. c[1] + c[3] \in 1..Len(text)
    BY CopiesGoOn
  <2>2. rest \in Seq(Nat)
    BY <2>1
  <2> QED BY <2>2, EncodedIsBytes
<1> QED BY <1>1, <1>2 DEF EncodedFrom

\* The recursive definition of Encodings does define a function.
IsEncoding(text, h) ==
  /\ h \in [1..Len(text) -> SUBSET Seq(Nat)]
  /\ \A i \in 1..Len(text) : h[i] = EncodedFrom(text, h, i)

LEMMA EncodingsExist ==
  ASSUME NEW text \in Seq(Nat)
  PROVE  \E h : IsEncoding(text, h)
<1> DEFINE n == Len(text)
           Done(h, m) == \A i \in (n - m + 1)..n : h[i] = EncodedFrom(text, h, i)
           T == {m \in Nat : m <= n => \E h \in [1..n -> SUBSET Seq(Nat)] : Done(h, m)}
<1>1. n \in Nat
  OBVIOUS
<1>2. 0 \in T
  <2> DEFINE h == [i \in 1..n |-> {}]
  <2>1. h \in [1..n -> SUBSET Seq(Nat)]
    OBVIOUS
  <2>2. Done(h, 0)
    BY <1>1
  <2> QED BY <2>1, <2>2
<1>3. ASSUME NEW m \in Nat, m \in T PROVE m + 1 \in T
  <2> SUFFICES ASSUME m + 1 <= n
               PROVE  \E h \in [1..n -> SUBSET Seq(Nat)] : Done(h, m + 1)
    OBVIOUS
  <2>1. m <= n /\ n - m \in 1..n
    BY <1>1
  <2>2. PICK h \in [1..n -> SUBSET Seq(Nat)] : Done(h, m)
    BY <1>3, <2>1
  <2> DEFINE g == [h EXCEPT ![n - m] = EncodedFrom(text, h, n - m)]
  <2>3. EncodedFrom(text, h, n - m) \in SUBSET Seq(Nat)
    BY <2>1, EncodingsAreBytes
  <2>4. g \in [1..n -> SUBSET Seq(Nat)]
    BY <2>3
  <2>5. g[n - m] = EncodedFrom(text, h, n - m) /\ \A k \in 1..n : k # n - m => g[k] = h[k]
    BY <2>1
  <2> HIDE DEF g
  <2>6. ASSUME NEW i \in (n - m)..n PROVE EncodedFrom(text, g, i) = EncodedFrom(text, h, i)
    <3>1. i \in 1..n
      BY <2>1, <1>1
    <3>2. \A k \in (i + 1)..n : k \in 1..n /\ k # n - m
      BY <2>1, <1>1
    <3>3. \A k \in (i + 1)..n : g[k] = h[k]
      BY <3>2, <2>5
    <3> QED BY <3>1, <3>3, LaterPartsOnly
  <2>7. ASSUME NEW i \in (n - (m + 1) + 1)..n PROVE g[i] = EncodedFrom(text, g, i)
    <3>1. i \in (n - m)..n /\ i \in 1..n
      BY <2>1, <1>1
    <3>2. CASE i = n - m
      BY <3>1, <3>2, <2>5, <2>6
    <3>3. CASE i # n - m
      <4>1. i \in (n - m + 1)..n
        BY <3>1, <3>3, <1>1
      <4>2. g[i] = h[i] /\ h[i] = EncodedFrom(text, h, i)
        BY <3>1, <3>3, <2>5, <2>2, <4>1
      <4> QED BY <3>1, <4>2, <2>6
    <3> QED BY <3>2, <3>3
  <2> QED BY <2>4, <2>7
<1>4. Nat \subseteq T
  <2> HIDE DEF T
  <2> QED BY <1>2, <1>3, SetInduction
<1>5. n \in T
  <2> HIDE DEF T, n
  <2> QED BY <1>1, <1>4
<1>6. PICK h \in [1..n -> SUBSET Seq(Nat)] : Done(h, n)
  BY <1>1, <1>5
<1>7. \A i \in 1..n : i \in (n - n + 1)..n
  BY <1>1
<1>8. IsEncoding(text, h)
  BY <1>6, <1>7 DEF IsEncoding
<1> QED BY <1>8

LEMMA EncodingsAre ==
  ASSUME NEW text \in Seq(Nat), Len(text) > 0
  PROVE  \E h : IsEncoding(text, h) /\ Encodings(text) = h[1]
<1> DEFINE Def(h) == [i \in 1..Len(text) |-> EncodedFrom(text, h, i)]
           from == CHOOSE h : h = Def(h)
<1>1. PICK h : IsEncoding(text, h)
  BY EncodingsExist
<1>2. h = Def(h)
  <2>1. h = [i \in 1..Len(text) |-> h[i]]
    BY <1>1 DEF IsEncoding
  <2> QED BY <2>1, <1>1 DEF IsEncoding
<1>3. from = Def(from)
  <2> HIDE DEF Def
  <2> QED BY <1>2
<1>4. Encodings(text) = from[1]
  BY DEF Encodings, EncodedFrom
<1> HIDE DEF from
<1>5. \A i \in 1..Len(text) : from[i] = EncodedFrom(text, from, i)
  BY <1>3
<1> DEFINE n == Len(text)
           T == {m \in Nat : m <= n => \A i \in (n - m + 1)..n : from[i] = h[i]}
<1>6. n \in Nat
  OBVIOUS
<1> HIDE DEF n
<1>7. 0 \in T
  BY <1>6
<1>8. ASSUME NEW m \in Nat, m \in T PROVE m + 1 \in T
  <2> SUFFICES ASSUME m + 1 <= n, NEW i \in (n - (m + 1) + 1)..n PROVE from[i] = h[i]
    OBVIOUS
  <2>1. \A k \in (n - m + 1)..n : from[k] = h[k]
    BY <1>6, <1>8
  <2>2. i \in 1..n /\ (i + 1)..n \subseteq (n - m + 1)..n
    BY <1>6
  <2>3. from[i] = EncodedFrom(text, from, i) /\ h[i] = EncodedFrom(text, h, i)
    BY <2>2, <1>1, <1>5 DEF n, IsEncoding
  <2>4. EncodedFrom(text, from, i) = EncodedFrom(text, h, i)
    BY <2>1, <2>2, LaterPartsOnly DEF n
  <2> QED BY <2>3, <2>4
<1>9. n \in T
  <2>1. Nat \subseteq T
    <3> HIDE DEF T
    <3> QED BY <1>7, <1>8, SetInduction
  <2> HIDE DEF T
  <2> QED BY <1>6, <2>1
<1>10. n > 0 => from[1] = h[1]
  BY <1>6, <1>9
<1> QED BY <1>1, <1>4, <1>6, <1>10 DEF n

LEMMA EncodingIsLiteralsOrCopy ==
  ASSUME NEW text \in Seq(Nat), NEW h, IsEncoding(text, h),
         NEW i \in 1..Len(text), NEW e \in h[i]
  PROVE  \/ e = Literals(SubSeq(text, i, Len(text)), 0)
         \/ \E c \in Copies(text, i) : \E rest \in h[c[1] + c[3]] : e = Encoded(text, i, c, rest)
<1>1. e \in EncodedFrom(text, h, i)
  BY DEF IsEncoding
<1> QED BY <1>1 DEF EncodedFrom

LEMMA EncodingsHaveBytes ==
  ASSUME NEW text \in Seq(Nat), NEW h, IsEncoding(text, h),
         NEW i \in 1..Len(text), NEW e \in h[i]
  PROVE  Len(e) > 0
<1>1. CASE e = Literals(SubSeq(text, i, Len(text)), 0)
  <2>1. PICK s \in Seq(Nat) : s = SubSeq(text, i, Len(text))
    BY Len(text) \in (i - 1)..Len(text), PrefixAndPart
  <2>2. Len(Literals(s, 0)) = 1 + Len(Extra(Len(s))) + Len(s) /\ Len(s) \in Nat
    BY LiteralsAreBytes
  <2>3. Extra(Len(s)) \in Seq(Nat)
    BY <2>2, ExtraIsBytes
  <2> QED BY <1>1, <2>1, <2>2, <2>3
<1>2. ASSUME NEW c \in Copies(text, i), NEW rest \in h[c[1] + c[3]],
             e = Encoded(text, i, c, rest)
      PROVE  Len(e) > 0
  <2>1. c[1] + c[3] \in 1..Len(text)
    BY CopiesGoOn
  <2>2. rest \in Seq(Nat)
    BY <2>1 DEF IsEncoding
  <2>3. PICK head \in Seq(Nat) : Len(head) > 0 /\ e = head \o rest
    BY <1>2, <2>2, EncodedIsBytes
  <2> QED BY <2>2, <2>3
<1> QED BY <1>1, <1>2, EncodingIsLiteralsOrCopy

-----------------------------------------------------------------------------
(***************************************************************************)
(* One sequence of a block that begins as an encoding does: what it decodes*)
(* goes on from what is decoded already, or the block ends there.          *)
(***************************************************************************)
\* One sequence makes then of what there is now, and leaves the rest.
LeavesRest(data, s, then, rest, end) ==
  \E next \in Nat :
    /\ next > s.pos /\ next <= Len(data) + 1
    /\ Sequence(data, s) = [pos |-> next, out |-> then, ok |-> TRUE]
    /\ BeginsAt(data, next, rest) /\ next + Len(rest) = end

\* The data ends within a sequence that is literals and a match o bytes back.
EndsEarly(data, s, literals, o, n) ==
  \/ Sequence(data, s) = Broken(data)
  \/ \E next \in Nat, p \in 0..Len(literals) :
       /\ next > Len(data)
       /\ Sequence(data, s) =
            [pos |-> next, out |-> s.out \o SubSeq(literals, 1, p), ok |-> TRUE]
  \/ \E k \in 0..n :
       Sequence(data, s) =
         [pos |-> Len(data) + 1, out |-> Copy(s.out \o literals, o, k), ok |-> TRUE]

LEMMA HeadIsRead ==
  ASSUME NEW data \in Seq(Nat), NEW pos \in Nat \ {0}, pos <= Len(data),
         NEW s \in Seq(Nat), NEW out \in Seq(Nat),
         NEW o \in Nat \ {0}, NEW m \in Nat, NEW n \in Nat, n = m + MinMatch,
         o <= Len(out \o s),
         NEW rest \in Seq(Nat), NEW e, e = (Literals(s, m) \o Match(o, m)) \o rest,
         BeginsAt(data, pos, e), NEW st, st = [pos |-> pos, out |-> out, ok |-> TRUE]
  PROVE  \/ LeavesRest(data, st, Copy(out \o s, o, n), rest, pos + Len(e))
         \/ pos + Len(e) > Len(data) + 1 /\ EndsEarly(data, st, s, o, n)
<1>0. PICK x \in Seq(Nat), y \in Seq(Nat) : x = Literals(s, m) /\ y = Match(o, m)
  BY LiteralsAreBytes, MatchIsBytes
<1>1. PICK L1 \in Nat, L2 \in Nat : L1 = Len(x) /\ L2 = Len(y)
  OBVIOUS
<1>2. Len(Extra(m)) \in Nat /\ L2 = 2 + Len(Extra(m))
  <2>1. Extra(m) \in Seq(Nat) /\ o \in Nat
    BY ExtraIsBytes
  <2>2. Len(Match(o, m)) = 2 + Len(Extra(m))
    BY <2>1, MatchIsBytes
  <2> QED BY <2>1, <2>2, <1>0, <1>1
<1>3. PICK head \in Seq(Nat) : head = x \o y
  <2>1. x \o y \in Seq(Nat)
    OBVIOUS
  <2> QED BY <2>1
<1>4. /\ BeginsAt(data, pos, head) /\ BeginsAt(data, pos + Len(head), rest)
      /\ Len(e) = Len(head) + Len(rest)
  <2>1. BeginsAt(data, pos, head \o rest) /\ e = head \o rest
    BY <1>0, <1>3
  <2> QED BY <2>1, BeginsInParts
<1>5. /\ BeginsAt(data, pos, Literals(s, m)) /\ BeginsAt(data, pos + L1, Match(o, m))
      /\ Len(head) = L1 + L2
  <2>1. BeginsAt(data, pos, x \o y)
    BY <1>3, <1>4
  <2>2. /\ BeginsAt(data, pos, x) /\ BeginsAt(data, pos + Len(x), y)
        /\ Len(x \o y) = Len(x) + Len(y)
    BY <2>1, BeginsInParts
  <2> QED BY <2>2, <1>0, <1>1, <1>3
<1>6. MatchHalf(data[pos]) = HalfOf(m) /\ LiteralsAt(data, pos, s, m)
  BY <1>5, LiteralsAreRead
<1>7. PICK l \in Nat, from \in Nat \ {0}, p \in 0..Len(s) :
        /\ ReadLength(data, pos + 1, LiteralHalf(data[pos])) = <<l, from>>
        /\ from > pos
        /\ Slice(data, from, l) = SubSeq(s, 1, p)
        /\ from + l <= Len(data) \/ pos + L1 <= Len(data) + 1
             => p = Len(s) /\ from + l = pos + L1
  BY <1>0, <1>1, <1>6 DEF LiteralsAt
<1>8. PICK at \in Nat : at = from + l /\ at > pos
  <2>1. from + l \in Nat /\ from + l > pos
    BY <1>7
  <2> QED BY <2>1
<1>9. PICK grown : grown = out \o Slice(data, from, l)
  OBVIOUS
<1>10. SequenceReads(data, pos, st, at, grown)
  <2>1. pos \in Nat /\ from \in Nat
    OBVIOUS
  <2> QED BY <2>1, <1>7, <1>8, <1>9, SequenceIs
<1>11. /\ Len(data) \in Nat /\ Len(rest) \in Nat /\ Len(e) \in Nat
       /\ st.pos = pos /\ st.out = out
       /\ Len(e) = L1 + L2 + Len(rest) /\ L2 >= 2
  <2>1. st.pos = pos /\ st.out = out
    OBVIOUS
  <2>2. Len(rest) \in Nat /\ Len(data) \in Nat
    OBVIOUS
  <2>3. L2 >= 2
    BY <1>2
  <2> QED BY <2>1, <2>2, <2>3, <1>4, <1>5
<1>12. CASE at > Len(data)
  <2>1. grown = st.out \o SubSeq(s, 1, p)
    BY <1>7, <1>9, <1>11
  <2>2. EndsEarly(data, st, s, o, n)
    BY <1>10, <1>12, <2>1 DEF EndsEarly, SequenceReads
  <2>3. pos + Len(e) > Len(data) + 1
    <3>1. CASE pos + L1 <= Len(data) + 1
      BY <3>1, <1>7, <1>8, <1>11, <1>12
    <3>2. CASE pos + L1 > Len(data) + 1
      BY <3>2, <1>11
    <3> QED BY <3>1, <3>2, <1>11
  <2> QED BY <2>2, <2>3
<1>13. CASE at = Len(data)
  <2>1. at = pos + L1
    BY <1>7, <1>8, <1>13
  <2>2. EndsEarly(data, st, s, o, n)
    BY <1>10, <1>13 DEF EndsEarly, SequenceReads
  <2>3. pos + Len(e) > Len(data) + 1
    BY <2>1, <1>11, <1>13
  <2> QED BY <2>2, <2>3
<1>14. CASE at < Len(data)
  <2>1. at = pos + L1 /\ p = Len(s)
    <3>1. from + l <= Len(data)
      BY <1>8, <1>14
    <3> QED BY <3>1, <1>7, <1>8
  <2>2. grown = out \o s
    <3>1. SubSeq(s, 1, Len(s)) = s
      OBVIOUS
    <3> QED BY <3>1, <2>1, <1>7, <1>9
  <2>3. BeginsAt(data, at, Match(o, m)) /\ at \in Nat \ {0}
    BY <2>1, <1>5, <1>8
  <2>4. data[at] + data[at + 1] * ByteSize = o /\ LengthAt(data, at + 2, HalfOf(m), m)
    BY <2>3, <1>14, MatchIsRead
  <2>5. PICK v \in 0..m, next \in Nat :
          /\ ReadLength(data, at + 2, HalfOf(m)) = <<v, next>>
          /\ next >= at + 2 /\ next <= Len(data) + 1
          /\ \/ v = m /\ next = at + L2
             \/ next = Len(data) + 1 /\ at + L2 > Len(data) + 1
    <3>1. PICK v \in 0..m, next \in Nat :
          /\ ReadLength(data, at + 2, HalfOf(m)) = <<v, next>>
          /\ next >= at + 2 /\ next <= Len(data) + 1
          /\ \/ v = m /\ next = at + 2 + Len(Extra(m))
             \/ next = Len(data) + 1 /\ at + 2 + Len(Extra(m)) > Len(data) + 1
      BY <2>4 DEF LengthAt
    <3>2. at + 2 + Len(Extra(m)) = at + L2
      BY <1>2
    <3> QED BY <3>1, <3>2
  <2>6. o \in 1..(2 * Len(grown))
    <3>1. out \o s \in Seq(Nat) /\ Len(out \o s) \in Nat
      OBVIOUS
    <3> QED BY <3>1, <2>2
  <2>7. Sequence(data, st) = [pos |-> next, out |-> Copy(out \o s, o, v + MinMatch), ok |-> TRUE]
    <3> DEFINE match == ReadLength(data, at + 2, MatchHalf(data[pos]))
    <3>1. match = <<v, next>>
      BY <2>5, <1>6
    <3>2. match[1] = v /\ match[2] = next
      <4> HIDE DEF match
      <4>1. <<v, next>>[1] = v /\ <<v, next>>[2] = next
        OBVIOUS
      <4> QED BY <3>1, <4>1, Zenon
    <3>3. Sequence(data, st) =
            IF o \notin 1..(2 * Len(grown)) THEN Broken(data)
            ELSE [pos |-> match[2], out |-> Copy(grown, o, match[1] + MinMatch), ok |-> TRUE]
      BY <1>10, <1>14, <2>4 DEF SequenceReads
    <3> HIDE DEF match
    <3> QED BY <2>2, <2>6, <3>2, <3>3
  <2>8. CASE v = m /\ next = at + L2
    <3>1. next = pos + Len(head)
      BY <2>1, <2>8, <1>5, <1>1
    <3>2. BeginsAt(data, next, rest) /\ next + Len(rest) = pos + Len(e) /\ next > pos
      BY <3>1, <1>4, <1>5, <1>11, <2>1, <2>8, <1>8
    <3> QED BY <2>5, <2>7, <2>8, <3>2, <1>11 DEF LeavesRest
  <2>9. CASE next = Len(data) + 1 /\ at + L2 > Len(data) + 1
    <3>1. v + MinMatch \in 0..n
      BY SizesArePositive
    <3>2. EndsEarly(data, st, s, o, n)
      BY <2>7, <2>9, <3>1, <1>11 DEF EndsEarly
    <3>3. pos + Len(e) > Len(data) + 1
      BY <2>1, <2>9, <1>11
    <3> QED BY <3>2, <3>3
  <2> QED BY <2>5, <2>8, <2>9
<1> QED BY <1>11, <1>12, <1>13, <1>14

\* What begins the part of a text after i goes on from what is before i.
PartGoesOn(text, i, part) ==
  \A p \in 0..Len(part) :
    /\ i - 1 + p \in 0..Len(text)
    /\ Before(text, i) \o SubSeq(part, 1, p) = SubSeq(text, 1, i - 1 + p)

LEMMA PrefixAndSome ==
  ASSUME NEW text \in Seq(Nat), NEW i \in 1..Len(text), NEW j \in (i - 1)..Len(text),
         NEW part, part = SubSeq(text, i, j)
  PROVE  Len(part) = j - i + 1 /\ PartGoesOn(text, i, part)
<1>1. Len(part) = j - i + 1
  OBVIOUS
<1>2. ASSUME NEW p \in 0..Len(part)
      PROVE  /\ Before(text, i) \o SubSeq(part, 1, p) = SubSeq(text, 1, i - 1 + p)
             /\ i - 1 + p \in 0..Len(text)
  <2>1. PICK k \in (i - 1)..Len(text) : k = i - 1 + p
    <3>1. i - 1 + p \in (i - 1)..Len(text)
      BY <1>1
    <3> QED BY <3>1
  <2>2. SubSeq(part, 1, p) = SubSeq(text, i, k)
    BY <1>1, <2>1
  <2>3. Before(text, i) \o SubSeq(text, i, k) = SubSeq(text, 1, k)
    BY PrefixAndPart DEF Before
  <2>4. i - 1 + p \in 0..Len(text)
    BY <2>1
  <2> QED BY <2>1, <2>2, <2>3, <2>4
<1> QED BY <1>1, <1>2 DEF PartGoesOn

LEMMA PrefixIs ==
  ASSUME NEW text \in Seq(Nat), NEW x \in 0..Len(text), NEW got, got = SubSeq(text, 1, x),
         NEW whole \in BOOLEAN, whole => got = text
  PROVE  got \in Seq(Nat) /\ IsOf(got, text, whole)
<1>1. got \in Seq(Nat)
  BY PrefixesJoin
<1>2. got \in Prefixes(text)
  BY DEF Prefixes
<1> QED BY <1>1, <1>2 DEF IsOf

States == [pos : Nat \ {0}, out : Seq(Nat), ok : BOOLEAN]

\* What is still to come is an encoding of the rest, whole or cut.
OnItsWay(text, h, data, whole, s) ==
  \E i \in 1..Len(text) : \E e \in h[i] :
    /\ s.out = Before(text, i)
    /\ BeginsAt(data, s.pos, e)
    /\ s.pos + Len(e) > Len(data)
    /\ whole => s.pos + Len(e) = Len(data) + 1

\* The data have ended: all is decoded, or its beginning, or the decoder failed.
Ended(text, data, whole, s) ==
  /\ s.pos > Len(data)
  /\ s.ok => IsOf(s.out, text, whole)
  /\ ~ s.ok => ~ whole

\* What the decoder's state is between two sequences of a block.
Good(text, h, data, whole, s) ==
  Ended(text, data, whole, s) \/ (s.ok /\ OnItsWay(text, h, data, whole, s))

\* A sequence goes on from s.
GoesOn(text, h, data, whole, s, t) ==
  t \in States /\ t.pos > s.pos /\ Good(text, h, data, whole, t)

LEMMA EndGoesOn ==
  ASSUME NEW text \in Seq(Nat), NEW h, NEW data \in Seq(Nat), NEW whole \in BOOLEAN,
         NEW s \in States, s.pos <= Len(data), NEW next \in Nat, next > Len(data),
         NEW x \in 0..Len(text), NEW got, got = SubSeq(text, 1, x), whole => got = text,
         NEW t, t = [pos |-> next, out |-> got, ok |-> TRUE]
  PROVE  GoesOn(text, h, data, whole, s, t)
<1>1. got \in Seq(Nat) /\ IsOf(got, text, whole)
  BY PrefixIs
<1>2. t.pos = next /\ t.out = got /\ t.ok
  OBVIOUS
<1>3. next \in Nat \ {0} /\ next > s.pos
  BY DEF States
<1>4. t \in States
  BY <1>1, <1>3 DEF States
<1>5. Ended(text, data, whole, t)
  BY <1>1, <1>2, Zenon DEF Ended
<1> QED BY <1>2, <1>3, <1>4, <1>5, Zenon DEF GoesOn, Good

LEMMA LiteralsEnd ==
  ASSUME NEW text \in Seq(Nat), NEW h, NEW data \in Seq(Nat), NEW whole \in BOOLEAN,
         NEW s \in States, s.pos <= Len(data), s.ok, NEW i \in 1..Len(text),
         s.out = Before(text, i),
         NEW e, e = Literals(SubSeq(text, i, Len(text)), 0),
         BeginsAt(data, s.pos, e), s.pos + Len(e) > Len(data),
         whole => s.pos + Len(e) = Len(data) + 1
  PROVE  GoesOn(text, h, data, whole, s, Sequence(data, s))
<1>1. PICK pos \in Nat \ {0} :
        pos = s.pos /\ s = [pos |-> pos, out |-> Before(text, i), ok |-> TRUE]
  BY DEF States
<1>2. Len(text) \in (i - 1)..Len(text)
  OBVIOUS
<1>3. PICK part \in Seq(Nat) : part = SubSeq(text, i, Len(text))
  BY <1>2, PrefixAndPart
<1>4. LiteralsAt(data, pos, part, 0)
  BY <1>1, <1>3, LiteralsAreRead
<1>5. PICK l \in Nat, from \in Nat \ {0}, p \in 0..Len(part) :
        /\ ReadLength(data, pos + 1, LiteralHalf(data[pos])) = <<l, from>>
        /\ from > pos
        /\ Slice(data, from, l) = SubSeq(part, 1, p)
        /\ from + l <= Len(data) \/ pos + Len(e) <= Len(data) + 1
             => p = Len(part) /\ from + l = pos + Len(e)
  BY <1>3, <1>4 DEF LiteralsAt
<1>6. PICK at \in Nat : at = from + l /\ at > Len(data)
  <2>1. Len(e) \in Nat /\ Len(data) \in Nat
    <3>1. e = Literals(part, 0) /\ 0 \in Nat
      BY <1>3
    <3>2. e \in Seq(Nat)
      BY <3>1, LiteralsAreBytes
    <3> QED BY <3>2
  <2>2. from + l > Len(data)
    <3>1. pos + Len(e) > Len(data)
      BY <1>1
    <3>2. CASE from + l <= Len(data)
      BY <3>1, <3>2, <1>5
    <3>3. CASE ~ (from + l <= Len(data))
      BY <3>3, <2>1
    <3> QED BY <3>2, <3>3
  <2>3. from + l \in Nat
    OBVIOUS
  <2> QED BY <2>2, <2>3
<1>7. PICK got : got = Before(text, i) \o Slice(data, from, l)
  OBVIOUS
<1>8. Sequence(data, s) = [pos |-> at, out |-> got, ok |-> TRUE]
  <2>1. pos \in Nat /\ from \in Nat
    OBVIOUS
  <2>2. SequenceReads(data, pos, s, at, got)
    BY <1>1, <1>5, <1>6, <1>7, <2>1, SequenceIs
  <2> QED BY <1>6, <2>2 DEF SequenceReads
<1>9. PICK x \in 0..Len(text) : x = i - 1 + p /\ got = SubSeq(text, 1, x)
  <2>1. PartGoesOn(text, i, part)
    <3>1. PICK j \in (i - 1)..Len(text) : j = Len(text)
      BY <1>2
    <3>2. part = SubSeq(text, i, j)
      BY <1>3, <3>1
    <3> QED BY <3>2, PrefixAndSome
  <2>2. got = SubSeq(text, 1, i - 1 + p) /\ i - 1 + p \in 0..Len(text)
    BY <1>5, <1>7, <2>1 DEF PartGoesOn
  <2> QED BY <2>2
<1>10. ASSUME whole PROVE got = text
  <2>1. p = Len(part)
    BY <1>1, <1>5, <1>10
  <2>2. Len(part) = Len(text) - i + 1
    <3>1. PICK j \in (i - 1)..Len(text) : j = Len(text)
      BY <1>2
    <3>2. part = SubSeq(text, i, j)
      BY <1>3, <3>1
    <3> QED BY <3>1, <3>2, PrefixAndSome
  <2>3. x = Len(text)
    BY <1>9, <2>1, <2>2
  <2> QED BY <1>9, <2>3, PrefixesJoin
<1> QED BY <1>6, <1>8, <1>9, <1>10, EndGoesOn

LEMMA BreaksGoOn ==
  ASSUME NEW text, NEW h, NEW data \in Seq(Nat), NEW s \in States, s.pos <= Len(data)
  PROVE  GoesOn(text, h, data, FALSE, s, Broken(data))
<1>1. Len(data) + 1 \in Nat \ {0} /\ <<>> \in Seq(Nat) /\ Len(data) + 1 > s.pos
      /\ Len(data) + 1 > Len(data)
  BY DEF States
<1>2. /\ Broken(data).pos = Len(data) + 1 /\ ~ Broken(data).ok
      /\ Broken(data) = [pos |-> Len(data) + 1, out |-> <<>>, ok |-> FALSE]
  BY DEF Broken
<1>3. Broken(data) \in States
  BY <1>1, <1>2 DEF States
<1>4. Ended(text, data, FALSE, Broken(data))
  BY <1>1, <1>2, Zenon DEF Ended
<1> QED BY <1>1, <1>2, <1>3, <1>4, Zenon DEF GoesOn, Good

\* A copy within a text: from j on, o back, n bytes, m of them counted.
CopyIs(text, i, j, o, n, m) ==
  /\ j \in 1..Len(text) /\ o \in Nat \ {0} /\ n \in Nat /\ m \in Nat
  /\ n = m + MinMatch /\ o < j /\ j + n \in 1..Len(text)
  /\ i - 1 \in 0..Len(text) /\ j - 1 \in 0..Len(text) /\ j - 1 \in (i - 1)..Len(text)
  /\ Repeats(text, j, o, n)

LEMMA CopiesAre ==
  ASSUME NEW text \in Seq(Nat), NEW i \in 1..Len(text), NEW c \in Copies(text, i)
  PROVE  CopyIs(text, i, c[1], c[2], c[3], c[3] - MinMatch)
<1>1. /\ c[1] \in i..Len(text) /\ c[2] \in 1..(c[1] - 1) /\ c[3] - MinMatch \in Nat
      /\ c[3] \in Nat /\ c[1] + c[3] \in (i + 1)..Len(text)
      /\ Repeats(text, c[1], c[2], c[3])
  BY CopiesGoOn
<1>2. ASSUME NEW a \in i..Len(text), NEW b \in 1..(a - 1), NEW d \in Nat, d - MinMatch \in Nat,
             a + d \in (i + 1)..Len(text), Repeats(text, a, b, d)
      PROVE  CopyIs(text, i, a, b, d, d - MinMatch)
  <2>1. MinMatch \in Nat
    BY SizesArePositive
  <2>2. /\ a \in 1..Len(text) /\ b \in Nat \ {0} /\ b < a /\ a + d \in 1..Len(text)
        /\ i - 1 \in 0..Len(text) /\ a - 1 \in 0..Len(text) /\ a - 1 \in (i - 1)..Len(text)
        /\ d = (d - MinMatch) + MinMatch
    BY <1>2, <2>1
  <2> QED BY <1>2, <2>2 DEF CopyIs
<1> QED BY <1>1, <1>2

\* A copy of k bytes leaves the text before j + k.
CopyLeaves(text, j, o, k) ==
  /\ j - 1 + k \in 0..Len(text)
  /\ Copy(Before(text, j), o, k) = SubSeq(text, 1, j - 1 + k)
  /\ Before(text, j + k) = SubSeq(text, 1, j - 1 + k)

LEMMA LessIsCopied ==
  ASSUME NEW text \in Seq(Nat), NEW i \in 1..Len(text), NEW j, NEW o, NEW n, NEW m,
         CopyIs(text, i, j, o, n, m), NEW k \in 0..n
  PROVE  CopyLeaves(text, j, o, k)
<1>1. /\ j \in 1..Len(text) /\ o \in Nat \ {0} /\ n \in Nat /\ o < j
      /\ j + n \in 1..Len(text) /\ Repeats(text, j, o, n)
  BY DEF CopyIs
<1>2. PICK l \in Nat : l = j + k /\ l - 1 = j - 1 + k
  <2>1. j + k \in Nat /\ (j + k) - 1 = j - 1 + k
    BY <1>1
  <2> QED BY <2>1
<1>3. k \in Nat /\ j + k <= Len(text) + 1 /\ o < j /\ j \in Nat /\ o \in Nat \ {0}
  BY <1>1
<1>4. Repeats(text, j, o, k)
  <2>1. j..(j + k - 1) \subseteq j..(j + n - 1)
    BY <1>1
  <2> QED BY <1>1, <2>1 DEF Repeats
<1>5. Copy(Before(text, j), o, k) = Before(text, l)
  BY <1>2, <1>3, <1>4, CopyGoesOn
<1>6. j - 1 + k \in 0..Len(text)
  BY <1>1
<1> QED BY <1>2, <1>5, <1>6 DEF Before, CopyLeaves

LEMMA CopyStaysGood ==
  ASSUME NEW text \in Seq(Nat), NEW h, IsEncoding(text, h),
         NEW data \in Seq(Nat), NEW whole \in BOOLEAN,
         NEW s \in States, s.pos <= Len(data), s.ok, NEW i \in 1..Len(text),
         s.out = Before(text, i),
         NEW c \in Copies(text, i), NEW rest \in h[c[1] + c[3]],
         NEW e, e = Encoded(text, i, c, rest),
         BeginsAt(data, s.pos, e), s.pos + Len(e) > Len(data),
         whole => s.pos + Len(e) = Len(data) + 1
  PROVE  GoesOn(text, h, data, whole, s, Sequence(data, s))
<1>1. PICK pos \in Nat \ {0} :
        pos = s.pos /\ s = [pos |-> pos, out |-> Before(text, i), ok |-> TRUE]
  BY DEF States
<1>2. PICK j \in Nat, o \in Nat \ {0}, n \in Nat, m \in Nat :
        /\ j = c[1] /\ o = c[2] /\ n = c[3] /\ m = c[3] - MinMatch
        /\ CopyIs(text, i, j, o, n, m)
  <2>1. CopyIs(text, i, c[1], c[2], c[3], c[3] - MinMatch)
    BY CopiesAre
  <2>2. c[1] \in Nat /\ c[2] \in Nat \ {0} /\ c[3] \in Nat /\ c[3] - MinMatch \in Nat
    BY <2>1 DEF CopyIs
  <2> QED BY <2>1, <2>2
<1>3. PICK part \in Seq(Nat) :
        part = SubSeq(text, i, j - 1) /\ Before(text, i) \o part = Before(text, j)
  BY <1>2, PrefixAndPart DEF Before, CopyIs
<1>4. e = (Literals(part, m) \o Match(o, m)) \o rest
  BY <1>2, <1>3 DEF Encoded
<1>5. /\ Before(text, i) \in Seq(Nat) /\ Before(text, j) \in Seq(Nat)
      /\ Len(Before(text, j)) = j - 1
  <2>1. i - 1 \in 0..Len(text) /\ j - 1 \in 0..Len(text)
    BY <1>2 DEF CopyIs
  <2> QED BY <2>1, PrefixesJoin DEF Before
<1>6. j + n \in 1..Len(text) /\ rest \in h[j + n] /\ rest \in Seq(Nat)
  <2>1. j + n \in 1..Len(text)
    BY <1>2 DEF CopyIs
  <2> QED BY <1>2, <2>1 DEF IsEncoding
<1>7. ASSUME NEW k \in 0..n PROVE CopyLeaves(text, j, o, k)
  BY <1>2, LessIsCopied
<1>8. \/ LeavesRest(data, s, Copy(Before(text, j), o, n), rest, pos + Len(e))
      \/ pos + Len(e) > Len(data) + 1 /\ EndsEarly(data, s, part, o, n)
  <2>1. n = m + MinMatch /\ o < j
    BY <1>2 DEF CopyIs
  <2>2. PICK out \in Seq(Nat) : out = Before(text, i) /\ out \o part = Before(text, j)
    BY <1>3, <1>5
  <2>3. o <= Len(out \o part)
    BY <2>1, <2>2, <1>5
  <2>4. pos <= Len(data) /\ BeginsAt(data, pos, e) /\ s = [pos |-> pos, out |-> out, ok |-> TRUE]
    BY <1>1, <2>2
  <2>5. rest \in Seq(Nat)
    BY <1>6
  <2>6. \/ LeavesRest(data, s, Copy(out \o part, o, n), rest, pos + Len(e))
        \/ pos + Len(e) > Len(data) + 1 /\ EndsEarly(data, s, part, o, n)
    BY <1>4, <2>1, <2>3, <2>4, <2>5, HeadIsRead
  <2> QED BY <2>2, <2>6
<1>9. CASE LeavesRest(data, s, Copy(Before(text, j), o, n), rest, pos + Len(e))
  <2>1. PICK next \in Nat :
          /\ next > s.pos /\ next <= Len(data) + 1
          /\ Sequence(data, s) = [pos |-> next, out |-> Copy(Before(text, j), o, n), ok |-> TRUE]
          /\ BeginsAt(data, next, rest) /\ next + Len(rest) = pos + Len(e)
    BY <1>9 DEF LeavesRest
  <2>2. PICK d \in 1..Len(text) : d = j + n
    BY <1>6
  <2>3. Copy(Before(text, j), o, n) = Before(text, d) /\ Before(text, d) \in Seq(Nat)
    <3>1. n \in 0..n
      OBVIOUS
    <3>2. Copy(Before(text, j), o, n) = Before(text, j + n) /\ j - 1 + n \in 0..Len(text)
          /\ Before(text, j + n) = SubSeq(text, 1, j - 1 + n)
      BY <1>7, <3>1 DEF CopyLeaves
    <3>3. SubSeq(text, 1, j - 1 + n) \in Seq(Nat)
      BY <3>2, PrefixesJoin
    <3> QED BY <2>2, <3>2, <3>3
  <2> DEFINE t == Sequence(data, s)
  <2>4. t.pos = next /\ t.out = Before(text, d) /\ t.ok
        /\ t = [pos |-> next, out |-> Before(text, d), ok |-> TRUE]
    BY <2>1, <2>3
  <2>5. next \in Nat \ {0}
    BY <2>1, <1>1
  <2>6. t \in States
    BY <2>3, <2>4, <2>5 DEF States
  <2> HIDE DEF t
  <2>7. next + Len(rest) > Len(data) /\ (whole => next + Len(rest) = Len(data) + 1)
    BY <2>1, <1>1
  <2>8. OnItsWay(text, h, data, whole, t)
    BY <1>6, <2>1, <2>2, <2>4, <2>7 DEF OnItsWay
  <2>9. t.pos > s.pos
    BY <2>1, <2>4
  <2> QED BY <2>4, <2>6, <2>8, <2>9, Zenon DEF GoesOn, Good, t
<1>10. CASE pos + Len(e) > Len(data) + 1 /\ EndsEarly(data, s, part, o, n)
  <2>1. whole = FALSE
    <3>1. Literals(part, m) \in Seq(Nat) /\ Match(o, m) \in Seq(Nat)
      BY LiteralsAreBytes, MatchIsBytes
    <3>2. Len(e) \in Nat /\ Len(data) \in Nat
      BY <1>4, <1>6, <3>1
    <3> QED BY <1>1, <1>10, <3>2
  <2>2. CASE Sequence(data, s) = Broken(data)
    BY <2>1, <2>2, BreaksGoOn
  <2>3. ASSUME NEW next \in Nat, NEW p \in 0..Len(part), next > Len(data),
               Sequence(data, s) =
                 [pos |-> next, out |-> s.out \o SubSeq(part, 1, p), ok |-> TRUE]
        PROVE  GoesOn(text, h, data, whole, s, Sequence(data, s))
    <3>1. PICK k \in (i - 1)..Len(text) : k = j - 1
      BY <1>2 DEF CopyIs
    <3>2. PartGoesOn(text, i, part)
      BY <1>3, <3>1, PrefixAndSome
    <3>3. PICK x \in 0..Len(text) : s.out \o SubSeq(part, 1, p) = SubSeq(text, 1, x)
      BY <3>2 DEF PartGoesOn
    <3> QED BY <2>1, <2>3, <3>3, EndGoesOn
  <2>4. ASSUME NEW k \in 0..n,
               Sequence(data, s) =
                 [pos |-> Len(data) + 1, out |-> Copy(s.out \o part, o, k), ok |-> TRUE]
        PROVE  GoesOn(text, h, data, whole, s, Sequence(data, s))
    <3>1. PICK x \in 0..Len(text) : Copy(s.out \o part, o, k) = SubSeq(text, 1, x)
      BY <1>3, <1>7 DEF CopyLeaves
    <3>2. PICK next \in Nat : next = Len(data) + 1 /\ next > Len(data)
      <4>1. PICK end \in Nat : end = Len(data)
        OBVIOUS
      <4>2. end + 1 \in Nat /\ end + 1 > end
        OBVIOUS
      <4> QED BY <4>1, <4>2
    <3> QED BY <2>1, <2>4, <3>1, <3>2, EndGoesOn
  <2> QED BY <1>10, <2>2, <2>3, <2>4 DEF EndsEarly
<1> QED BY <1>8, <1>9, <1>10

LEMMA SequenceStaysGood ==
  ASSUME NEW text \in Seq(Nat), NEW h, IsEncoding(text, h),
         NEW data \in Seq(Nat), NEW whole \in BOOLEAN,
         NEW s \in States, s.pos <= Len(data), Good(text, h, data, whole, s)
  PROVE  GoesOn(text, h, data, whole, s, Sequence(data, s))
<1>1. s.ok /\ OnItsWay(text, h, data, whole, s)
  <2>1. ~ (s.pos > Len(data))
    BY DEF States
  <2> QED BY <2>1 DEF Good, Ended
<1>2. PICK i \in 1..Len(text) : \E e \in h[i] :
        /\ s.out = Before(text, i)
        /\ BeginsAt(data, s.pos, e)
        /\ s.pos + Len(e) > Len(data)
        /\ whole => s.pos + Len(e) = Len(data) + 1
  BY <1>1 DEF OnItsWay
<1>3. PICK e \in h[i] :
        /\ s.out = Before(text, i)
        /\ BeginsAt(data, s.pos, e)
        /\ s.pos + Len(e) > Len(data)
        /\ whole => s.pos + Len(e) = Len(data) + 1
  BY <1>2
<1>4. CASE e = Literals(SubSeq(text, i, Len(text)), 0)
  BY <1>1, <1>3, <1>4, LiteralsEnd
<1>5. ASSUME NEW c \in Copies(text, i), NEW rest \in h[c[1] + c[3]],
             e = Encoded(text, i, c, rest)
      PROVE  GoesOn(text, h, data, whole, s, Sequence(data, s))
  BY <1>1, <1>3, <1>5, CopyStaysGood
<1> QED BY <1>4, <1>5, EncodingIsLiteralsOrCopy

-----------------------------------------------------------------------------
(***************************************************************************)
(* All of a block: whatever its encoder copied, it is decoded to its text, *)
(* and where it was cut to the beginning of it or to nothing.              *)
(***************************************************************************)
\* What holds at the start of a block and goes on to hold, holds at its end.
LEMMA DecoderEnds ==
  ASSUME NEW data \in Seq(Nat), NEW G, G \subseteq States,
         NEW start \in G, start = [pos |-> 1, out |-> <<>>, ok |-> TRUE],
         \A s \in G : s.pos <= Len(data) =>
           Sequence(data, s) \in G /\ Sequence(data, s).pos > s.pos
  PROVE  \E s \in G :
           s.pos > Len(data) /\ Decompress(data) = IF s.ok THEN s.out ELSE Absent
<1> DEFINE L == Len(data)
           More(s) == IF s.pos > L THEN s ELSE Sequence(data, s)
           step == [k \in 1..L |-> [s \in G |-> More(s)]]
           Def(f) == [n \in 0..L |-> IF n = 0 THEN start ELSE More(f[n - 1])]
           after == CHOOSE f : f = Def(f)
<1>1. L \in Nat
  OBVIOUS
<1>3. ASSUME NEW s \in G
      PROVE  /\ More(s) \in G
             /\ s.pos \in Nat /\ More(s).pos \in Nat
             /\ s.pos <= L => More(s).pos > s.pos
             /\ s.pos > L => More(s) = s
  <2>1. s.pos \in Nat /\ \A t \in G : t.pos \in Nat
    BY DEF States
  <2>2. CASE s.pos > L
    BY <2>1, <2>2, <1>1
  <2>3. CASE ~ (s.pos > L)
    <3>1. s.pos <= Len(data)
      BY <1>1, <2>1, <2>3
    <3>2. Sequence(data, s) \in G /\ Sequence(data, s).pos > s.pos
      BY <3>1
    <3>3. More(s) = Sequence(data, s)
      BY <2>3
    <3> HIDE DEF More
    <3> QED BY <2>1, <2>3, <3>2, <3>3
  <2> QED BY <2>2, <2>3
<1>2. Decompress(data) = LET end == after[L] IN IF end.ok THEN end.out ELSE Absent
  BY DEF Decompress, after, L, More
<1>8. start.pos = 1
  OBVIOUS
<1> HIDE DEF L, More
<1>4. PICK f \in [0..L -> G] : Iterates(f, step, start, L)
  <2>1. step \in [1..L -> [G -> G]]
    BY <1>3
  <2> HIDE DEF step
  <2> QED BY <1>1, <2>1, StepsCanBeRepeated
<1>5. f[0] = start /\ \A n \in 1..L : f[n] = More(f[n - 1]) /\ f[n - 1] \in G
  <2>1. ASSUME NEW n \in 1..L PROVE f[n] = More(f[n - 1]) /\ f[n - 1] \in G
    <3>1. n - 1 \in 0..L
      BY <1>1
    <3>2. f[n - 1] \in G
      BY <3>1
    <3>3. f[n] = step[n][f[n - 1]]
      BY <1>4 DEF Iterates
    <3> QED BY <3>2, <3>3
  <2> QED BY <2>1, <1>4 DEF Iterates
<1> HIDE DEF step
<1>6. f = Def(f)
  <2>1. ASSUME NEW n \in 0..L
        PROVE  f[n] = IF n = 0 THEN start ELSE More(f[n - 1])
    <3>1. CASE n = 0
      BY <3>1, <1>5
    <3>2. CASE n # 0
      <4>1. n \in 1..L
        BY <3>2, <1>1
      <4> QED BY <4>1, <3>2, <1>5
    <3> QED BY <3>1, <3>2
  <2>2. f = [n \in 0..L |-> f[n]]
    OBVIOUS
  <2> QED BY <2>1, <2>2
<1>7. after = Def(after)
  <2> HIDE DEF Def
  <2> QED BY <1>6
<1> HIDE DEF after
<1>9. after[L] = f[L]
  <2>1. after[0] = f[0]
    BY <1>1, <1>5, <1>7
  <2>2. ASSUME NEW n \in 1..L, after[n - 1] = f[n - 1] PROVE after[n] = f[n]
    <3>1. n \in 0..L /\ n # 0
      BY <1>1
    <3>2. after[n] = More(after[n - 1])
      BY <3>1, <1>7
    <3> QED BY <3>2, <2>2, <1>5
  <2>3. GoAlike(after, f, L)
    BY <2>1, <2>2 DEF GoAlike
  <2>4. AreAlike(after, f, L)
    BY <1>1, <2>3, SameAllAlong
  <2> QED BY <2>4, <1>1 DEF AreAlike
<1>10. f[L].pos > L
  <2> DEFINE T == {n \in Nat : n <= L => f[n].pos > n}
  <2>1. 0 \in T
    BY <1>5, <1>8
  <2>2. ASSUME NEW n \in Nat, n \in T PROVE n + 1 \in T
    <3> SUFFICES ASSUME n + 1 <= L PROVE f[n + 1].pos > n + 1
      OBVIOUS
    <3>1. f[n].pos > n /\ n + 1 \in 1..L /\ (n + 1) - 1 = n
      BY <1>1, <2>2
    <3>2. f[n + 1] = More(f[n]) /\ f[n] \in G
      BY <1>5, <3>1
    <3>3. /\ f[n].pos \in Nat /\ More(f[n]).pos \in Nat
          /\ f[n].pos <= L => More(f[n]).pos > f[n].pos
          /\ f[n].pos > L => More(f[n]) = f[n]
      BY <1>3, <3>2
    <3> QED BY <1>1, <3>1, <3>2, <3>3
  <2>3. Nat \subseteq T
    <3> HIDE DEF T
    <3> QED BY <2>1, <2>2, SetInduction
  <2> QED BY <2>3, <1>1
<1>11. f[L] \in G
  BY <1>1
<1> QED BY <1>2, <1>9, <1>10, <1>11 DEF L

\* A block that came whole is decoded to its text, and one that was cut to the
\* beginning of its text, unless the decoder fails.
DecodedOf(data, text, whole) ==
  /\ Decompress(data) \in Seq(Nat) \cup {Absent}
  /\ Decompress(data) # Absent => IsOf(Decompress(data), text, whole)
  /\ whole => Decompress(data) # Absent

LEMMA BlocksAreDecoded ==
  ASSUME NEW text \in Seq(Nat), NEW h, IsEncoding(text, h), Len(text) > 0,
         NEW block \in h[1], NEW data \in Prefixes(block), NEW whole \in BOOLEAN,
         whole => data = block
  PROVE  DecodedOf(data, text, whole)
<1> DEFINE G == {s \in States : Good(text, h, data, whole, s)}
           start == [pos |-> 1, out |-> <<>>, ok |-> TRUE]
<1>1. block \in Seq(Nat) /\ 1 \in 1..Len(text) /\ Len(block) > 0
  <2>1. 1 \in 1..Len(text)
    OBVIOUS
  <2>2. block \in Seq(Nat)
    BY <2>1 DEF IsEncoding
  <2> QED BY <2>1, <2>2, EncodingsHaveBytes
<1>2. PICK n \in 0..Len(block) : data = SubSeq(block, 1, n)
  BY DEF Prefixes
<1>3. /\ data \in Seq(Nat) /\ Len(data) = n
      /\ \A i \in 1..n : data[i] = block[i]
  BY <1>1, <1>2, PrefixesJoin
<1>4. start \in G
  <2>1. start \in States /\ start.pos = 1 /\ start.out = <<>> /\ start.ok
    BY DEF States
  <2>2. Before(text, 1) = <<>>
    BY DEF Before
  <2>3. BeginsAt(data, 1, block)
    BY <1>3 DEF BeginsAt
  <2>4. 1 + Len(block) > Len(data) /\ (whole => 1 + Len(block) = Len(data) + 1)
    BY <1>1, <1>3
  <2> HIDE DEF start
  <2>5. OnItsWay(text, h, data, whole, start)
    BY <1>1, <2>1, <2>2, <2>3, <2>4 DEF OnItsWay
  <2> QED BY <2>1, <2>5 DEF Good
<1>5. ASSUME NEW s \in G, s.pos <= Len(data)
      PROVE  Sequence(data, s) \in G /\ Sequence(data, s).pos > s.pos
  <2>1. GoesOn(text, h, data, whole, s, Sequence(data, s))
    BY <1>3, <1>5, SequenceStaysGood
  <2> QED BY <2>1 DEF GoesOn
<1>6. PICK s \in G : s.pos > Len(data) /\ Decompress(data) = IF s.ok THEN s.out ELSE Absent
  <2> HIDE DEF start
  <2>1. start = [pos |-> 1, out |-> <<>>, ok |-> TRUE] /\ G \subseteq States
    BY DEF start
  <2> HIDE DEF G
  <2> QED BY <1>3, <1>4, <1>5, <2>1, DecoderEnds
<1>7. Ended(text, data, whole, s)
  <2>1. ASSUME s.ok, OnItsWay(text, h, data, whole, s) PROVE Ended(text, data, whole, s)
    <3>1. PICK i \in 1..Len(text) : \E e \in h[i] :
            s.out = Before(text, i) /\ (whole => s.pos + Len(e) = Len(data) + 1)
      BY <2>1 DEF OnItsWay
    <3>2. PICK e \in h[i] :
            s.out = Before(text, i) /\ (whole => s.pos + Len(e) = Len(data) + 1)
      BY <3>1
    <3>3. e \in Seq(Nat) /\ Len(e) > 0
      <4>1. e \in Seq(Nat)
        BY DEF IsEncoding
      <4> QED BY <4>1, EncodingsHaveBytes
    <3>4. whole = FALSE
      BY <1>3, <1>6, <3>2, <3>3 DEF States
    <3>5. PICK x \in 0..Len(text) : x = i - 1
      <4>1. i - 1 \in 0..Len(text)
        OBVIOUS
      <4> QED BY <4>1
    <3>6. IsOf(s.out, text, FALSE)
      BY <3>2, <3>5, PrefixIs DEF Before
    <3> QED BY <1>6, <2>1, <3>4, <3>6 DEF Ended
  <2> QED BY <2>1 DEF Good
<1>8. s \in States /\ s.out \in Seq(Nat) /\ s.out # Absent
  BY AbsentIsNoRecord DEF States
<1>9. CASE s.ok
  BY <1>6, <1>7, <1>8, <1>9 DEF Ended, DecodedOf
<1>10. CASE ~ s.ok
  BY <1>6, <1>7, <1>8, <1>10 DEF Ended, DecodedOf
<1> QED BY <1>9, <1>10

-----------------------------------------------------------------------------
(***************************************************************************)
(* Any bytes at all give a text or nothing.                                *)
(***************************************************************************)
\* Other bytes give a text as well, or none.
LEMMA LeastIs ==
  ASSUME NEW S \in SUBSET Nat, S # {}
  PROVE  Min(S) \in S /\ \A y \in S : Min(S) <= y
<1> DEFINE R == {ss \in Nat \X Nat : ss[1] < ss[2]}
<1>1. IsWellFoundedOn(R, Nat)
  BY NatLessThanWellFounded DEF OpToRel
<1> HIDE DEF R
<1>2. PICK x \in S : \A y \in S : ~ (<<y, x>> \in R)
  BY <1>1, WFMin
<1>3. \A y \in S : x <= y
  <2> SUFFICES ASSUME NEW y \in S, ~ (x <= y) PROVE FALSE
    OBVIOUS
  <2>1. x \in Nat /\ y \in Nat /\ y < x
    OBVIOUS
  <2>2. <<y, x>> \in R
    BY <2>1 DEF R
  <2> QED BY <1>2, <2>2
<1>4. Min(S) = x
  <2>1. S \in SUBSET Int
    OBVIOUS
  <2> QED BY <2>1, <1>3, MinIs
<1> QED BY <1>3, <1>4

LEMMA SomeLengthIsRead ==
  ASSUME NEW data \in Seq(Nat), NEW pos \in Nat \ {0}, pos <= Len(data) + 1, NEW half \in Nat
  PROVE  \E v \in Nat, next \in Nat :
           /\ ReadLength(data, pos, half) = <<v, next>>
           /\ next >= pos /\ next <= Len(data) + 1
<1>1. CASE half < LenMax \/ pos > Len(data)
  <2>1. ReadLength(data, pos, half) = <<half, pos>>
    BY <1>1 DEF ReadLength
  <2> QED BY <2>1
<1>2. CASE ~ (half < LenMax \/ pos > Len(data))
  <2> DEFINE S == {k \in pos..Len(data) : data[k] # ExtMax} \cup {Len(data)}
             end == Min(S)
  <2>1. S \in SUBSET Nat /\ S # {} /\ S \subseteq pos..Len(data)
    BY <1>2
  <2>2. end \in pos..Len(data)
    <3> HIDE DEF S
    <3>1. end \in S
      BY <2>1, LeastIs
    <3> QED BY <2>1, <3>1
  <2>3. ReadLength(data, pos, half) = <<LenMax + (end - pos) * ExtMax + data[end], end + 1>>
    BY <1>2 DEF ReadLength
  <2> HIDE DEF end
  <2>4. data[end] \in Nat
    BY <2>2
  <2>5. LenMax + (end - pos) * ExtMax + data[end] \in Nat
    <3>1. PICK d \in Nat : d = end - pos
      <4>1. end - pos \in Nat
        BY <2>2
      <4> QED BY <4>1
    <3>2. d * ExtMax \in Nat /\ LenMax \in Nat
      BY SizesArePositive
    <3>3. PICK x \in Nat : x = (end - pos) * ExtMax
      BY <3>1, <3>2
    <3> QED BY <2>4, <3>2, <3>3
  <2>6. end + 1 \in Nat /\ end + 1 >= pos /\ end + 1 <= Len(data) + 1
    BY <2>2
  <2> QED BY <2>3, <2>5, <2>6
<1> QED BY <1>1, <1>2

LEMMA CopyIsBytes ==
  ASSUME NEW out \in Seq(Nat), NEW offset \in 1..(2 * Len(out)), NEW m \in Nat
  PROVE  Copy(out, offset, m) \in Seq(Nat)
<1> DEFINE S == {o \in Seq(Nat) : Len(o) >= Len(out)}
           Source(o) == o[IF offset <= Len(o) THEN Len(o) - offset + 1
                          ELSE 2 * Len(o) - offset + 1]
           More(o) == Append(o, Source(o))
           step == [k \in 1..m |-> [o \in S |-> More(o)]]
           Def(h) == [k \in 0..m |-> IF k = 0 THEN out ELSE More(h[k - 1])]
           upTo == CHOOSE h : h = Def(h)
<1>1. ASSUME NEW o \in S PROVE More(o) \in S
  <2>1. o \in Seq(Nat) /\ Len(o) \in Nat /\ Len(out) \in Nat /\ Len(o) >= Len(out)
    OBVIOUS
  <2>2. CASE offset <= Len(o)
    <3>1. Len(o) - offset + 1 \in 1..Len(o) /\ Source(o) = o[Len(o) - offset + 1]
      BY <2>1, <2>2
    <3>2. Source(o) \in Nat
      BY <2>1, <3>1
    <3> HIDE DEF Source
    <3> QED BY <2>1, <3>2
  <2>3. CASE ~ (offset <= Len(o))
    <3>1. 2 * Len(o) - offset + 1 \in 1..Len(o) /\ Source(o) = o[2 * Len(o) - offset + 1]
      BY <2>1, <2>3
    <3>2. Source(o) \in Nat
      BY <2>1, <3>1
    <3> HIDE DEF Source
    <3> QED BY <2>1, <3>2
  <2> QED BY <2>2, <2>3
<1>2. out \in S
  OBVIOUS
<1>3. Copy(out, offset, m) = upTo[m]
  BY DEF Copy, upTo, More, Source
<1>4. S \subseteq Seq(Nat)
  OBVIOUS
<1> HIDE DEF More, S
<1>5. PICK f \in [0..m -> S] : Iterates(f, step, out, m)
  <2>1. step \in [1..m -> [S -> S]]
    BY <1>1
  <2> HIDE DEF step
  <2> QED BY <1>2, <2>1, StepsCanBeRepeated
<1>6. ASSUME NEW k \in 1..m PROVE f[k] = More(f[k - 1])
  <2>1. k - 1 \in 0..m
    OBVIOUS
  <2>2. f[k - 1] \in S
    BY <2>1
  <2>3. f[k] = step[k][f[k - 1]]
    BY <1>5 DEF Iterates
  <2> QED BY <2>2, <2>3
<1> HIDE DEF step
<1>7. f = Def(f)
  <2>1. ASSUME NEW k \in 0..m PROVE f[k] = IF k = 0 THEN out ELSE More(f[k - 1])
    <3>1. CASE k = 0
      BY <3>1, <1>5 DEF Iterates
    <3>2. CASE k # 0
      BY <3>2, <1>6
    <3> QED BY <3>1, <3>2
  <2>2. f = [k \in 0..m |-> f[k]]
    OBVIOUS
  <2> QED BY <2>1, <2>2
<1>8. upTo = Def(upTo)
  <2> HIDE DEF Def
  <2> QED BY <1>7
<1> HIDE DEF upTo
<1>9. upTo[m] = f[m]
  <2>1. upTo[0] = f[0]
    BY <1>5, <1>8 DEF Iterates
  <2>2. ASSUME NEW k \in 1..m, upTo[k - 1] = f[k - 1] PROVE upTo[k] = f[k]
    <3>1. k \in 0..m /\ k # 0
      OBVIOUS
    <3>2. upTo[k] = More(upTo[k - 1])
      BY <3>1, <1>8
    <3> QED BY <3>2, <2>2, <1>6
  <2>3. GoAlike(upTo, f, m)
    BY <2>1, <2>2 DEF GoAlike
  <2>4. AreAlike(upTo, f, m)
    BY <2>3, SameAllAlong
  <2> QED BY <2>4 DEF AreAlike
<1> QED BY <1>3, <1>4, <1>9

AdvancesTyped(data, s, t) ==
  t \in States /\ t.pos > s.pos /\ (t.ok \/ t.pos > Len(data))

LEMMA SequenceIsTyped ==
  ASSUME NEW data \in Seq(Nat), NEW s \in States, s.ok, s.pos <= Len(data)
  PROVE  AdvancesTyped(data, s, Sequence(data, s))
<1>1. PICK pos \in Nat \ {0}, out \in Seq(Nat) :
        pos = s.pos /\ s = [pos |-> pos, out |-> out, ok |-> TRUE]
  BY DEF States
<1>2. LiteralHalf(data[pos]) \in Nat /\ MatchHalf(data[pos]) \in Nat
  <2>1. PICK t \in Nat : t = data[pos]
    <3>1. data[pos] \in Nat
      BY <1>1
    <3> QED BY <3>1
  <2>2. PICK d \in Nat \ {0} : d = LenMax + 1
    BY SizesArePositive
  <2>3. t \div d \in Nat /\ t % d \in Nat
    OBVIOUS
  <2> QED BY <2>1, <2>2, <2>3 DEF LiteralHalf, MatchHalf
<1>3. PICK l \in Nat, from \in Nat :
        /\ ReadLength(data, pos + 1, LiteralHalf(data[pos])) = <<l, from>>
        /\ from >= pos + 1 /\ from <= Len(data) + 1
  <2>1. pos + 1 \in Nat \ {0} /\ pos + 1 <= Len(data) + 1
    BY <1>1
  <2> QED BY <1>2, <2>1, SomeLengthIsRead
<1>4. PICK at \in Nat : at = from + l /\ at > pos
  <2>1. from + l \in Nat /\ from + l > pos
    BY <1>3
  <2> QED BY <2>1
<1>5. PICK grown \in Seq(Nat) : grown = out \o Slice(data, from, l)
  <2>1. from \in Nat \ {0}
    BY <1>3
  <2>2. Slice(data, from, l) \in Seq(Nat)
    BY <1>3, <2>1, SliceIs
  <2>3. out \o Slice(data, from, l) \in Seq(Nat)
    BY <2>2
  <2> QED BY <2>3
<1>6. SequenceReads(data, pos, s, at, grown)
  <2>1. pos \in Nat
    OBVIOUS
  <2> QED BY <2>1, <1>1, <1>3, <1>4, <1>5, SequenceIs
<1>7. ASSUME NEW next \in Nat, next > pos, NEW o \in Seq(Nat),
             Sequence(data, s) = [pos |-> next, out |-> o, ok |-> TRUE]
      PROVE  AdvancesTyped(data, s, Sequence(data, s))
  <2>1. next \in Nat \ {0}
    BY <1>7
  <2> DEFINE t == Sequence(data, s)
  <2>2. t.pos = next /\ t.out = o /\ t.ok
    BY <1>7
  <2>3. t \in States
    BY <1>7, <2>1 DEF States
  <2> HIDE DEF t
  <2> QED BY <1>1, <1>7, <2>2, <2>3 DEF AdvancesTyped, t
<1>8. ASSUME Sequence(data, s) = Broken(data)
      PROVE  AdvancesTyped(data, s, Sequence(data, s))
  <2>1. Len(data) + 1 \in Nat \ {0} /\ Len(data) + 1 > s.pos /\ <<>> \in Seq(Nat)
    BY <1>1
  <2>2. Broken(data).pos = Len(data) + 1 /\ Broken(data) \in States
    BY <2>1 DEF States, Broken
  <2>3. Len(data) + 1 > Len(data)
    OBVIOUS
  <2> QED BY <1>8, <2>1, <2>2, <2>3 DEF AdvancesTyped
<1>9. CASE at > Len(data)
  BY <1>4, <1>6, <1>7, <1>9 DEF SequenceReads
<1>10. CASE at = Len(data)
  BY <1>6, <1>8, <1>10 DEF SequenceReads
<1>11. CASE at < Len(data)
  <2>1. PICK v \in Nat, next \in Nat :
          /\ ReadLength(data, at + 2, MatchHalf(data[pos])) = <<v, next>>
          /\ next >= at + 2 /\ next <= Len(data) + 1
    <3>1. at + 2 \in Nat \ {0} /\ at + 2 <= Len(data) + 1
      BY <1>11
    <3> QED BY <1>2, <3>1, SomeLengthIsRead
  <2>2. PICK o : o = data[at] + data[at + 1] * ByteSize
    OBVIOUS
  <2>3. Sequence(data, s) =
          IF o \notin 1..(2 * Len(grown)) THEN Broken(data)
          ELSE [pos |-> next, out |-> Copy(grown, o, v + MinMatch), ok |-> TRUE]
    <3> DEFINE match == ReadLength(data, at + 2, MatchHalf(data[pos]))
    <3>1. match[1] = v /\ match[2] = next
      BY <2>1
    <3>2. Sequence(data, s) =
            IF o \notin 1..(2 * Len(grown)) THEN Broken(data)
            ELSE [pos |-> match[2], out |-> Copy(grown, o, match[1] + MinMatch), ok |-> TRUE]
      BY <1>6, <1>11, <2>2 DEF SequenceReads
    <3> HIDE DEF match
    <3> QED BY <3>1, <3>2
  <2>4. CASE o \in 1..(2 * Len(grown))
    <3>1. v + MinMatch \in Nat
      BY SizesArePositive
    <3>2. Copy(grown, o, v + MinMatch) \in Seq(Nat)
      BY <2>4, <3>1, CopyIsBytes
    <3>3. next > pos
      BY <2>1, <1>4
    <3> QED BY <2>3, <2>4, <3>2, <3>3, <1>7
  <2>5. CASE o \notin 1..(2 * Len(grown))
    BY <2>3, <2>5, <1>8
  <2> QED BY <2>4, <2>5
<1>12. Len(data) \in Nat
  OBVIOUS
<1> QED BY <1>9, <1>10, <1>11, <1>12

LEMMA BytesGiveBytes ==
  ASSUME NEW data \in Seq(Nat)
  PROVE  Decompress(data) \in Seq(Nat) \cup {Absent}
<1> DEFINE G == {s \in States : s.ok \/ s.pos > Len(data)}
           start == [pos |-> 1, out |-> <<>>, ok |-> TRUE]
<1>1. start \in G
  BY DEF States
<1>2. ASSUME NEW s \in G, s.pos <= Len(data)
      PROVE  Sequence(data, s) \in G /\ Sequence(data, s).pos > s.pos
  <2>1. s \in States /\ s.ok
    BY <1>2 DEF States
  <2>2. AdvancesTyped(data, s, Sequence(data, s))
    BY <2>1, <1>2, SequenceIsTyped
  <2> QED BY <2>2 DEF AdvancesTyped
<1>3. G \subseteq States
  OBVIOUS
<1> HIDE DEF G
<1>4. PICK s \in G : Decompress(data) = IF s.ok THEN s.out ELSE Absent
  BY <1>1, <1>2, <1>3, DecoderEnds
<1>5. s.out \in Seq(Nat)
  BY <1>3 DEF States
<1> QED BY <1>4, <1>5

-----------------------------------------------------------------------------
(***************************************************************************)
(* What arrives of a text.                                                 *)
(***************************************************************************)
LEMMA PicturesAreTexts ==
  ASSUME NEW text \in Pictures
  PROVE  text \in Seq(Nat) /\ Len(text) > 0
<1>1. text \in Seq(0..ExtMax) /\ text # <<>>
  BY PicturesAreBytes
<1>2. 0..ExtMax \subseteq Nat
  BY SizesArePositive
<1>3. ASSUME NEW S, S \subseteq Nat, NEW s \in Seq(S), s # <<>>
      PROVE  s \in Seq(Nat) /\ Len(s) > 0
  <2>1. Len(s) \in Nat /\ s = [i \in 1..Len(s) |-> s[i]]
    OBVIOUS
  <2>2. \A i \in 1..Len(s) : s[i] \in Nat
    <3>1. \A i \in 1..Len(s) : s[i] \in S
      OBVIOUS
    <3> QED BY <3>1, <1>3
  <2>3. [i \in 1..Len(s) |-> s[i]] \in Seq(Nat)
    BY <2>1, <2>2
  <2> QED BY <1>3, <2>1, <2>3
<1> QED BY <1>1, <1>2, <1>3

LEMMA RoomIsByte ==
  ASSUME NEW fl, fl.rooms \in Floors, NEW x \in Int, NEW y \in Int
  PROVE  RoomOn(fl, x, y) \in Nat
<1>1. fl.rooms[<<x, y>>] \in 0..ExtMax \/ <<x, y>> \notin DOMAIN fl.rooms
  BY FloorsAreOfCells
<1> QED BY <1>1, SizesArePositive DEF RoomOn

\* The rooms of an outline, row by row.
LEMMA OutlinesAreTexts ==
  ASSUME NEW fl, fl.rooms \in Floors, NEW r \in Outlines
  PROVE  /\ OutlineText(fl, r) \in Seq(Nat) /\ Len(OutlineText(fl, r)) = r.w * r.h
         /\ Len(OutlineText(fl, r)) > 0
<1>1. PICK x \in Int, y \in Int, w \in Nat \ {0}, h \in Nat \ {0} :
        x = r.x /\ y = r.y /\ w = r.w /\ h = r.h
  BY RectsAreOfCells
<1>2. PICK n \in Nat : n = w * h /\ n > 0
  <2>1. w * h \in Nat /\ w * h > 0
    OBVIOUS
  <2> QED BY <2>1
<1>3. ASSUME NEW k \in 1..n
      PROVE  RoomOn(fl, x + ((k - 1) % w), y + ((k - 1) \div w)) \in Nat
  <2>1. x + ((k - 1) % w) \in Int /\ y + ((k - 1) \div w) \in Int
    OBVIOUS
  <2> QED BY <2>1, RoomIsByte
<1>4. OutlineText(fl, r) = [k \in 1..n |-> RoomOn(fl, x + ((k - 1) % w), y + ((k - 1) \div w))]
  BY <1>1, <1>2 DEF OutlineText
<1>5. \A k \in 1..n : OutlineText(fl, r)[k] \in Nat
  BY <1>3, <1>4
<1>6. OutlineText(fl, r) \in Seq(Nat) /\ Len(OutlineText(fl, r)) = n
  <2> DEFINE t == OutlineText(fl, r)
  <2>1. DOMAIN t = 1..n /\ t = [k \in 1..n |-> t[k]]
    BY <1>4
  <2>2. \A k \in 1..n : t[k] \in Nat
    BY <1>5
  <2> HIDE DEF t
  <2>3. [k \in 1..n |-> t[k]] \in Seq(Nat) /\ Len([k \in 1..n |-> t[k]]) = n
    BY <2>2
  <2> QED BY <2>1, <2>3 DEF t
<1> QED BY <1>1, <1>2, <1>6

\* What is read of a text: the text or its beginning, unless it is not sure.
IsArrival(text, a) ==
  /\ a.data \in Seq(Nat) \cup {Absent}
  /\ a.empty \in BOOLEAN /\ a.whole \in BOOLEAN /\ a.sure \in BOOLEAN
  /\ a.sure /\ a.data # Absent => IsOf(a.data, text, a.whole)
  /\ a.whole => a.data # Absent /\ ~ a.empty

LEMMA BytesAreArrival ==
  ASSUME NEW text \in Seq(Nat), Len(text) > 0,
         NEW block \in Encodings(text) \cup {text}, NEW bytes \in Prefixes(block)
  PROVE  IsArrival(text, Arrival(text, block, bytes))
<1>1. PICK h : IsEncoding(text, h) /\ Encodings(text) = h[1]
  BY EncodingsAre
<1>2. block \in Seq(Nat) /\ Len(block) > 0
  <2>1. 1 \in 1..Len(text)
    OBVIOUS
  <2>2. block \in h[1] => block \in Seq(Nat) /\ Len(block) > 0
    <3>1. block \in h[1] => block \in Seq(Nat)
      BY <1>1, <2>1 DEF IsEncoding
    <3> QED BY <1>1, <2>1, <3>1, EncodingsHaveBytes
  <2> QED BY <1>1, <2>2
<1>3. bytes \in Seq(Nat)
  <2>1. PICK n \in 0..Len(block) : bytes = SubSeq(block, 1, n)
    BY DEF Prefixes
  <2> QED BY <1>2, <2>1, PrefixesJoin
<1> DEFINE a == Arrival(text, block, bytes)
           whole == bytes = block
<1>4. /\ a.data = Unpack(bytes, Len(text)) /\ a.empty = (bytes = <<>>) /\ a.whole = whole
      /\ a.sure = IF Len(bytes) = Len(text) THEN bytes = text ELSE block # text
  BY DEF Arrival
<1> HIDE DEF a
<1>5. a.empty \in BOOLEAN /\ a.whole \in BOOLEAN /\ a.sure \in BOOLEAN
  BY <1>4
<1>6. a.whole => ~ a.empty
  <2>1. block # <<>>
    BY <1>2
  <2> QED BY <2>1, <1>4, Zenon
<1> HIDE DEF whole
<1>7. ASSUME Len(bytes) = Len(text) PROVE IsArrival(text, a)
  <2>1. a.data = bytes /\ (a.sure <=> bytes = text)
    BY <1>4, <1>7 DEF Unpack
  <2>2. a.data \in Seq(Nat) /\ a.data # Absent
    BY <2>1, <1>3, AbsentIsNoRecord
  <2>3. a.sure => IsOf(a.data, text, a.whole)
    <3>1. PICK x \in 0..Len(text) : x = Len(text)
      OBVIOUS
    <3>2. SubSeq(text, 1, x) = text
      BY <3>1, PrefixesJoin
    <3> QED BY <1>5, <2>1, <3>2, PrefixIs
  <2> QED BY <1>5, <1>6, <2>2, <2>3, Zenon DEF IsArrival
<1>8. ASSUME Len(bytes) # Len(text) PROVE IsArrival(text, a)
  <2>1. a.data = Decompress(bytes) /\ (a.sure <=> block # text)
    BY <1>4, <1>8 DEF Unpack
  <2>2. a.data \in Seq(Nat) \cup {Absent}
    BY <2>1, <1>3, BytesGiveBytes
  <2>3. ASSUME block # text
        PROVE  /\ a.data # Absent => IsOf(a.data, text, a.whole)
               /\ a.whole => a.data # Absent
    <3>1. block \in h[1] /\ a.whole \in BOOLEAN /\ (a.whole => bytes = block)
      BY <1>1, <1>4, <1>5, <2>3 DEF whole
    <3>2. DecodedOf(bytes, text, a.whole)
      BY <1>1, <3>1, BlocksAreDecoded
    <3> QED BY <2>1, <3>2 DEF DecodedOf
  <2>4. ASSUME block = text PROVE ~ a.whole /\ ~ a.sure
    <3>1. bytes # block
      BY <1>8, <2>4
    <3> QED BY <1>4, <2>1, <2>4, <3>1 DEF whole
  <2> QED BY <1>5, <1>6, <2>1, <2>2, <2>3, <2>4, Zenon DEF IsArrival
<1> QED BY <1>7, <1>8 DEF a

LEMMA ArrivalsAre ==
  ASSUME NEW text \in Seq(Nat), Len(text) > 0,
         text \in Pictures \cup {OutlineText(fl, r) : fl \in FloorStates, r \in Outlines},
         NEW a \in Arrivals[text]
  PROVE  IsArrival(text, a)
<1>1. Arrivals[text] =
        UNION {{Arrival(text, block, bytes) : bytes \in Prefixes(block)} :
                 block \in Encodings(text) \cup {text}}
  BY DEF Arrivals
<1>2. PICK block \in Encodings(text) \cup {text} :
        \E bytes \in Prefixes(block) : a = Arrival(text, block, bytes)
  BY <1>1
<1>3. PICK bytes \in Prefixes(block) : a = Arrival(text, block, bytes)
  BY <1>2
<1> QED BY <1>3, BytesAreArrival

-----------------------------------------------------------------------------
(***************************************************************************)
(* Frames and poses.                                                       *)
(***************************************************************************)
HasRooms == mapData # Absent /\ mapData.outline # Absent

\* The outline shown is that of the last backup whose outline could be read.
OutlineInv ==
  /\ outlined # Absent => HasRooms
  /\ HasRooms =>
       /\ outlined.rooms \in Floors /\ outlined.rect \in Outlines
       /\ mapData.outline.rect = outlined.rect /\ mapData.zones = outlined.zones
       /\ outlined.sure =>
            IsOf(mapData.outline.rooms, OutlineText(outlined, outlined.rect), outlined.whole)

\* The robot's pixel is that of its cell.
PoseInv ==
  robotPixel # Absent =>
    /\ pose.rooms \in Floors /\ pose.cell \in DOMAIN pose.rooms
    /\ pose.grid \in Grids
    /\ robotPixel = <<pose.cell[1] - pose.grid.x, pose.cell[2] - pose.grid.y>>
    /\ robotPixel \in Cells(pose.grid)

MapTyped ==
  /\ floor \in FloorStates
  /\ mapData \in MapRecords \cup {Absent}

\* The invariant: what is shown, from one backup, and the picture decoded.
MapInv == MapTyped /\ OutlineInv /\ PoseInv /\ PictureIsDecoded

\* What arrives of the rooms of a frame; r is the rectangle of its outline.
RoomsAre(r, rooms) ==
  IF r = Absent THEN rooms = NoRooms ELSE IsArrival(OutlineText(floor, r), rooms)

\* What a frame does.
FrameIs(g, text, r, pixels, rooms) ==
  LET f == [grid |-> g, pixels |-> pixels, rect |-> r, rooms |-> rooms,
            zones |-> IF r = Absent THEN {} ELSE floor.zones]
      new == Extract(f)
  IN  /\ mapData' = IF new = Absent THEN mapData ELSE KeepOutline(mapData, new)
      /\ last' = IF PartShows(pixels)
                 THEN [grid |-> g, text |-> text, whole |-> pixels.whole,
                       sure |-> pixels.sure]
                 ELSE last
      /\ outlined' = IF PartShows(pixels) /\ PartShows(rooms)
                     THEN [rect |-> r, rooms |-> floor.rooms, zones |-> floor.zones,
                           whole |-> rooms.whole, sure |-> rooms.sure]
                     ELSE outlined
      /\ UNCHANGED <<floor, robotPixel, pose>>

LEMMA FrameArrives ==
  ASSUME MapTyped, HandleFrame
  PROVE  \E g \in Grids, text \in Pictures, r \in Outlines \cup {Absent} :
           \E pixels, rooms :
             /\ IsArrival(text, pixels) /\ RoomsAre(r, rooms)
             /\ FrameIs(g, text, r, pixels, rooms)
<1>1. PICK g \in Grids, text \in Pictures, r \in Outlines \cup {Absent} :
        \E pixels \in Arrivals[text],
           rooms \in IF r = Absent THEN {NoRooms} ELSE Arrivals[OutlineText(floor, r)] :
          LET f == [grid |-> g, pixels |-> pixels, rect |-> r, rooms |-> rooms,
                    zones |-> IF r = Absent THEN {} ELSE floor.zones]
              new == Extract(f)
          IN  /\ cuts + CutParts(f) <= MaxCuts
              /\ cuts' = cuts + CutParts(f)
              /\ mapData' = IF new = Absent THEN mapData ELSE KeepOutline(mapData, new)
              /\ last' = IF PartShows(pixels)
                         THEN [grid |-> g, text |-> text, whole |-> pixels.whole,
                               sure |-> pixels.sure]
                         ELSE last
              /\ outlined' = IF PartShows(pixels) /\ PartShows(rooms)
                             THEN [rect |-> r, rooms |-> floor.rooms, zones |-> floor.zones,
                                   whole |-> rooms.whole, sure |-> rooms.sure]
                             ELSE outlined
              /\ UNCHANGED <<floor, robotPixel, pose>>
  BY DEF HandleFrame
<1>2. PICK pixels \in Arrivals[text],
           rooms \in IF r = Absent THEN {NoRooms} ELSE Arrivals[OutlineText(floor, r)] :
          LET f == [grid |-> g, pixels |-> pixels, rect |-> r, rooms |-> rooms,
                    zones |-> IF r = Absent THEN {} ELSE floor.zones]
              new == Extract(f)
          IN  /\ cuts + CutParts(f) <= MaxCuts
              /\ cuts' = cuts + CutParts(f)
              /\ mapData' = IF new = Absent THEN mapData ELSE KeepOutline(mapData, new)
              /\ last' = IF PartShows(pixels)
                         THEN [grid |-> g, text |-> text, whole |-> pixels.whole,
                               sure |-> pixels.sure]
                         ELSE last
              /\ outlined' = IF PartShows(pixels) /\ PartShows(rooms)
                             THEN [rect |-> r, rooms |-> floor.rooms, zones |-> floor.zones,
                                   whole |-> rooms.whole, sure |-> rooms.sure]
                             ELSE outlined
              /\ UNCHANGED <<floor, robotPixel, pose>>
  BY <1>1
<1>3. IsArrival(text, pixels)
  <2>1. text \in Seq(Nat) /\ Len(text) > 0
    BY PicturesAreTexts
  <2>2. text \in Pictures \cup {OutlineText(fl, rr) : fl \in FloorStates, rr \in Outlines}
    OBVIOUS
  <2> QED BY <2>1, <2>2, ArrivalsAre
<1>4. RoomsAre(r, rooms)
  <2>1. CASE r = Absent
    BY <2>1 DEF RoomsAre
  <2>2. CASE r # Absent
    <3>1. r \in Outlines /\ floor \in FloorStates /\ floor.rooms \in Floors
          /\ rooms \in Arrivals[OutlineText(floor, r)]
      BY <2>2 DEF MapTyped, FloorStates
    <3>2. PICK t \in Seq(Nat) : t = OutlineText(floor, r) /\ Len(t) > 0
      BY <3>1, OutlinesAreTexts
    <3>3. t \in Pictures \cup {OutlineText(fl, rr) : fl \in FloorStates, rr \in Outlines}
      BY <3>1, <3>2
    <3>4. rooms \in Arrivals[t]
      BY <3>1, <3>2
    <3>5. IsArrival(t, rooms)
      BY <3>2, <3>3, <3>4, ArrivalsAre
    <3> QED BY <2>2, <3>2, <3>5 DEF RoomsAre
  <2> QED BY <2>1, <2>2
<1>5. FrameIs(g, text, r, pixels, rooms)
  BY <1>2 DEF FrameIs
<1> QED BY <1>3, <1>4, <1>5

\* What a frame whose pixels could be read does.
FrameIsRead(g, text, pixels, r, rooms, o, z) ==
  /\ pixels.data \in Seq(Nat)
  /\ pixels.sure => IsOf(pixels.data, text, pixels.whole)
  /\ z \in Zones \cup {{}}
  /\ IF PartShows(rooms)
     THEN /\ r \in Outlines /\ rooms.data \in Seq(Nat) /\ z = floor.zones
          /\ o = [rect |-> r, rooms |-> rooms.data]
          /\ rooms.sure => IsOf(rooms.data, OutlineText(floor, r), rooms.whole)
     ELSE o = Absent
  /\ mapData' = KeepOutline(mapData, [grid |-> g, raw |-> pixels.data, outline |-> o, zones |-> z])
  /\ last' = [grid |-> g, text |-> text, whole |-> pixels.whole, sure |-> pixels.sure]
  /\ outlined' = IF PartShows(rooms)
                 THEN [rect |-> r, rooms |-> floor.rooms, zones |-> floor.zones,
                       whole |-> rooms.whole, sure |-> rooms.sure]
                 ELSE outlined
  /\ UNCHANGED <<floor, robotPixel, pose>>

LEMMA RefusedOrRead ==
  ASSUME MapTyped, NEW g \in Grids, NEW text \in Pictures, NEW r \in Outlines \cup {Absent},
         NEW pixels, NEW rooms, IsArrival(text, pixels), RoomsAre(r, rooms),
         FrameIs(g, text, r, pixels, rooms)
  PROVE  \/ UNCHANGED <<floor, mapData, robotPixel, last, outlined, pose>>
         \/ \E o, z : FrameIsRead(g, text, pixels, r, rooms, o, z)
<1> DEFINE zz == IF r = Absent THEN {} ELSE floor.zones
           f == [grid |-> g, pixels |-> pixels, rect |-> r, rooms |-> rooms, zones |-> zz]
           o == OutlineIn(f)
           z == IF rooms.data = Absent THEN {} ELSE zz
           new == [grid |-> g, raw |-> pixels.data, outline |-> o, zones |-> z]
<1>1. /\ f.grid = g /\ f.pixels = pixels /\ f.rect = r /\ f.rooms = rooms /\ f.zones = zz
  OBVIOUS
<1>2. /\ mapData' = IF Extract(f) = Absent THEN mapData ELSE KeepOutline(mapData, Extract(f))
      /\ last' = IF PartShows(pixels)
                 THEN [grid |-> g, text |-> text, whole |-> pixels.whole,
                       sure |-> pixels.sure]
                 ELSE last
      /\ outlined' = IF PartShows(pixels) /\ PartShows(rooms)
                     THEN [rect |-> r, rooms |-> floor.rooms, zones |-> floor.zones,
                           whole |-> rooms.whole, sure |-> rooms.sure]
                     ELSE outlined
      /\ UNCHANGED <<floor, robotPixel, pose>>
  BY DEF FrameIs
<1> HIDE DEF f
<1>3. PartShows(pixels) <=> ~ pixels.empty /\ pixels.data # Absent
  BY Zenon DEF PartShows, IsArrival
<1>4. PartShows(rooms) <=> ~ rooms.empty /\ rooms.data # Absent
  <2>1. CASE r = Absent
    <3>1. rooms.empty
      BY <2>1 DEF RoomsAre, NoRooms
    <3> QED BY <3>1 DEF PartShows
  <2>2. CASE r # Absent
    BY <2>2, Zenon DEF PartShows, RoomsAre, IsArrival
  <2> QED BY <2>1, <2>2
<1>5. CASE ~ PartShows(pixels)
  <2>1. Extract(f) = Absent
    BY <1>1, <1>3, <1>5 DEF Extract
  <2> QED BY <1>2, <1>5, <2>1
<1>6. CASE PartShows(pixels)
  <2>1. Extract(f) = new
    BY <1>1, <1>3, <1>6 DEF Extract
  <2>2. pixels.data \in Seq(Nat) /\ (pixels.sure => IsOf(pixels.data, text, pixels.whole))
    BY <1>3, <1>6 DEF IsArrival
  <2>3. PartShows(rooms) => r \in Outlines /\ r # Absent /\ rooms.data \in Seq(Nat)
    <3>1. PartShows(rooms) => r # Absent
      BY <1>4 DEF RoomsAre, NoRooms
    <3> QED BY <3>1, <1>4 DEF RoomsAre, IsArrival
  <2>4. o = IF PartShows(rooms) THEN [rect |-> r, rooms |-> rooms.data] ELSE Absent
    BY <1>1, <1>4 DEF OutlineIn
  <2>5. floor.zones \in Zones
    BY DEF MapTyped, FloorStates
  <2>6. z \in Zones \cup {{}} /\ (PartShows(rooms) => z = floor.zones)
    BY <1>4, <2>3, <2>5
  <2> HIDE DEF o, z
  <2>7. new \in MapRecords
    <3>1. o \in OutlineRecords \cup {Absent}
      BY <2>3, <2>4 DEF OutlineRecords
    <3> QED BY <2>2, <2>6, <3>1 DEF MapRecords
  <2>8. Extract(f) # Absent
    BY <2>1, <2>7, AbsentIsNoRecord
  <2>9. mapData' = KeepOutline(mapData, new)
    BY <1>2, <2>1, <2>8
  <2>10. PartShows(rooms) /\ rooms.sure => IsOf(rooms.data, OutlineText(floor, r), rooms.whole)
    BY <1>4, <2>3 DEF RoomsAre, IsArrival
  <2>11. FrameIsRead(g, text, pixels, r, rooms, o, z)
    BY <1>2, <1>6, <2>2, <2>3, <2>4, <2>6, <2>9, <2>10, Zenon DEF FrameIsRead
  <2> QED BY <2>11
<1> QED BY <1>5, <1>6

\* A frame whose pixels could be read keeps what is shown together.
LEMMA FrameKeeps ==
  ASSUME MapInv, NEW g \in Grids, NEW text \in Pictures, NEW r \in Outlines \cup {Absent},
         NEW pixels, NEW rooms, NEW o, NEW z,
         FrameIsRead(g, text, pixels, r, rooms, o, z)
  PROVE  MapInv'
<1> DEFINE raw == pixels.data
           whole == pixels.whole
           sure == pixels.sure
           new == [grid |-> g, raw |-> raw, outline |-> o, zones |-> z]
           backup == PartShows(rooms)
<1>1. /\ mapData' = KeepOutline(mapData, new)
      /\ last' = [grid |-> g, text |-> text, whole |-> whole, sure |-> sure]
      /\ raw \in Seq(Nat) /\ (sure => IsOf(raw, text, whole))
      /\ floor' = floor /\ robotPixel' = robotPixel /\ pose' = pose
      /\ z \in Zones \cup {{}}
  BY DEF FrameIsRead
<1>2. backup => /\ r \in Outlines /\ rooms.data \in Seq(Nat) /\ z = floor.zones
                /\ o = [rect |-> r, rooms |-> rooms.data]
                /\ rooms.sure => IsOf(rooms.data, OutlineText(floor, r), rooms.whole)
                /\ outlined' = [rect |-> r, rooms |-> floor.rooms, zones |-> floor.zones,
                                whole |-> rooms.whole, sure |-> rooms.sure]
  <2>1. ASSUME PartShows(rooms)
        PROVE  /\ r \in Outlines /\ rooms.data \in Seq(Nat) /\ z = floor.zones
               /\ o = [rect |-> r, rooms |-> rooms.data]
               /\ rooms.sure => IsOf(rooms.data, OutlineText(floor, r), rooms.whole)
               /\ outlined' = [rect |-> r, rooms |-> floor.rooms, zones |-> floor.zones,
                               whole |-> rooms.whole, sure |-> rooms.sure]
    BY <2>1, Zenon DEF FrameIsRead
  <2> QED BY <2>1, Zenon
<1>3. ~ backup => o = Absent /\ outlined' = outlined
  BY DEF FrameIsRead
<1>4. floor \in FloorStates /\ floor.rooms \in Floors
  BY DEF MapInv, MapTyped, FloorStates
<1>5. backup => o \in OutlineRecords /\ o # Absent
  BY <1>2, AbsentIsNoRecord DEF OutlineRecords
<1>6. mapData \in MapRecords \cup {Absent} /\ OutlineInv
  BY DEF MapInv, MapTyped
<1> HIDE DEF raw, whole, sure, backup
<1>7. CASE mapData # Absent /\ ~ backup
  <2>1. mapData' = [grid |-> g, raw |-> raw, outline |-> mapData.outline, zones |-> mapData.zones]
    BY <1>1, <1>3, <1>7 DEF KeepOutline
  <2>2. mapData \in MapRecords
    BY <1>6, <1>7
  <2>3. mapData.outline \in OutlineRecords \cup {Absent} /\ mapData.zones \in Zones \cup {{}}
    BY <2>2 DEF MapRecords
  <2>4. mapData' \in MapRecords
    BY <1>1, <2>1, <2>3 DEF MapRecords
  <2>5. /\ mapData'.grid = g /\ mapData'.raw = raw
        /\ mapData'.outline = mapData.outline /\ mapData'.zones = mapData.zones
        /\ mapData' # Absent
    BY <2>1, <2>4, AbsentIsNoRecord
  <2>6. outlined' = outlined
    BY <1>3, <1>7
  <2>7. OutlineInv'
    BY <1>6, <1>7, <2>5, <2>6 DEF OutlineInv, HasRooms
  <2>8. PictureIsDecoded'
    BY <1>1, <2>5 DEF PictureIsDecoded
  <2> QED BY <1>1, <1>4, <2>4, <2>7, <2>8 DEF MapInv, MapTyped, PoseInv
<1>8. CASE ~ (mapData # Absent /\ ~ backup)
  <2>1. mapData' = new
    <3>1. mapData = Absent \/ new.outline # Absent
      BY <1>5, <1>8
    <3> QED BY <1>1, <3>1 DEF KeepOutline
  <2>2. o \in OutlineRecords \cup {Absent} /\ z \in Zones \cup {{}}
    BY <1>1, <1>3, <1>5
  <2>3. new \in MapRecords
    BY <1>1, <2>2 DEF MapRecords
  <2>4. /\ mapData'.grid = g /\ mapData'.raw = raw /\ mapData' \in MapRecords
        /\ mapData'.outline = o /\ mapData'.zones = z
        /\ mapData' # Absent
    BY <2>1, <2>3, AbsentIsNoRecord
  <2>5. OutlineInv'
    <3>1. CASE backup
      <4>1. /\ o.rect = r /\ o.rooms = rooms.data /\ o # Absent /\ z = floor.zones
            /\ r \in Outlines
            /\ rooms.sure => IsOf(rooms.data, OutlineText(floor, r), rooms.whole)
        BY <1>2, <1>5, <3>1
      <4> DEFINE new2 == [rect |-> r, rooms |-> floor.rooms, zones |-> floor.zones,
                          whole |-> rooms.whole, sure |-> rooms.sure]
      <4>2. /\ new2.rect = r /\ new2.rooms = floor.rooms /\ new2.zones = floor.zones
            /\ new2.whole = rooms.whole /\ new2.sure = rooms.sure
            /\ new2 = outlined'
        BY <1>2, <3>1
      <4>3. OutlineText(new2, r) = OutlineText(floor, r)
        BY <4>2 DEF OutlineText, RoomOn
      <4> HIDE DEF new2
      <4>4. /\ outlined'.rect = r /\ outlined'.rooms = floor.rooms
            /\ outlined'.zones = floor.zones
            /\ outlined'.sure =>
                 IsOf(rooms.data, OutlineText(outlined', r), outlined'.whole)
        BY <4>1, <4>2, <4>3
      <4> QED BY <1>4, <2>4, <4>1, <4>4 DEF OutlineInv, HasRooms
    <3>2. CASE ~ backup
      <4>1. mapData = Absent /\ o = Absent /\ outlined' = outlined
        BY <1>3, <1>8, <3>2
      <4>2. outlined = Absent
        BY <4>1, <1>6 DEF OutlineInv, HasRooms
      <4> QED BY <4>1, <4>2, <2>4 DEF OutlineInv, HasRooms
    <3> QED BY <3>1, <3>2
  <2>6. PictureIsDecoded'
    BY <1>1, <2>4 DEF PictureIsDecoded
  <2> QED BY <1>1, <1>4, <2>4, <2>5, <2>6 DEF MapInv, MapTyped, PoseInv
<1> QED BY <1>7, <1>8

LEMMA InitIsTyped ==
  ASSUME MapInit
  PROVE  MapInv
BY DEF MapInit, MapInv, MapTyped, OutlineInv, PoseInv, PictureIsDecoded, HasRooms

\* The pixel of a cell's centre is the cell, counted from the grid's corner.
LEMMA PixelOfCell ==
  ASSUME NEW m \in MapRecords, NEW i \in Int, NEW j \in Int
  PROVE  PoseToPixel(m, <<i * Res, j * Res>>) =
           IF <<i - m.grid.x, j - m.grid.y>> \in Cells(m.grid)
           THEN <<i - m.grid.x, j - m.grid.y>> ELSE Absent
<1>1. m.grid.x \in Int /\ m.grid.y \in Int
  BY RectsAreOfCells DEF MapRecords
<1>2. PICK x \in Int, y \in Int : x = m.grid.x /\ y = m.grid.y
  BY <1>1
<1>3. PICK a \in Int, b \in Int : a = i - x /\ b = j - y
  OBVIOUS
<1>4. i * Res - x * Res = a * Res /\ j * Res - y * Res = b * Res
  BY <1>3, SizesArePositive
<1>5. Round(a * Res, Res) = a /\ Round(b * Res, Res) = b
  BY RoundOfProduct, SizesArePositive
<1>6. /\ Round(i * Res - m.grid.x * Res, Res) = a
      /\ Round(j * Res - m.grid.y * Res, Res) = b
  BY <1>2, <1>4, <1>5
<1>7. a = i - m.grid.x /\ b = j - m.grid.y
  BY <1>2, <1>3
<1> HIDE <1>2, <1>3, <1>4
<1> QED BY <1>6, <1>7 DEF PoseToPixel

LEMMA PoseKeeps ==
  ASSUME MapInv, HandlePose
  PROVE  MapInv'
<1>1. /\ mapData # Absent
      /\ UNCHANGED <<floor, mapData, last, outlined>>
  BY DEF HandlePose
<1>2. PICK c \in DOMAIN floor.rooms :
        /\ PoseToPixel(mapData, <<c[1] * Res, c[2] * Res>>) # Absent
        /\ robotPixel' = PoseToPixel(mapData, <<c[1] * Res, c[2] * Res>>)
        /\ pose' = [cell |-> c, grid |-> mapData.grid, rooms |-> floor.rooms]
  BY DEF HandlePose
<1>3. mapData \in MapRecords /\ floor.rooms \in Floors
  BY <1>1 DEF MapInv, MapTyped, FloorStates
<1>4. c \in Int \X Int
  BY <1>3, FloorsAreOfCells
<1>5. /\ robotPixel' = <<c[1] - mapData.grid.x, c[2] - mapData.grid.y>>
      /\ robotPixel' \in Cells(mapData.grid)
  BY <1>2, <1>3, <1>4, PixelOfCell
<1>6. /\ pose'.cell = c /\ pose'.grid = mapData.grid /\ pose'.rooms = floor.rooms
  BY <1>2
<1>7. mapData.grid \in Grids
  BY <1>3 DEF MapRecords
<1>8. PoseInv'
  BY <1>3, <1>5, <1>6, <1>7 DEF PoseInv
<1> QED
  BY <1>1, <1>8 DEF MapInv, MapTyped, OutlineInv, HasRooms, PictureIsDecoded

LEMMA ChangeKeeps ==
  ASSUME MapInv, ChangeFloor
  PROVE  MapInv'
BY DEF ChangeFloor, MapInv, MapTyped, OutlineInv, HasRooms, PoseInv, PictureIsDecoded

LEMMA MapInvHolds == MapSpec => []MapInv
<1>1. MapInit => MapInv
  BY InitIsTyped
<1>2. MapInv /\ [MapNext]_mapVars => MapInv'
  <2> SUFFICES ASSUME MapInv, [MapNext]_mapVars PROVE MapInv'
    OBVIOUS
  <2>1. ASSUME UNCHANGED <<floor, mapData, robotPixel, last, outlined, pose>> PROVE MapInv'
    BY <2>1 DEF MapInv, MapTyped, OutlineInv, HasRooms, PoseInv, PictureIsDecoded
  <2>2. CASE HandleFrame
    <3>1. PICK g \in Grids, text \in Pictures, r \in Outlines \cup {Absent} :
            \E pixels, rooms :
              /\ IsArrival(text, pixels) /\ RoomsAre(r, rooms)
              /\ FrameIs(g, text, r, pixels, rooms)
      BY <2>2, FrameArrives DEF MapInv
    <3>2. PICK pixels, rooms :
            /\ IsArrival(text, pixels) /\ RoomsAre(r, rooms)
            /\ FrameIs(g, text, r, pixels, rooms)
      BY <3>1
    <3>3. \/ UNCHANGED <<floor, mapData, robotPixel, last, outlined, pose>>
          \/ \E o, z : FrameIsRead(g, text, pixels, r, rooms, o, z)
      BY <3>2, RefusedOrRead DEF MapInv
    <3> QED BY <2>1, <3>3, FrameKeeps
  <2>3. CASE HandlePose
    BY <2>3, PoseKeeps
  <2>4. CASE ChangeFloor
    BY <2>4, ChangeKeeps
  <2>5. CASE UNCHANGED mapVars
    BY <2>1, <2>5 DEF mapVars
  <2> QED BY <2>2, <2>3, <2>4, <2>5 DEF MapNext
<1> QED BY <1>1, <1>2, PTL DEF MapSpec

\* The map shown is that of the last frame that was not refused: for every picture,
\* whatever its encoder copied and wherever the frame was cut, the pixels are those
\* the robot meant or the beginning of them, and all of them where the frame came
\* whole; outline, names and zones are those of one backup, the outline the whole
\* or the beginning likewise (_lz4_block_decompress, try_extract_map_data and
\* _handle_biz_message).
THEOREM MapsAreDecoded == MapSpec => []MapIsDecoded
<1>1. MapInv => MapIsDecoded
  BY DEF MapInv, OutlineInv, HasRooms, MapIsDecoded, PartsBelongTogether
<1> QED BY <1>1, MapInvHolds, PTL

-----------------------------------------------------------------------------
(***************************************************************************)
(* Points there and back.                                                  *)
(***************************************************************************)
\* Half pixel a of a row or column, in centimetres and back.
LEMMA CornerIsNear ==
  ASSUME NEW x \in Int, NEW a \in Int
  PROVE  /\ Round(Round((2 * x + a) * Res, 2) - x * Res, Res) \in Int
         /\ 2 * Round(Round((2 * x + a) * Res, 2) - x * Res, Res) - a \in {-1, 0, 1}
<1>1. PICK d \in Nat \ {0} : d = Res
  BY SizesArePositive
<1>2. PICK n \in Int : n = (2 * x + a) * d
  OBVIOUS
<1>3. PICK c \in Int : c = Round(n, 2) /\ 2 * c \in {n - 1, n, n + 1}
  BY RoundHalf
<1>4. PICK y \in Int : y = x * d
  OBVIOUS
<1>5. n = 2 * y + a * d
  BY <1>2, <1>4
<1>6. PICK p \in Int : p = Round(c - y, d)
  BY RoundNear
<1>7. 2 * (p * d - (c - y)) <= d /\ 2 * ((c - y) - p * d) <= d
  BY <1>6, RoundNear
<1>8. PICK z \in Int : z = 2 * p - a
  BY 2 * p - a \in Int
<1>9. z * d <= d + 1 /\ - (d + 1) <= z * d
  <2>1. z * d = 2 * (p * d) - a * d
    BY <1>8
  <2>2. PICK q \in Int, e \in Int : q = p * d /\ e = a * d
    OBVIOUS
  <2> QED BY <2>1, <2>2, <1>3, <1>5, <1>7
<1>10. z \in {-1, 0, 1}
  <2>1. CASE d >= 2
    <3>1. z >= 2 => z * d >= d + d
      BY <2>1
    <3>2. z <= -2 => z * d <= - (d + d)
      BY <2>1
    <3>3. PICK t \in Int : t = z * d
      OBVIOUS
    <3> QED BY <2>1, <1>9, <3>1, <3>2, <3>3
  <2>2. CASE d = 1
    <3>1. Round(c - y, 1) = c - y
      BY DEF Round
    <3>2. p = c - x
      BY <2>2, <3>1, <1>4, <1>6
    <3>3. n = 2 * x + a
      BY <2>2, <1>2
    <3> QED BY <3>2, <3>3, <1>3, <1>8
  <2> QED BY <2>1, <2>2
<1>11. Round(Round((2 * x + a) * Res, 2) - x * Res, Res) = p
  BY <1>1, <1>2, <1>3, <1>4, <1>6
<1> QED BY <1>8, <1>10, <1>11

\* The column and the row of the pixel a tap is for.
LEMMA TapColumn ==
  ASSUME NEW w \in Nat \ {0}, NEW i \in 0..(w - 2), NEW d \in {0, 1}
  PROVE  \E r \in {0, d} : Clamp(Round(Clamp(2 * i + d, 2 * w), 2), w - 1) = i + r
<1>1. Clamp(2 * i + d, 2 * w) = 2 * i + d
  BY ClampIs
<1>2. \E r \in {0, d} : Round(2 * i + d, 2) = i + r
  <2>1. PICK n \in Int : n = 2 * i + d
    BY 2 * i + d \in Int
  <2>2. PICK k \in Int : k = Round(n, 2) /\ 2 * k \in {n - 1, n, n + 1}
    BY RoundHalf
  <2>3. k = i \/ k = i + d
    BY <2>1, <2>2
  <2> QED BY <2>1, <2>2, <2>3
<1>3. PICK r \in {0, d} : Round(2 * i + d, 2) = i + r
  BY <1>2
<1>4. i + r \in Int /\ i + r >= 0 /\ i + r <= w - 1 /\ w - 1 \in Nat
  OBVIOUS
<1>5. Clamp(i + r, w - 1) = i + r
  BY <1>4, ClampIs
<1> QED BY <1>1, <1>3, <1>5

LEMMA TapRow ==
  ASSUME NEW h \in Nat \ {0}, NEW j \in 0..(h - 2), NEW d \in {0, 1}
  PROVE  \E r \in {0, d} :
           Clamp(Round(2 * (h - 1) - Clamp(2 * j + d, 2 * h), 2), h - 1) = h - 1 - (j + r)
<1>1. Clamp(2 * j + d, 2 * h) = 2 * j + d
  BY ClampIs
<1>2. \E r \in {0, d} : Round(2 * (h - 1) - (2 * j + d), 2) = h - 1 - (j + r)
  <2>1. PICK n \in Int : n = 2 * (h - 1) - (2 * j + d)
    BY 2 * (h - 1) - (2 * j + d) \in Int
  <2>2. PICK k \in Int : k = Round(n, 2) /\ 2 * k \in {n - 1, n, n + 1}
    BY RoundHalf
  <2>3. k = h - 1 - j \/ k = h - 1 - (j + d)
    BY <2>1, <2>2
  <2> QED BY <2>1, <2>2, <2>3
<1>3. PICK r \in {0, d} : Round(2 * (h - 1) - (2 * j + d), 2) = h - 1 - (j + r)
  BY <1>2
<1>4. /\ h - 1 - (j + r) \in Int /\ h - 1 - (j + r) >= 0
      /\ h - 1 - (j + r) <= h - 1 /\ h - 1 \in Nat
  OBVIOUS
<1>5. Clamp(h - 1 - (j + r), h - 1) = h - 1 - (j + r)
  BY <1>4, ClampIs
<1> QED BY <1>1, <1>3, <1>5

LEMMA RowAndColumn ==
  ASSUME NEW w \in Nat \ {0}, NEW i \in 0..(w - 1), NEW k \in Nat
  PROVE  (k * w + i) % w = i /\ (k * w + i) \div w = k
OBVIOUS

\* Where grid and outline start at one cell, a pixel is in the room of its cell.
LEMMA RoomOfPixel ==
  ASSUME NEW m \in MapRecords, NEW fl, fl.rooms \in Floors, NEW r \in Outlines,
         m.outline # Absent, m.outline.rect = r, NEW whole,
         IsOf(m.outline.rooms, OutlineText(fl, r), whole),
         m.grid.x = r.x, m.grid.y = r.y, NEW i \in Nat, NEW k \in Nat, i < r.w, k < r.h,
         MaskIndex(m, i, k) <= Len(m.outline.rooms)
  PROVE  MaskRoom(m, i, k) = RoomOn(fl, m.grid.x + i, m.grid.y + k)
<1>1. PICK x \in Int, y \in Int, w \in Nat \ {0}, h \in Nat \ {0} :
        x = r.x /\ y = r.y /\ w = r.w /\ h = r.h
  BY RectsAreOfCells
<1>2. PICK text \in Seq(Nat) : text = OutlineText(fl, r) /\ Len(text) = r.w * r.h
  BY OutlinesAreTexts
<1>3. Round(0 * Res, Res) = 0
  BY RoundOfProduct, SizesArePositive
<1>4. /\ Round((m.grid.x - r.x) * Res, Res) = 0
      /\ Round((m.grid.y - r.y) * Res, Res) = 0
  BY <1>1, <1>3
<1>5. <<i, k>> \in Cells(r)
  BY <1>1 DEF Cells
<1>6. PICK n \in Nat \ {0} : n = k * w + i + 1
  <2>1. k * w \in Nat
    BY <1>1
  <2> QED BY <2>1
<1>7. MaskIndex(m, i, k) = n
  <2>1. <<i - 0, k - 0>> = <<i, k>> /\ (k - 0) * w + (i - 0) + 1 = n
    BY <1>6
  <2> QED BY <1>1, <1>4, <1>5, <2>1 DEF MaskIndex
<1>8. PICK p \in 0..Len(text) : m.outline.rooms = SubSeq(text, 1, p)
  BY <1>2 DEF IsOf, Prefixes
<1>9. Len(m.outline.rooms) = p /\ \A j \in 1..p : m.outline.rooms[j] = text[j]
  BY <1>8, PrefixesJoin
<1>10. n \in 1..p
  BY <1>7, <1>9
<1>11. MaskRoom(m, i, k) = text[n]
  <2>1. MaskIndex(m, i, k) \in 1..Len(m.outline.rooms)
    BY <1>7, <1>9, <1>10
  <2>2. MaskRoom(m, i, k) = m.outline.rooms[n]
    BY <1>7, <2>1 DEF MaskRoom
  <2> QED BY <1>9, <1>10, <2>2
<1>12. n \in 1..(w * h)
  <2>1. PICK q \in Nat : q = w * h /\ Len(text) = q
    <3>1. w * h \in Nat
      BY <1>1
    <3> QED BY <3>1, <1>1, <1>2
  <2> QED BY <1>10, <2>1
<1>13. text[n] = RoomOn(fl, x + ((n - 1) % w), y + ((n - 1) \div w))
  BY <1>1, <1>2, <1>12 DEF OutlineText
<1>14. (n - 1) % w = i /\ (n - 1) \div w = k
  <2>1. i \in 0..(w - 1)
    BY <1>1
  <2>2. n - 1 = k * w + i
    <3>1. PICK q \in Nat : q = k * w
      BY <1>1
    <3> QED BY <1>6, <3>1
  <2>3. (k * w + i) % w = i /\ (k * w + i) \div w = k
    BY <2>1, RowAndColumn
  <2> QED BY <2>2, <2>3, Zenon
<1>15. m.grid.x + i = x + i /\ m.grid.y + k = y + k
  BY <1>1
<1> QED BY <1>11, <1>13, <1>14, <1>15

LEMMA RowsFlip ==
  ASSUME NEW m \in MapRecords, NEW i \in Int, NEW k \in Int
  PROVE  /\ Shown(m, i, m.grid.h - 1 - k) = MaskRoom(m, i, k)
         /\ m.grid.h - 1 - (m.grid.h - 1 - k) = k
<1>1. m.grid.h \in Int
  BY RectsAreOfCells DEF MapRecords
<1>2. m.grid.h - 1 - (m.grid.h - 1 - k) = k
  BY <1>1
<1> QED BY <1>2 DEF Shown

LEMMA RoomsStayInPlace ==
  ASSUME MapInv
  PROVE  RoomsInPlace
<1> DEFINE g == mapData.grid
           o == mapData.outline.rect
<1> SUFFICES ASSUME HasOutline, outlined.sure, g.x = o.x, g.y = o.y
             PROVE  /\ \A i \in 0..(Min({g.w, o.w}) - 1), k \in 0..(Min({g.h, o.h}) - 1) :
                         Shown(mapData, i, g.h - 1 - k) =
                           RoomOn(outlined, g.x + i, g.y + (g.h - 1 - (g.h - 1 - k)))
                    /\ robotPixel # Absent /\ pose.grid = g /\ robotPixel \in Cells(o)
                         /\ pose.rooms = outlined.rooms =>
                         LET out == ToOut(mapData, robotPixel[1], robotPixel[2])
                         IN  Shown(mapData, out[1], out[2]) = pose.rooms[pose.cell]
  BY DEF RoomsInPlace
<1>1. mapData \in MapRecords
  BY DEF MapInv, MapTyped, HasOutline
<1>2. /\ outlined.rooms \in Floors /\ outlined.rect \in Outlines /\ o = outlined.rect
      /\ mapData.outline # Absent
      /\ IsOf(mapData.outline.rooms, OutlineText(outlined, outlined.rect), outlined.whole)
  BY DEF MapInv, OutlineInv, HasOutline, HasRooms
<1>3. PICK r \in Outlines : o = r /\ r = outlined.rect
  BY <1>2
<1>4. /\ g.x \in Int /\ g.y \in Int /\ g.w \in Nat /\ g.h \in Nat
      /\ r.w \in Nat /\ r.h \in Nat
  BY <1>1, RectsAreOfCells DEF MapRecords
<1>5. \A c \in Cells(g) : MaskIndex(mapData, c[1], c[2]) <= Len(mapData.outline.rooms)
  BY <1>2 DEF HasOutline, Drawable
<1>6. ASSUME NEW i \in Nat, NEW k \in Nat, i < r.w, k < r.h, <<i, k>> \in Cells(g)
      PROVE  MaskRoom(mapData, i, k) = RoomOn(outlined, g.x + i, g.y + k)
  <2>1. MaskIndex(mapData, i, k) <= Len(mapData.outline.rooms)
    BY <1>5, <1>6
  <2>2. /\ outlined.rooms \in Floors /\ mapData.outline # Absent /\ mapData.outline.rect = r
        /\ IsOf(mapData.outline.rooms, OutlineText(outlined, r), outlined.whole)
        /\ mapData.grid.x = r.x /\ mapData.grid.y = r.y
    BY <1>2, <1>3
  <2> HIDE DEF g, o
  <2>3. MaskRoom(mapData, i, k) = RoomOn(outlined, mapData.grid.x + i, mapData.grid.y + k)
    BY <1>1, <1>6, <2>1, <2>2, RoomOfPixel
  <2> QED BY <2>3 DEF g
<1>7. ASSUME NEW i \in 0..(Min({g.w, o.w}) - 1), NEW k \in 0..(Min({g.h, o.h}) - 1)
      PROVE  Shown(mapData, i, g.h - 1 - k) =
               RoomOn(outlined, g.x + i, g.y + (g.h - 1 - (g.h - 1 - k)))
  <2>1. /\ Min({g.w, r.w}) = IF g.w <= r.w THEN g.w ELSE r.w
        /\ Min({g.h, r.h}) = IF g.h <= r.h THEN g.h ELSE r.h
    BY <1>4, MinOfTwo
  <2>2. i \in Nat /\ k \in Nat /\ i < r.w /\ k < r.h /\ i < g.w /\ k < g.h
    BY <1>3, <1>4, <2>1
  <2>3. Shown(mapData, i, g.h - 1 - k) = MaskRoom(mapData, i, k)
    BY <1>1, <2>2, RowsFlip
  <2>4. g.h - 1 - (g.h - 1 - k) = k
    <3>1. g.h \in Int /\ k \in Int
      BY <1>4, <2>2
    <3> HIDE DEF g
    <3> QED BY <3>1
  <2>5. <<i, k>> \in Cells(g)
    BY <1>4, <2>2 DEF Cells
  <2>6. MaskRoom(mapData, i, k) = RoomOn(outlined, g.x + i, g.y + k)
    BY <1>6, <2>2, <2>5
  <2> QED BY <2>3, <2>4, <2>6
<1>8. ASSUME robotPixel # Absent, pose.grid = g, robotPixel \in Cells(o),
             pose.rooms = outlined.rooms
      PROVE  LET out == ToOut(mapData, robotPixel[1], robotPixel[2])
             IN  Shown(mapData, out[1], out[2]) = pose.rooms[pose.cell]
  <2>1. /\ pose.rooms \in Floors /\ pose.cell \in DOMAIN pose.rooms
        /\ robotPixel = <<pose.cell[1] - g.x, pose.cell[2] - g.y>>
        /\ robotPixel \in Cells(g)
    BY <1>8 DEF MapInv, PoseInv
  <2>2. pose.cell \in Int \X Int
    BY <2>1, FloorsAreOfCells
  <2>3. PICK a \in Nat, b \in Nat : robotPixel = <<a, b>> /\ a < r.w /\ b < r.h
    BY <1>3, <1>4, <1>8 DEF Cells
  <2>4. robotPixel[1] = a /\ robotPixel[2] = b
    BY <2>3
  <2>5. g.x + a = pose.cell[1] /\ g.y + b = pose.cell[2]
    <3>1. a = pose.cell[1] - g.x /\ b = pose.cell[2] - g.y
      BY <2>1, <2>3
    <3> QED BY <1>4, <2>2, <3>1
  <2>6. <<g.x + a, g.y + b>> = pose.cell
    BY <2>2, <2>5
  <2>7. RoomOn(outlined, g.x + a, g.y + b) = pose.rooms[pose.cell]
    BY <1>8, <2>1, <2>6 DEF RoomOn
  <2>8. MaskRoom(mapData, a, b) = RoomOn(outlined, g.x + a, g.y + b)
    BY <1>6, <2>1, <2>3
  <2>9. Shown(mapData, a, g.h - 1 - b) = MaskRoom(mapData, a, b)
    BY <1>1, <2>3, RowsFlip
  <2> QED BY <2>4, <2>7, <2>8, <2>9 DEF ToOut
<1> QED BY <1>7, <1>8

LEMMA TapsKeepFinding ==
  ASSUME MapInv
  PROVE  TapsFindRooms
<1> DEFINE g == mapData.grid
<1> SUFFICES ASSUME HasOutline,
                    NEW i \in 0..(g.w - 2), NEW j \in 0..(g.h - 2),
                    NEW di \in {0, 1}, NEW dj \in {0, 1}
             PROVE  \E ri \in {0, di}, rj \in {0, dj} :
                      RoomAtNormalized(mapData, 2 * i + di, 2 * j + dj) =
                        Shown(mapData, i + ri, j + rj)
  BY DEF TapsFindRooms
<1>1. mapData \in MapRecords
  BY DEF MapInv, MapTyped, HasOutline
<1>2. g.w \in Nat \ {0} /\ g.h \in Nat \ {0}
  BY <1>1, RectsAreOfCells DEF MapRecords
<1>3. PICK ri \in {0, di} :
        Clamp(Round(Clamp(2 * i + di, 2 * g.w), 2), g.w - 1) = i + ri
  BY <1>2, TapColumn
<1>4. PICK rj \in {0, dj} :
        Clamp(Round(2 * (g.h - 1) - Clamp(2 * j + dj, 2 * g.h), 2), g.h - 1) = g.h - 1 - (j + rj)
  BY <1>2, TapRow
<1>5. RoomAtNormalized(mapData, 2 * i + di, 2 * j + dj) =
        MaskRoom(mapData, i + ri, g.h - 1 - (j + rj))
  BY <1>3, <1>4 DEF RoomAtNormalized
<1> QED BY <1>5 DEF Shown

LEMMA ZonesKeepFitting ==
  ASSUME MapInv
  PROVE  ZonesFitTheFloor
<1> DEFINE g == mapData.grid
           Near(n, a) == 2 * n - a \in {-1, 0, 1}
<1> SUFFICES ASSUME mapData # Absent, NEW a \in 0..(2 * g.w), NEW b \in 0..(2 * g.h)
             PROVE  LET cm == ToCm(mapData, a, b)
                        out == WorldToOut(mapData, cm[1], cm[2])
                    IN  Near(out[1], a) /\ Near(out[2], b)
  BY DEF ZonesFitTheFloor
<1>1. mapData \in MapRecords
  BY DEF MapInv, MapTyped
<1>2. g.x \in Int /\ g.y \in Int /\ g.w \in Nat \ {0} /\ g.h \in Nat \ {0}
  BY <1>1, RectsAreOfCells DEF MapRecords
<1>3. Clamp(a, 2 * g.w) = a /\ Clamp(b, 2 * g.h) = b
  BY <1>2, ClampIs
<1>4. PICK d \in Int : d = 2 * (g.h - 1) - b
  BY <1>2
<1>5. 2 * g.y + 2 * (g.h - 1) - b = 2 * g.y + d
  BY <1>2, <1>4
<1>6. ToCm(mapData, a, b) =
        <<Round((2 * g.x + a) * Res, 2), Round((2 * g.y + d) * Res, 2)>>
  BY <1>3, <1>5 DEF ToCm
<1>7. PICK p \in Int, q \in Int :
        /\ p = Round(Round((2 * g.x + a) * Res, 2) - g.x * Res, Res) /\ Near(p, a)
        /\ q = Round(Round((2 * g.y + d) * Res, 2) - g.y * Res, Res) /\ Near(q, d)
  <2>1. PICK x \in Int, y \in Int : x = g.x /\ y = g.y
    BY <1>2
  <2>2. a \in Int
    BY <1>2
  <2>3. /\ Round(Round((2 * x + a) * Res, 2) - x * Res, Res) \in Int
        /\ Near(Round(Round((2 * x + a) * Res, 2) - x * Res, Res), a)
    BY <2>2, CornerIsNear
  <2>4. /\ Round(Round((2 * y + d) * Res, 2) - y * Res, Res) \in Int
        /\ Near(Round(Round((2 * y + d) * Res, 2) - y * Res, Res), d)
    BY CornerIsNear
  <2> HIDE DEF Near
  <2> QED BY <2>1, <2>3, <2>4
<1>8. WorldToOut(mapData, ToCm(mapData, a, b)[1], ToCm(mapData, a, b)[2]) = <<p, g.h - 1 - q>>
  BY <1>6, <1>7 DEF WorldToOut, ToOut
<1>9. Near(g.h - 1 - q, b)
  BY <1>2, <1>4, <1>7
<1> QED BY <1>7, <1>8, <1>9

\* For every grid, outline and resolution, the rooms are drawn over their cells,
\* the robot's marker in its room, a tap finds a room next to it, and a zone's
\* corner is half a pixel from where its centimetres are shown, at most
\* (render_map_png, room_id_at_normalized, normalized_rects_to_quads_cm and
\* _pose_to_pixel agree with each other).
THEOREM PointsStayMapped == MapSpec => []PointsMapBack
<1>1. MapInv => PointsMapBack
  BY RoomsStayInPlace, TapsKeepFinding, ZonesKeepFitting DEF PointsMapBack
<1> QED BY <1>1, MapInvHolds, PTL

-----------------------------------------------------------------------------
(***************************************************************************)
(* What a report says, in whatever order and however often.                *)
(***************************************************************************)
Fields == {"activity", "task_status", "charging", "error_code", "fan_speed"}
ScalarKeys == {"STATE", "PAUSE", "ERROR_CODE", "ERROR_CODE_ALT", "SUCTION"}
LegacyKeys == {"WORK_STATUS", "PLAY_PAUSE", "ERROR_CODE", "CLEAN_SPEED"}

\* The report lists the data points of new that keys names.
Says(report, keys, new) ==
  /\ Len(report) \in Nat
  /\ \A n \in 1..Len(report) : \E k \in keys : report[n] = <<k, new[k]>>
  /\ \A k \in keys : \E n \in 1..Len(report) : report[n] = <<k, new[k]>>

Upto(report, n) == {report[i][1] : i \in 1..n}

LEMMA OneMorePoint ==
  ASSUME NEW report, NEW keys, NEW new, Says(report, keys, new),
         NEW n \in 1..Len(report)
  PROVE  /\ report[n][1] \in keys /\ report[n][2] = new[report[n][1]]
         /\ Upto(report, n) = Upto(report, n - 1) \cup {report[n][1]}
         /\ Upto(report, n - 1) \subseteq keys
<1>0. n \in Nat \ {0} /\ n <= Len(report) /\ Len(report) \in Nat
  BY DEF Says
<1>1. \A i \in 1..Len(report) : report[i][1] \in keys /\ report[i][2] = new[report[i][1]]
  <2> SUFFICES ASSUME NEW i \in 1..Len(report)
               PROVE  report[i][1] \in keys /\ report[i][2] = new[report[i][1]]
    OBVIOUS
  <2>1. PICK k \in keys : report[i] = <<k, new[k]>>
    BY DEF Says
  <2>2. report[i][1] = k /\ report[i][2] = new[k]
    BY <2>1
  <2> QED BY <2>2
<1>2. \A i \in 1..n : i = n \/ i \in 1..(n - 1)
  BY <1>0
<1>3. \A i \in 1..(n - 1) : i \in 1..n /\ i \in 1..Len(report)
  BY <1>0
<1>4. n \in 1..n
  BY <1>0
<1> QED BY <1>1, <1>2, <1>3, <1>4 DEF Upto

LEMMA FirstAndAll ==
  ASSUME NEW report, NEW keys, NEW new, Says(report, keys, new)
  PROVE  Upto(report, 0) = {} /\ Upto(report, Len(report)) = keys
<1>1. \A k \in keys : \E n \in 1..Len(report) : report[n][1] = k
  <2> SUFFICES ASSUME NEW k \in keys PROVE \E n \in 1..Len(report) : report[n][1] = k
    OBVIOUS
  <2>1. PICK n \in 1..Len(report) : report[n] = <<k, new[k]>>
    BY DEF Says
  <2> QED BY <2>1
<1>2. \A n \in 1..Len(report) : report[n][1] \in keys
  BY OneMorePoint
<1>3. 1..0 = {}
  OBVIOUS
<1> QED BY <1>1, <1>2, <1>3 DEF Upto

\* The motion flag is found wherever it stands.
LEMMA FlagIsFound ==
  ASSUME NEW report, NEW keys, NEW new, Says(report, keys, new), DOMAIN report = 1..Len(report)
  PROVE  /\ <<"PAUSE", 1>> \in ToSet(report) <=> "PAUSE" \in keys /\ new["PAUSE"] = 1
         /\ Keys(report) = keys
<1>1. ASSUME NEW x PROVE x \in ToSet(report) <=> \E k \in keys : x = <<k, new[k]>>
  <2>1. x \in ToSet(report) <=> \E n \in 1..Len(report) : x = report[n]
    BY DEF ToSet
  <2> QED BY <2>1 DEF Says
<1>2. <<"PAUSE", 1>> \in ToSet(report) <=> "PAUSE" \in keys /\ new["PAUSE"] = 1
  <2>1. \A k \in keys : <<"PAUSE", 1>> = <<k, new[k]>> <=> k = "PAUSE" /\ new[k] = 1
    OBVIOUS
  <2> QED BY <1>1, <2>1
<1>3. ASSUME NEW k PROVE k \in Keys(report) <=> k \in keys
  <2>1. \A j \in keys : <<j, new[j]>>[1] = j
    OBVIOUS
  <2> QED BY <1>1, <2>1 DEF Keys
<1> QED BY <1>2, <1>3

-----------------------------------------------------------------------------
\* What the scalar data points of new that keys names give.
ScalarGiven(K) ==
  (IF "STATE" \in K THEN {"activity", "charging", "task_status"} ELSE {})
  \cup (IF "ERROR_CODE" \in K \/ "ERROR_CODE_ALT" \in K THEN {"error_code"} ELSE {})
  \cup (IF "SUCTION" \in K THEN {"fan_speed"} ELSE {})

\* What field f is given by a report of data points K: a closed form, free
\* of the order the loop of process_scalar_dps meets them in.
ScalarField(f, K, new) ==
  CASE f = "activity" -> ScalarActivity(new.STATE)
    [] f = "charging" -> new.STATE = 5
    [] f = "task_status" -> ScalarTask(new.STATE)
    [] f = "error_code" -> IF "ERROR_CODE_ALT" \in K THEN new.ERROR_CODE_ALT ELSE 0
    [] f = "fan_speed" -> Suctions[new.SUCTION + 1]

ScalarDecoded(K, new) == [f \in ScalarGiven(K) |-> ScalarField(f, K, new)]

ScalarPoints ==
  {r \in [ScalarKeys -> Nat] :
     /\ r.STATE \in {1, 2, 4, 5, 7} /\ r.PAUSE \in {0, 1} /\ r.ERROR_CODE = 0
     /\ r.ERROR_CODE_ALT \in Faults \cup {0} /\ r.SUCTION \in 0..(Len(Suctions) - 1)}

\* The states a scalar robot can be in, and those a legacy one can.
ScalarRobots ==
  {r \in ScalarPoints :
     /\ r.STATE \in {1, 5, 7} => r.PAUSE = 1
     /\ r.STATE = 4 => r.PAUSE = 0}

\* Giving fields to what was decoded makes what has them too.
LEMMA GiveMakes ==
  ASSUME NEW D, NEW E, NEW old, NEW fields, NEW go,
         old = [f \in D |-> old[f]], go = [f \in E |-> go[f]], E = D \cup DOMAIN fields,
         \A f \in E : go[f] = IF f \in DOMAIN fields THEN fields[f] ELSE old[f]
  PROVE  Give(old, fields) = go
<1>1. DOMAIN old = D
  OBVIOUS
<1>2. Give(old, fields) = [f \in E |-> IF f \in DOMAIN fields THEN fields[f] ELSE old[f]]
  BY <1>1 DEF Give
<1> QED BY <1>2

LEMMA DecodedIs ==
  ASSUME NEW K, NEW new
  PROVE  /\ DOMAIN ScalarDecoded(K, new) = ScalarGiven(K)
         /\ \A f \in ScalarGiven(K) : ScalarDecoded(K, new)[f] = ScalarField(f, K, new)
         /\ ScalarDecoded(K, new) = [f \in ScalarGiven(K) |-> ScalarDecoded(K, new)[f]]
BY DEF ScalarDecoded

LEMMA KeepsOthers ==
  ASSUME NEW K, NEW L, NEW new, NEW fields,
         ScalarGiven(L) = ScalarGiven(K) \cup DOMAIN fields,
         \A f \in DOMAIN fields : fields[f] = ScalarField(f, L, new),
         \A f \in ScalarGiven(K) : f \notin DOMAIN fields => ScalarField(f, L, new) = ScalarField(f, K, new)
  PROVE  Give(ScalarDecoded(K, new), fields) = ScalarDecoded(L, new)
<1> DEFINE old == ScalarDecoded(K, new)
           go == ScalarDecoded(L, new)
<1>1. /\ old = [f \in ScalarGiven(K) |-> old[f]]
      /\ \A f \in ScalarGiven(K) : old[f] = ScalarField(f, K, new)
  BY DecodedIs
<1>2. /\ go = [f \in ScalarGiven(L) |-> go[f]]
      /\ \A f \in ScalarGiven(L) : go[f] = ScalarField(f, L, new)
  BY DecodedIs
<1> HIDE DEF old, go
<1>3. \A f \in ScalarGiven(L) : go[f] = IF f \in DOMAIN fields THEN fields[f] ELSE old[f]
  BY <1>1, <1>2
<1>4. Give(old, fields) = go
  BY <1>1, <1>2, <1>3, GiveMakes
<1> QED BY <1>4 DEF old, go

LEMMA NothingNew ==
  ASSUME NEW K, NEW L, NEW new, ScalarGiven(L) = ScalarGiven(K),
         \A f \in ScalarGiven(K) : ScalarField(f, L, new) = ScalarField(f, K, new)
  PROVE  ScalarDecoded(K, new) = ScalarDecoded(L, new)
BY DEF ScalarDecoded

LEMMA ScalarOneMore ==
  ASSUME NEW new \in ScalarRobots, NEW K \in SUBSET ScalarKeys, NEW k \in ScalarKeys
  PROVE  ScalarPoint(ScalarDecoded(K, new), k, new[k]) = ScalarDecoded(K \cup {k}, new)
<1> DEFINE old == ScalarDecoded(K, new)
           go == ScalarDecoded(K \cup {k}, new)
<1>1. CASE k = "STATE"
  <2> DEFINE fields == [activity |-> ScalarActivity(new.STATE), charging |-> new.STATE = 5,
                        task_status |-> ScalarTask(new.STATE)]
  <2>1. ScalarPoint(old, k, new[k]) = Give(old, fields)
    BY <1>1 DEF ScalarPoint
  <2>2. DOMAIN fields = {"activity", "charging", "task_status"}
    OBVIOUS
  <2>3. \A f \in DOMAIN fields : fields[f] = ScalarField(f, K \cup {k}, new)
    <3>1. /\ fields["activity"] = ScalarField("activity", K \cup {k}, new)
          /\ fields["charging"] = ScalarField("charging", K \cup {k}, new)
          /\ fields["task_status"] = ScalarField("task_status", K \cup {k}, new)
      BY DEF ScalarField
    <3> QED BY <3>1, <2>2
  <2>4. ScalarGiven(K \cup {k}) = ScalarGiven(K) \cup DOMAIN fields
    BY <1>1, <2>2 DEF ScalarGiven
  <2>5. \A f \in ScalarGiven(K) : ScalarField(f, K \cup {k}, new) = ScalarField(f, K, new)
    BY <1>1 DEF ScalarField
  <2> HIDE DEF fields
  <2>6. Give(old, fields) = go
    BY <2>3, <2>4, <2>5, KeepsOthers
  <2> QED BY <2>1, <2>6
<1>2. CASE k \in {"ERROR_CODE", "ERROR_CODE_ALT"}
  <2> DEFINE fields == [error_code |-> new[k]]
  <2>1. ScalarPoint(old, k, new[k]) = ScalarError(old, new[k])
    BY <1>2 DEF ScalarPoint
  <2>2. DOMAIN fields = {"error_code"} /\ fields["error_code"] = new[k]
    OBVIOUS
  <2>3. /\ new["ERROR_CODE"] = 0 /\ new.ERROR_CODE_ALT = new["ERROR_CODE_ALT"]
    BY DEF ScalarRobots, ScalarPoints
  <2>4. /\ ScalarGiven(K \cup {k}) = ScalarGiven(K) \cup DOMAIN fields
        /\ "error_code" \in ScalarGiven(K) <=> "ERROR_CODE" \in K \/ "ERROR_CODE_ALT" \in K
    BY <1>2, <2>2 DEF ScalarGiven
  <2>5. \A f \in ScalarGiven(K) :
          f # "error_code" => ScalarField(f, K \cup {k}, new) = ScalarField(f, K, new)
    BY <1>2 DEF ScalarField, ScalarGiven
  <2>6. \A L : ScalarField("error_code", L, new) = IF "ERROR_CODE_ALT" \in L THEN new["ERROR_CODE_ALT"] ELSE 0
    BY <2>3 DEF ScalarField
  <2>7. DOMAIN old = ScalarGiven(K)
    BY DecodedIs
  <2> HIDE DEF fields, old, go
  <2>8. CASE new[k] # 0 \/ "error_code" \notin DOMAIN old
    <3>1. ScalarError(old, new[k]) = Give(old, fields)
      BY <2>8 DEF ScalarError, fields
    <3>2. ScalarField("error_code", K \cup {k}, new) = new[k]
      <4>1. CASE k = "ERROR_CODE_ALT"
        BY <4>1, <2>6
      <4>2. CASE k = "ERROR_CODE"
        BY <4>2, <2>3, <2>4, <2>6, <2>7, <2>8
      <4> QED BY <4>1, <4>2, <1>2
    <3>3. Give(old, fields) = go
      BY <2>2, <2>4, <2>5, <3>2, KeepsOthers DEF old, go
    <3> QED BY <2>1, <3>1, <3>3 DEF old, go
  <2>9. CASE new[k] = 0 /\ "error_code" \in DOMAIN old
    <3>1. ScalarError(old, new[k]) = old
      BY <2>9 DEF ScalarError
    <3>2. ScalarField("error_code", K \cup {k}, new) = ScalarField("error_code", K, new)
      BY <1>2, <2>6, <2>9
    <3>3. ScalarGiven(K \cup {k}) = ScalarGiven(K)
      BY <2>2, <2>4, <2>7, <2>9
    <3>4. \A f \in ScalarGiven(K) : ScalarField(f, K \cup {k}, new) = ScalarField(f, K, new)
      BY <2>5, <3>2
    <3>5. old = go
      BY <3>3, <3>4, NothingNew DEF old, go
    <3> QED BY <2>1, <3>1, <3>5 DEF old, go
  <2> QED BY <2>8, <2>9
<1>3. CASE k = "SUCTION"
  <2> DEFINE fields == [fan_speed |-> Suctions[new.SUCTION + 1]]
  <2>1. new.SUCTION = new["SUCTION"] /\ new.SUCTION \in Nat /\ new.SUCTION < Len(Suctions)
    BY SuctionsAreNames DEF ScalarRobots, ScalarPoints
  <2>2. ScalarPoint(old, k, new[k]) = Give(old, fields)
    BY <1>3, <2>1 DEF ScalarPoint
  <2>3. DOMAIN fields = {"fan_speed"} /\ fields["fan_speed"] = ScalarField("fan_speed", K \cup {k}, new)
    BY DEF ScalarField
  <2>4. ScalarGiven(K \cup {k}) = ScalarGiven(K) \cup DOMAIN fields
    BY <1>3, <2>3 DEF ScalarGiven
  <2>5. \A f \in ScalarGiven(K) : ScalarField(f, K \cup {k}, new) = ScalarField(f, K, new)
    BY <1>3 DEF ScalarField
  <2> HIDE DEF fields
  <2>6. Give(old, fields) = go
    BY <2>3, <2>4, <2>5, KeepsOthers
  <2> QED BY <2>2, <2>6
<1>4. CASE k = "PAUSE"
  <2>1. ScalarPoint(old, k, new[k]) = old
    BY <1>4 DEF ScalarPoint
  <2>2. ScalarGiven(K \cup {k}) = ScalarGiven(K)
    BY <1>4 DEF ScalarGiven
  <2>3. \A f \in ScalarGiven(K) : ScalarField(f, K \cup {k}, new) = ScalarField(f, K, new)
    BY <1>4 DEF ScalarField
  <2> QED BY <2>1, <2>2, <2>3, NothingNew
<1> QED BY <1>1, <1>2, <1>3, <1>4 DEF ScalarKeys

\* The state after all points is what they say, whatever their order.
ScalarMeant(state, K, new) ==
  LET ch == ScalarDecoded(K, new)
  IN  IF "PAUSE" \in K /\ new["PAUSE"] = 1 /\ Give(state, ch).activity = "cleaning"
      THEN Give(ch, [activity |-> "paused", task_status |-> "Paused"])
      ELSE ch

LEMMA ScalarReportDecoded ==
  ASSUME NEW keys \in SUBSET ScalarKeys, NEW new \in ScalarRobots, NEW report, NEW state,
         Says(report, keys, new), DOMAIN report = 1..Len(report)
  PROVE  ScalarChanges(state, report) = ScalarMeant(state, keys, new)
<1> DEFINE L == Len(report)
           More(c, n) == ScalarPoint(c, report[n][1], report[n][2])
           Def(h) == [n \in 0..L |-> IF n = 0 THEN NoChange ELSE More(h[n - 1], n)]
           f == [n \in 0..L |-> ScalarDecoded(Upto(report, n), new)]
           upTo == CHOOSE h : h = Def(h)
<1>0. L \in Nat
  BY DEF Says
<1>1. f[0] = NoChange /\ 0 \in 0..L
  <2>1. ScalarDecoded({}, new) = NoChange
    BY DEF ScalarDecoded, ScalarGiven, NoChange
  <2>2. Upto(report, 0) = {}
    BY FirstAndAll
  <2>3. 0 \in 0..L
    BY <1>0
  <2>4. f[0] = ScalarDecoded(Upto(report, 0), new)
    BY <2>3
  <2> HIDE DEF f
  <2> QED BY <2>1, <2>2, <2>3, <2>4
<1>2. ASSUME NEW n \in 1..L PROVE f[n] = More(f[n - 1], n)
  <2>1. n \in 0..L /\ n - 1 \in 0..L
    BY <1>0
  <2>2. f[n] = ScalarDecoded(Upto(report, n), new) /\ f[n - 1] = ScalarDecoded(Upto(report, n - 1), new)
    BY <2>1
  <2>3. /\ report[n][1] \in keys /\ report[n][2] = new[report[n][1]]
        /\ Upto(report, n) = Upto(report, n - 1) \cup {report[n][1]}
        /\ Upto(report, n - 1) \subseteq keys
    BY OneMorePoint
  <2>4. ScalarPoint(ScalarDecoded(Upto(report, n - 1), new), report[n][1], new[report[n][1]]) =
          ScalarDecoded(Upto(report, n - 1) \cup {report[n][1]}, new)
    <3>1. Upto(report, n - 1) \in SUBSET ScalarKeys /\ report[n][1] \in ScalarKeys
      BY <2>3
    <3> QED BY <3>1, ScalarOneMore
  <2> QED BY <2>2, <2>3, <2>4
<1> HIDE DEF More
<1>4. f = Def(f)
  <2>1. ASSUME NEW n \in 0..L PROVE f[n] = IF n = 0 THEN NoChange ELSE More(f[n - 1], n)
    <3> HIDE DEF f
    <3>1. CASE n = 0
      BY <3>1, <1>1
    <3>2. CASE n # 0
      <4>1. n \in 1..L
        BY <3>2, <1>0
      <4> QED BY <4>1, <3>2, <1>2
    <3> QED BY <3>1, <3>2
  <2>2. DOMAIN f = 0..L /\ f = [n \in 0..L |-> f[n]]
    OBVIOUS
  <2> HIDE DEF f
  <2> QED BY <2>1, <2>2
<1>5. upTo = Def(upTo)
  <2> HIDE DEF f, Def
  <2> QED BY <1>4
<1> HIDE DEF f, upTo, L
<1>6. GoAlike(upTo, f, L)
  <2>1. upTo[0] = f[0]
    BY <1>1, <1>5
  <2>2. ASSUME NEW n \in 1..L, upTo[n - 1] = f[n - 1] PROVE upTo[n] = f[n]
    <3>1. n \in 0..L /\ n # 0
      BY <1>0
    <3>2. upTo[n] = More(upTo[n - 1], n)
      BY <3>1, <1>5
    <3> QED BY <3>2, <2>2, <1>2
  <2> QED BY <2>1, <2>2 DEF GoAlike
<1>7. upTo[L] = f[L]
  BY <1>0, <1>6, SameAllAlong DEF AreAlike
<1>8. f[L] = ScalarDecoded(keys, new)
  BY <1>0, FirstAndAll DEF f, L
<1>9. ScalarChanges(state, report) =
        IF <<"PAUSE", 1>> \in ToSet(report) /\ Give(state, upTo[L]).activity = "cleaning"
        THEN Give(upTo[L], [activity |-> "paused", task_status |-> "Paused"])
        ELSE upTo[L]
  BY DEF ScalarChanges, upTo, Def, More, L
<1>10. <<"PAUSE", 1>> \in ToSet(report) <=> "PAUSE" \in keys /\ new["PAUSE"] = 1
  BY FlagIsFound
<1> QED BY <1>7, <1>8, <1>9, <1>10 DEF ScalarMeant

-----------------------------------------------------------------------------
\* The same for legacy robots.
LegacyGiven(K) ==
  (IF "WORK_STATUS" \in K THEN {"activity", "charging", "task_status"} ELSE {})
  \cup (IF "ERROR_CODE" \in K THEN {"error_code"} ELSE {})
  \cup (IF "CLEAN_SPEED" \in K THEN {"fan_speed"} ELSE {})

\* The same for the legacy parser, each field of one data point.
LegacyField(f, new) ==
  CASE f = "activity" -> LegacyActivity[new.WORK_STATUS]
    [] f = "charging" -> new.WORK_STATUS \in {"Charging", "Completed"}
    [] f = "task_status" -> new.WORK_STATUS
    [] f = "error_code" -> new.ERROR_CODE
    [] f = "fan_speed" -> new.CLEAN_SPEED

LegacyDecoded(K, new) == [f \in LegacyGiven(K) |-> LegacyField(f, new)]

LegacyRobots ==
  [WORK_STATUS : DOMAIN LegacyActivity, PLAY_PAUSE : BOOLEAN,
   ERROR_CODE : Faults \cup {0}, CLEAN_SPEED : STRING]

LEMMA LegacyKeepsOthers ==
  ASSUME NEW K, NEW L, NEW new, NEW fields,
         LegacyGiven(L) = LegacyGiven(K) \cup DOMAIN fields,
         \A f \in DOMAIN fields : fields[f] = LegacyField(f, new)
  PROVE  Give(LegacyDecoded(K, new), fields) = LegacyDecoded(L, new)
<1> DEFINE old == LegacyDecoded(K, new)
           go == LegacyDecoded(L, new)
<1>1. /\ old = [f \in LegacyGiven(K) |-> old[f]]
      /\ \A f \in LegacyGiven(K) : old[f] = LegacyField(f, new)
  BY DEF LegacyDecoded
<1>2. /\ go = [f \in LegacyGiven(L) |-> go[f]]
      /\ \A f \in LegacyGiven(L) : go[f] = LegacyField(f, new)
  BY DEF LegacyDecoded
<1> HIDE DEF old, go
<1>3. \A f \in LegacyGiven(L) : go[f] = IF f \in DOMAIN fields THEN fields[f] ELSE old[f]
  BY <1>1, <1>2
<1>4. Give(old, fields) = go
  BY <1>1, <1>2, <1>3, GiveMakes
<1> QED BY <1>4 DEF old, go

LEMMA LegacyOneMore ==
  ASSUME NEW new \in LegacyRobots, NEW K \in SUBSET LegacyKeys, NEW k \in LegacyKeys
  PROVE  LegacyPoint(LegacyDecoded(K, new), k, new[k]) = LegacyDecoded(K \cup {k}, new)
<1> DEFINE old == LegacyDecoded(K, new)
<1>1. CASE k = "WORK_STATUS"
  <2> DEFINE fields == [activity |-> LegacyActivity[new[k]], task_status |-> new[k],
                        charging |-> new[k] \in {"Charging", "Completed"}]
  <2>1. new[k] \in DOMAIN LegacyActivity /\ new[k] = new.WORK_STATUS
    BY <1>1 DEF LegacyRobots
  <2>2. LegacyPoint(old, k, new[k]) = Give(old, fields)
    BY <1>1, <2>1 DEF LegacyPoint
  <2>3. DOMAIN fields = {"activity", "charging", "task_status"}
    OBVIOUS
  <2>4. /\ fields["activity"] = LegacyField("activity", new)
        /\ fields["charging"] = LegacyField("charging", new)
        /\ fields["task_status"] = LegacyField("task_status", new)
    BY <2>1 DEF LegacyField
  <2>5. LegacyGiven(K \cup {k}) = LegacyGiven(K) \cup DOMAIN fields
    BY <1>1, <2>3 DEF LegacyGiven
  <2> HIDE DEF fields
  <2>6. \A f \in DOMAIN fields : fields[f] = LegacyField(f, new)
    BY <2>3, <2>4
  <2>7. Give(old, fields) = LegacyDecoded(K \cup {k}, new)
    BY <2>5, <2>6, LegacyKeepsOthers
  <2> QED BY <2>2, <2>7
<1>2. CASE k = "ERROR_CODE"
  <2> DEFINE fields == [error_code |-> new[k]]
  <2>1. LegacyPoint(old, k, new[k]) = Give(old, fields)
    BY <1>2 DEF LegacyPoint
  <2>2. DOMAIN fields = {"error_code"} /\ fields["error_code"] = LegacyField("error_code", new)
    BY <1>2 DEF LegacyField
  <2>3. LegacyGiven(K \cup {k}) = LegacyGiven(K) \cup DOMAIN fields
    BY <1>2, <2>2 DEF LegacyGiven
  <2> HIDE DEF fields
  <2>4. Give(old, fields) = LegacyDecoded(K \cup {k}, new)
    BY <2>2, <2>3, LegacyKeepsOthers
  <2> QED BY <2>1, <2>4
<1>3. CASE k = "CLEAN_SPEED"
  <2> DEFINE fields == [fan_speed |-> new[k]]
  <2>1. LegacyPoint(old, k, new[k]) = Give(old, fields)
    BY <1>3 DEF LegacyPoint
  <2>2. DOMAIN fields = {"fan_speed"} /\ fields["fan_speed"] = LegacyField("fan_speed", new)
    BY <1>3 DEF LegacyField
  <2>3. LegacyGiven(K \cup {k}) = LegacyGiven(K) \cup DOMAIN fields
    BY <1>3, <2>2 DEF LegacyGiven
  <2> HIDE DEF fields
  <2>4. Give(old, fields) = LegacyDecoded(K \cup {k}, new)
    BY <2>2, <2>3, LegacyKeepsOthers
  <2> QED BY <2>1, <2>4
<1>4. CASE k = "PLAY_PAUSE"
  <2>1. LegacyPoint(old, k, new[k]) = old
    BY <1>4 DEF LegacyPoint
  <2>2. LegacyGiven(K \cup {k}) = LegacyGiven(K)
    BY <1>4 DEF LegacyGiven
  <2> QED BY <2>1, <2>2 DEF LegacyDecoded
<1> QED BY <1>1, <1>2, <1>3, <1>4 DEF LegacyKeys

LEMMA LegacyReportDecoded ==
  ASSUME NEW keys \in SUBSET LegacyKeys, NEW new \in LegacyRobots, NEW report,
         Says(report, keys, new), DOMAIN report = 1..Len(report)
  PROVE  LegacyChanges(report) = LegacyDecoded(keys, new)
<1> DEFINE L == Len(report)
           More(c, n) == LegacyPoint(c, report[n][1], report[n][2])
           Def(h) == [n \in 0..L |-> IF n = 0 THEN NoChange ELSE More(h[n - 1], n)]
           f == [n \in 0..L |-> LegacyDecoded(Upto(report, n), new)]
           upTo == CHOOSE h : h = Def(h)
<1>0. L \in Nat
  BY DEF Says
<1>1. f[0] = NoChange /\ 0 \in 0..L
  <2>1. LegacyDecoded({}, new) = NoChange
    BY DEF LegacyDecoded, LegacyGiven, NoChange
  <2>2. Upto(report, 0) = {}
    BY FirstAndAll
  <2>3. 0 \in 0..L
    BY <1>0
  <2>4. f[0] = LegacyDecoded(Upto(report, 0), new)
    BY <2>3
  <2> HIDE DEF f
  <2> QED BY <2>1, <2>2, <2>3, <2>4
<1>2. ASSUME NEW n \in 1..L PROVE f[n] = More(f[n - 1], n)
  <2>1. n \in 0..L /\ n - 1 \in 0..L
    BY <1>0
  <2>2. f[n] = LegacyDecoded(Upto(report, n), new) /\ f[n - 1] = LegacyDecoded(Upto(report, n - 1), new)
    BY <2>1
  <2>3. /\ report[n][1] \in keys /\ report[n][2] = new[report[n][1]]
        /\ Upto(report, n) = Upto(report, n - 1) \cup {report[n][1]}
        /\ Upto(report, n - 1) \subseteq keys
    BY OneMorePoint
  <2>4. LegacyPoint(LegacyDecoded(Upto(report, n - 1), new), report[n][1], new[report[n][1]]) =
          LegacyDecoded(Upto(report, n - 1) \cup {report[n][1]}, new)
    <3>1. Upto(report, n - 1) \in SUBSET LegacyKeys /\ report[n][1] \in LegacyKeys
      BY <2>3
    <3> QED BY <3>1, LegacyOneMore
  <2> QED BY <2>2, <2>3, <2>4
<1> HIDE DEF More
<1>4. f = Def(f)
  <2>1. ASSUME NEW n \in 0..L PROVE f[n] = IF n = 0 THEN NoChange ELSE More(f[n - 1], n)
    <3> HIDE DEF f
    <3>1. CASE n = 0
      BY <3>1, <1>1
    <3>2. CASE n # 0
      <4>1. n \in 1..L
        BY <3>2, <1>0
      <4> QED BY <4>1, <3>2, <1>2
    <3> QED BY <3>1, <3>2
  <2>2. DOMAIN f = 0..L /\ f = [n \in 0..L |-> f[n]]
    OBVIOUS
  <2> HIDE DEF f
  <2> QED BY <2>1, <2>2
<1>5. upTo = Def(upTo)
  <2> HIDE DEF f, Def
  <2> QED BY <1>4
<1> HIDE DEF f, upTo, L
<1>6. GoAlike(upTo, f, L)
  <2>1. upTo[0] = f[0]
    BY <1>1, <1>5
  <2>2. ASSUME NEW n \in 1..L, upTo[n - 1] = f[n - 1] PROVE upTo[n] = f[n]
    <3>1. n \in 0..L /\ n # 0
      BY <1>0
    <3>2. upTo[n] = More(upTo[n - 1], n)
      BY <3>1, <1>5
    <3> QED BY <3>2, <2>2, <1>2
  <2> QED BY <2>1, <2>2 DEF GoAlike
<1>7. upTo[L] = f[L]
  BY <1>0, <1>6, SameAllAlong DEF AreAlike
<1>8. f[L] = LegacyDecoded(keys, new)
  BY <1>0, FirstAndAll DEF f, L
<1>9. LegacyChanges(report) = upTo[L]
  BY DEF LegacyChanges, upTo, Def, More, L
<1> QED BY <1>7, <1>8, <1>9

-----------------------------------------------------------------------------
(***************************************************************************)
(* Reports of either kind of robot.                                        *)
(***************************************************************************)
Robots == IF Scalar THEN ScalarRobots ELSE LegacyRobots
PlainKeys == IF Scalar THEN ScalarKeys ELSE LegacyKeys

\* What a robot at new means by a report of its data points K.
Meant(state, K, new) ==
  Give(state, IF Scalar THEN ScalarMeant(state, K, new) ELSE LegacyDecoded(K, new))

Points == (ScalarKeys \cup LegacyKeys) \X (Nat \cup DOMAIN LegacyActivity \cup STRING \cup BOOLEAN)

\* report holds the data points keys of the robot at new, in some order.
SaysOf(report, keys, new) ==
  /\ keys \in SUBSET PlainKeys /\ new \in Robots
  /\ Says(report, keys, new) /\ DOMAIN report = 1..Len(report)

Reports == {r \in Seq(Points) : Len(r) <= 5 /\ \E keys, new : SaysOf(r, keys, new)}

LEMMA ReportIsDecoded ==
  ASSUME NEW report, NEW keys, NEW new, SaysOf(report, keys, new), NEW state
  PROVE  Parse(state, report) = Meant(state, keys, new)
<1>1. CASE Scalar
  <2>1. keys \in SUBSET ScalarKeys /\ new \in ScalarRobots
    BY <1>1 DEF SaysOf, PlainKeys, Robots
  <2>2. Says(report, keys, new) /\ DOMAIN report = 1..Len(report)
    BY DEF SaysOf
  <2>3. ScalarChanges(state, report) = ScalarMeant(state, keys, new)
    BY <2>1, <2>2, ScalarReportDecoded
  <2> QED BY <1>1, <2>3 DEF Parse, Meant
<1>2. CASE ~Scalar
  <2>1. keys \in SUBSET LegacyKeys /\ new \in LegacyRobots
    BY <1>2 DEF SaysOf, PlainKeys, Robots
  <2>2. Says(report, keys, new) /\ DOMAIN report = 1..Len(report)
    BY DEF SaysOf
  <2>3. LegacyChanges(report) = LegacyDecoded(keys, new)
    BY <2>1, <2>2, LegacyReportDecoded
  <2> QED BY <1>2, <2>3 DEF Parse, Meant
<1> QED BY <1>1, <1>2

\* A report in another order says the same.
LEMMA OtherOrderSays ==
  ASSUME NEW report \in Reports, NEW p \in Orders[Len(report)], NEW keys, NEW new,
         SaysOf(report, keys, new)
  PROVE  SaysOf([i \in 1..Len(report) |-> report[p[i]]], keys, new)
<1>1. PICK n \in Nat : n = Len(report) /\ n <= 5
  BY DEF Reports
<1> DEFINE other == [i \in 1..n |-> report[p[i]]]
<1>2. p \in Surjection(1..n, 1..n)
  BY <1>1 DEF Orders, Bijection
<1>3. /\ \A i \in 1..n : p[i] \in 1..n
      /\ \A j \in 1..n : \E i \in 1..n : p[i] = j
  BY <1>2 DEF Surjection
<1>4. Len(other) = n /\ DOMAIN other = 1..n /\ \A i \in 1..n : other[i] = report[p[i]]
  OBVIOUS
<1>5. /\ \A i \in 1..n : \E k \in keys : report[i] = <<k, new[k]>>
      /\ \A k \in keys : \E i \in 1..n : report[i] = <<k, new[k]>>
  BY <1>1 DEF SaysOf, Says
<1> HIDE DEF other
<1>6. \A i \in 1..n : \E k \in keys : other[i] = <<k, new[k]>>
  <2> SUFFICES ASSUME NEW i \in 1..n PROVE \E k \in keys : other[i] = <<k, new[k]>>
    OBVIOUS
  <2>1. p[i] \in 1..n
    BY <1>3
  <2>2. PICK k \in keys : report[p[i]] = <<k, new[k]>>
    BY <1>5, <2>1
  <2> QED BY <2>2, <1>4
<1>7. \A k \in keys : \E i \in 1..n : other[i] = <<k, new[k]>>
  <2> SUFFICES ASSUME NEW k \in keys PROVE \E i \in 1..n : other[i] = <<k, new[k]>>
    OBVIOUS
  <2>1. PICK j \in 1..n : report[j] = <<k, new[k]>>
    BY <1>5
  <2>2. PICK i \in 1..n : p[i] = j
    BY <1>3
  <2> QED BY <2>1, <2>2, <1>4
<1>8. SaysOf(other, keys, new)
  BY <1>4, <1>6, <1>7 DEF SaysOf, Says
<1> QED BY <1>1, <1>8 DEF other

LEMMA OrdersDecodeAlike ==
  ASSUME NEW report \in Reports, NEW p \in Orders[Len(report)]
  PROVE  Parse(view, [i \in 1..Len(report) |-> report[p[i]]]) = Parse(view, report)
<1>1. PICK keys, new : SaysOf(report, keys, new)
  BY DEF Reports
<1>2. SaysOf([i \in 1..Len(report) |-> report[p[i]]], keys, new)
  BY <1>1, OtherOrderSays
<1> QED BY <1>1, <1>2, ReportIsDecoded

\* The robot lists what it means to report, in one order or the other.
LEMMA UpToFive ==
  ASSUME NEW a, NEW b, NEW c, NEW d, NEW e, NEW S \in SUBSET {a, b, c, d, e}
  PROVE  IsFiniteSet(S) /\ Cardinality(S) \in Nat /\ Cardinality(S) <= 5
<1>1. IsFiniteSet({a}) /\ Cardinality({a}) = 1
  BY FS_Singleton
<1>2. IsFiniteSet({a} \cup {b}) /\ Cardinality({a} \cup {b}) <= 2
  BY <1>1, FS_AddElement
<1> DEFINE T == {a} \cup {b}
<1>3. IsFiniteSet(T \cup {c}) /\ Cardinality(T \cup {c}) <= 3
  <2>1. IsFiniteSet(T) /\ Cardinality(T) <= 2 /\ Cardinality(T) \in Nat
    BY <1>2, FS_CardinalityType
  <2> HIDE DEF T
  <2> QED BY <2>1, FS_AddElement
<1> DEFINE U == T \cup {c}
<1>4. IsFiniteSet(U \cup {d}) /\ Cardinality(U \cup {d}) <= 4
  <2>1. IsFiniteSet(U) /\ Cardinality(U) <= 3 /\ Cardinality(U) \in Nat
    BY <1>3, FS_CardinalityType
  <2> HIDE DEF U
  <2> QED BY <2>1, FS_AddElement
<1> DEFINE V == U \cup {d}
<1>5. IsFiniteSet(V \cup {e}) /\ Cardinality(V \cup {e}) <= 5
  <2>1. IsFiniteSet(V) /\ Cardinality(V) <= 4 /\ Cardinality(V) \in Nat
    BY <1>4, FS_CardinalityType
  <2> HIDE DEF V
  <2> QED BY <2>1, FS_AddElement
<1>6. V \cup {e} = {a, b, c, d, e}
  OBVIOUS
<1> DEFINE W == {a, b, c, d, e}
<1>7. IsFiniteSet(W) /\ Cardinality(W) <= 5 /\ Cardinality(W) \in Nat
  BY <1>5, <1>6, FS_CardinalityType
<1> HIDE DEF W
<1>8. S \in SUBSET W
  BY DEF W
<1> HIDE DEF V
<1>9. IsFiniteSet(S) /\ Cardinality(S) <= Cardinality(W)
  BY <1>7, <1>8, FS_Subset
<1>10. Cardinality(S) \in Nat
  BY <1>9, FS_CardinalityType
<1> QED BY <1>7, <1>9, <1>10

LEMMA ListedAll ==
  ASSUME NEW S, IsFiniteSet(S)
  PROVE  /\ SetToSeq(S) \in [1..Cardinality(S) -> S]
         /\ \A t \in S : \E i \in 1..Cardinality(S) : SetToSeq(S)[i] = t
<1> DEFINE n == Cardinality(S)
           f == SetToSeq(S)
<1>1. n \in Nat /\ ExistsBijection(1..n, S)
  BY FS_CardinalityType
<1>2. f \in Injection(1..n, S)
  BY <1>1 DEF SetToSeq, ExistsBijection, Bijection, Injection
<1>3. f \in Surjection(1..n, S)
  <2>1. IsFiniteSet(1..n) /\ Cardinality(1..n) = n
    BY <1>1, FS_Interval
  <2> HIDE DEF f
  <2> QED BY <2>1, <1>2, FS_Injection
<1> HIDE DEF f
<1>4. f \in [1..n -> S] /\ \A t \in S : \E s \in 1..n : f[s] = t
  BY <1>3 DEF Surjection
<1> QED BY <1>4 DEF f

LEMMA PointsAreFew ==
  ASSUME NEW new \in Robots, NEW keys \in SUBSET PlainKeys
  PROVE  LET S == {<<k, new[k]>> : k \in keys}
         IN  /\ IsFiniteSet(S) /\ Cardinality(S) \in Nat /\ Cardinality(S) <= 5
             /\ S \subseteq Points
<1> DEFINE S == {<<k, new[k]>> : k \in keys}
           Values == Nat \cup DOMAIN LegacyActivity \cup STRING \cup BOOLEAN
           At(k) == <<k, new[k]>>
<1>1. \A k \in PlainKeys : k \in ScalarKeys \cup LegacyKeys /\ new[k] \in Values
  <2>1. CASE Scalar
    <3>1. PlainKeys = ScalarKeys /\ new \in ScalarRobots
      BY <2>1 DEF PlainKeys, Robots
    <3>2. new \in ScalarPoints
      BY <3>1 DEF ScalarRobots
    <3>3. /\ new["STATE"] \in {1, 2, 4, 5, 7} /\ new["PAUSE"] \in {0, 1}
          /\ new["ERROR_CODE"] \in {0} /\ new["ERROR_CODE_ALT"] \in Faults \cup {0}
          /\ new["SUCTION"] \in 0..(Len(Suctions) - 1)
      BY <3>2 DEF ScalarPoints
    <3>4. /\ {1, 2, 4, 5, 7} \subseteq Nat /\ {0, 1} \subseteq Nat /\ {0} \subseteq Nat
          /\ Faults \cup {0} \subseteq Nat /\ 0..(Len(Suctions) - 1) \subseteq Nat
      BY FaultsAreCodes, SuctionsAreNames
    <3> DEFINE A == {1, 2, 4, 5, 7}
               B == {0, 1}
               C == {0}
               D == Faults \cup {0}
               E == 0..(Len(Suctions) - 1)
    <3> HIDE DEF A, B, C, D, E
    <3>5. /\ new["STATE"] \in Values /\ new["PAUSE"] \in Values /\ new["ERROR_CODE"] \in Values
          /\ new["ERROR_CODE_ALT"] \in Values /\ new["SUCTION"] \in Values
      BY <3>3, <3>4, Zenon DEF A, B, C, D, E
    <3> HIDE DEF Values
    <3>6. \A k \in ScalarKeys : new[k] \in Values
      BY <3>5 DEF ScalarKeys
    <3> QED BY <3>1, <3>6
  <2>2. CASE ~Scalar
    <3>1. PlainKeys = LegacyKeys /\ new \in LegacyRobots
      BY <2>2 DEF PlainKeys, Robots
    <3>3. /\ new["WORK_STATUS"] \in DOMAIN LegacyActivity /\ new["PLAY_PAUSE"] \in BOOLEAN
          /\ new["ERROR_CODE"] \in Faults \cup {0} /\ new["CLEAN_SPEED"] \in STRING
      BY <3>1 DEF LegacyRobots
    <3>4. Faults \cup {0} \subseteq Nat
      BY FaultsAreCodes
    <3>6. /\ new["WORK_STATUS"] \in Values /\ new["PLAY_PAUSE"] \in Values
          /\ new["ERROR_CODE"] \in Values /\ new["CLEAN_SPEED"] \in Values
      BY <3>3, <3>4, Zenon
    <3> HIDE DEF Values
    <3>7. \A k \in LegacyKeys : new[k] \in Values
      BY <3>6 DEF LegacyKeys
    <3> QED BY <3>1, <3>7
  <2> QED BY <2>1, <2>2
<1>2. S \subseteq Points
  BY <1>1 DEF Points
<1>3. \E a, b, c, d, e : S \in SUBSET {a, b, c, d, e}
  <2>1. CASE Scalar
    <3>1. S \in SUBSET {At("STATE"), At("PAUSE"), At("ERROR_CODE"), At("ERROR_CODE_ALT"), At("SUCTION")}
      BY <2>1 DEF PlainKeys, ScalarKeys
    <3> HIDE DEF At, S
    <3> QED BY <3>1
  <2>2. CASE ~Scalar
    <3>1. S \in SUBSET {At("WORK_STATUS"), At("PLAY_PAUSE"), At("ERROR_CODE"), At("CLEAN_SPEED"), At("CLEAN_SPEED")}
      BY <2>2 DEF PlainKeys, LegacyKeys
    <3> HIDE DEF At, S
    <3> QED BY <3>1
  <2> QED BY <2>1, <2>2
<1> HIDE DEF S
<1>4. IsFiniteSet(S) /\ Cardinality(S) \in Nat /\ Cardinality(S) <= 5
  BY <1>3, UpToFive
<1> QED BY <1>2, <1>4 DEF S

LEMMA ReportSays ==
  ASSUME NEW new \in Robots, NEW keys \in SUBSET PlainKeys, NEW r \in Report(keys, new)
  PROVE  r \in Reports /\ SaysOf(r, keys, new)
<1> DEFINE S == {<<k, new[k]>> : k \in keys}
<1>1. IsFiniteSet(S) /\ Cardinality(S) \in Nat /\ Cardinality(S) <= 5 /\ S \subseteq Points
  BY PointsAreFew
<1>2. r = SetToSeq(S) \/ r = Reverse(SetToSeq(S))
  BY DEF Report
<1>3. PICK n \in Nat : n = Cardinality(S) /\ n <= 5
  BY <1>1
<1>4. PICK f : f = SetToSeq(S)
  OBVIOUS
<1>5. /\ \A x \in S : \E k \in keys : x = <<k, new[k]>>
      /\ \A k \in keys : <<k, new[k]>> \in S
  OBVIOUS
<1> HIDE DEF S
<1>6. f \in [1..n -> S] /\ \A t \in S : \E i \in 1..n : f[i] = t
  BY <1>1, <1>3, <1>4, ListedAll
<1>7. f \in Seq(S) /\ Len(f) = n
  BY <1>6
<1>8. Reverse(f) \in [1..n -> S] /\ \A t \in S : \E i \in 1..n : Reverse(f)[i] = t
  <2>1. Reverse(f) = [i \in 1..n |-> f[(n - i) + 1]]
    BY <1>7 DEF Reverse
  <2>2. \A i \in 1..n : (n - i) + 1 \in 1..n /\ (n - ((n - i) + 1)) + 1 = i
    OBVIOUS
  <2>3. Reverse(f) \in [1..n -> S]
    BY <2>1, <2>2, <1>6
  <2>4. ASSUME NEW t \in S PROVE \E i \in 1..n : Reverse(f)[i] = t
    <3>1. PICK j \in 1..n : f[j] = t
      BY <1>6
    <3>2. PICK i \in 1..n : i = (n - j) + 1 /\ (n - i) + 1 = j
      BY <2>2
    <3>3. Reverse(f)[i] = f[(n - i) + 1]
      BY <2>1
    <3> QED BY <3>1, <3>2, <3>3
  <2> QED BY <2>3, <2>4
<1>9. r \in [1..n -> S] /\ \A t \in S : \E i \in 1..n : r[i] = t
  BY <1>2, <1>4, <1>6, <1>8
<1>10. r \in Seq(S) /\ Len(r) = n /\ DOMAIN r = 1..n
  BY <1>9
<1>11. r \in Seq(Points)
  BY <1>1, <1>10
<1>12. Says(r, keys, new)
  <2>1. \A i \in 1..n : \E k \in keys : r[i] = <<k, new[k]>>
    BY <1>5, <1>9
  <2>2. \A k \in keys : \E i \in 1..n : r[i] = <<k, new[k]>>
    BY <1>5, <1>9
  <2> QED BY <2>1, <2>2, <1>10 DEF Says
<1>13. SaysOf(r, keys, new)
  BY <1>10, <1>12 DEF SaysOf
<1> QED BY <1>3, <1>10, <1>11, <1>13 DEF Reports

-----------------------------------------------------------------------------
(***************************************************************************)
(* What a report shows.                                                    *)
(***************************************************************************)
\* The activity of a scalar robot seen before as before, with the motion flag.
Weighed(before, K, new) ==
  LET a == IF "STATE" \in K THEN ScalarActivity(new.STATE) ELSE before
  IN  IF "PAUSE" \in K /\ new["PAUSE"] = 1 /\ a = "cleaning" THEN "paused" ELSE a

\* The state r after a report of data points K: the robot's own fields
\* where it names them, the earlier ones elsewhere.
Shows(r, state, K, new) ==
  /\ DOMAIN r = Fields
  /\ r.activity = IF Scalar THEN Weighed(state.activity, K, new)
                  ELSE IF "WORK_STATUS" \in K THEN LegacyActivity[new.WORK_STATUS]
                  ELSE state.activity
  /\ r.error_code = IF Scalar /\ "ERROR_CODE_ALT" \in K THEN new.ERROR_CODE_ALT
                    ELSE IF Scalar /\ "ERROR_CODE" \in K THEN 0
                    ELSE IF ~Scalar /\ "ERROR_CODE" \in K THEN new.ERROR_CODE
                    ELSE state.error_code
  /\ r.fan_speed = IF Scalar /\ "SUCTION" \in K THEN Suctions[new.SUCTION + 1]
                   ELSE IF ~Scalar /\ "CLEAN_SPEED" \in K THEN new.CLEAN_SPEED
                   ELSE state.fan_speed

LEMMA GivenFields ==
  ASSUME NEW state, NEW ch, DOMAIN state = Fields, DOMAIN ch \subseteq Fields
  PROVE  /\ DOMAIN Give(state, ch) = Fields
         /\ \A f \in Fields : Give(state, ch)[f] = IF f \in DOMAIN ch THEN ch[f] ELSE state[f]
<1>1. DOMAIN state \cup DOMAIN ch = Fields
  OBVIOUS
<1>2. Give(state, ch) = [f \in Fields |-> IF f \in DOMAIN ch THEN ch[f] ELSE state[f]]
  BY <1>1 DEF Give
<1> QED BY <1>2

LEMMA ScalarShows ==
  ASSUME Scalar, NEW state, DOMAIN state = Fields, NEW K, NEW new
  PROVE  Shows(Meant(state, K, new), state, K, new)
<1> DEFINE ch == ScalarDecoded(K, new)
           stop == [activity |-> "paused", task_status |-> "Paused"]
           s == Give(state, ch)
           r == Meant(state, K, new)
           Given == ScalarGiven(K)
<1>1. DOMAIN ch = Given /\ \A f \in Given : ch[f] = ScalarField(f, K, new)
  BY DEF ScalarDecoded
<1>2. Given \subseteq Fields
  BY DEF ScalarGiven, Fields
<1>3. /\ DOMAIN s = Fields
      /\ \A f \in Fields : s[f] = IF f \in Given THEN ScalarField(f, K, new) ELSE state[f]
  <2> HIDE DEF ch, Given
  <2> QED BY <1>1, <1>2, GivenFields
<1>4. DOMAIN stop = {"activity", "task_status"} /\ stop["activity"] = "paused"
  OBVIOUS
<1>5. /\ DOMAIN Give(ch, stop) = Given \cup {"activity", "task_status"}
      /\ \A f \in Given : f \notin {"activity", "task_status"} => Give(ch, stop)[f] = ch[f]
      /\ Give(ch, stop)["activity"] = "paused"
  <2> HIDE DEF ch, stop, Given
  <2> QED BY <1>1, <1>4 DEF Give
<1>6. /\ "activity" \in Given <=> "STATE" \in K
      /\ "error_code" \in Given <=> "ERROR_CODE" \in K \/ "ERROR_CODE_ALT" \in K
      /\ "fan_speed" \in Given <=> "SUCTION" \in K
  BY DEF ScalarGiven
<1>7. /\ ScalarField("activity", K, new) = ScalarActivity(new.STATE)
      /\ ScalarField("error_code", K, new) =
           IF "ERROR_CODE_ALT" \in K THEN new.ERROR_CODE_ALT ELSE 0
      /\ ScalarField("fan_speed", K, new) = Suctions[new.SUCTION + 1]
  BY DEF ScalarField
<1>8. "activity" \in Fields /\ "error_code" \in Fields /\ "fan_speed" \in Fields
      /\ "task_status" \in Fields
  BY DEF Fields
<1> DEFINE Stops == "PAUSE" \in K /\ new["PAUSE"] = 1 /\ s["activity"] = "cleaning"
<1>9. r = Give(state, IF Stops THEN Give(ch, stop) ELSE ch)
  BY DEF Meant, ScalarMeant
<1>10. s["activity"] = IF "STATE" \in K THEN ScalarActivity(new.STATE) ELSE state["activity"]
  <2> HIDE DEF s, Given
  <2> QED BY <1>3, <1>6, <1>7, <1>8
<1>11. Weighed(state["activity"], K, new) = IF Stops THEN "paused" ELSE s["activity"]
  <2> HIDE DEF s
  <2> QED BY <1>10 DEF Weighed
<1> HIDE DEF ch, stop, s, Given, Stops
<1>12. /\ DOMAIN r = Fields
       /\ r["activity"] = IF Stops THEN "paused" ELSE s["activity"]
       /\ r["error_code"] = s["error_code"] /\ r["fan_speed"] = s["fan_speed"]
  <2>1. CASE Stops
    <3>1. r = Give(state, Give(ch, stop))
      BY <1>9, <2>1
    <3>2. DOMAIN Give(ch, stop) \subseteq Fields
      BY <1>2, <1>5, <1>8
    <3>3. /\ DOMAIN r = Fields
          /\ \A f \in Fields : r[f] = IF f \in DOMAIN Give(ch, stop) THEN Give(ch, stop)[f] ELSE state[f]
      <4> HIDE DEF r
      <4> QED BY <3>1, <3>2, GivenFields
    <3> HIDE DEF r
    <3>4. r["activity"] = "paused"
      BY <3>3, <1>5, <1>8
    <3>5. ASSUME NEW f \in {"error_code", "fan_speed"} PROVE r[f] = s[f]
      <4>1. f \in Fields /\ f \notin {"activity", "task_status"}
        BY <1>8
      <4>2. CASE f \in Given
        BY <4>1, <4>2, <3>3, <1>1, <1>3, <1>5
      <4>3. CASE f \notin Given
        BY <4>1, <4>3, <3>3, <1>3, <1>5
      <4> QED BY <4>2, <4>3
    <3> QED BY <2>1, <3>3, <3>4, <3>5
  <2>2. CASE ~Stops
    <3>1. r = s
      BY <1>9, <2>2 DEF s
    <3> HIDE DEF r
    <3> QED BY <2>2, <3>1, <1>3
  <2> QED BY <2>1, <2>2
<1> HIDE DEF r
<1>13. s["error_code"] = IF "ERROR_CODE_ALT" \in K THEN new.ERROR_CODE_ALT
                         ELSE IF "ERROR_CODE" \in K THEN 0 ELSE state["error_code"]
  BY <1>3, <1>6, <1>7, <1>8
<1>14. s["fan_speed"] = IF "SUCTION" \in K THEN Suctions[new.SUCTION + 1] ELSE state["fan_speed"]
  BY <1>3, <1>6, <1>7, <1>8
<1>15. Shows(r, state, K, new)
  BY <1>11, <1>12, <1>13, <1>14 DEF Shows
<1> QED BY <1>15 DEF r

LEMMA LegacyShows ==
  ASSUME ~Scalar, NEW state, DOMAIN state = Fields, NEW K, NEW new
  PROVE  Shows(Meant(state, K, new), state, K, new)
<1> DEFINE ch == LegacyDecoded(K, new)
           r == Meant(state, K, new)
           Given == LegacyGiven(K)
<1>1. DOMAIN ch = Given /\ \A f \in Given : ch[f] = LegacyField(f, new)
  BY DEF LegacyDecoded
<1>2. Given \subseteq Fields
  BY DEF LegacyGiven, Fields
<1>3. r = Give(state, ch)
  BY DEF Meant
<1>4. /\ DOMAIN r = Fields
      /\ \A f \in Fields : r[f] = IF f \in Given THEN LegacyField(f, new) ELSE state[f]
  <2> HIDE DEF ch, Given, r
  <2> QED BY <1>1, <1>2, <1>3, GivenFields
<1>5. /\ "activity" \in Given <=> "WORK_STATUS" \in K
      /\ "error_code" \in Given <=> "ERROR_CODE" \in K
      /\ "fan_speed" \in Given <=> "CLEAN_SPEED" \in K
  BY DEF LegacyGiven
<1>6. /\ LegacyField("activity", new) = LegacyActivity[new.WORK_STATUS]
      /\ LegacyField("error_code", new) = new.ERROR_CODE
      /\ LegacyField("fan_speed", new) = new.CLEAN_SPEED
  BY DEF LegacyField
<1>7. "activity" \in Fields /\ "error_code" \in Fields /\ "fan_speed" \in Fields
  BY DEF Fields
<1> HIDE DEF ch, r, Given
<1>8. /\ r["activity"] = IF "WORK_STATUS" \in K THEN LegacyActivity[new.WORK_STATUS] ELSE state["activity"]
      /\ r["error_code"] = IF "ERROR_CODE" \in K THEN new.ERROR_CODE ELSE state["error_code"]
      /\ r["fan_speed"] = IF "CLEAN_SPEED" \in K THEN new.CLEAN_SPEED ELSE state["fan_speed"]
  BY <1>4, <1>5, <1>6, <1>7
<1>9. Shows(r, state, K, new)
  BY <1>4, <1>8 DEF Shows
<1> QED BY <1>9 DEF r

LEMMA ReportShows ==
  ASSUME NEW state, DOMAIN state = Fields, NEW report, NEW keys, NEW new,
         SaysOf(report, keys, new)
  PROVE  Shows(Parse(state, report), state, keys, new)
BY ReportIsDecoded, ScalarShows, LegacyShows

\* HandleReport's new value of unmoved.
UnmovedBy(v, u, report) ==
  /\ "STATE" \notin Keys(report)
  /\ IF "PAUSE" \in Keys(report)
     THEN v.activity = "paused" /\ <<"PAUSE", 1>> \notin ToSet(report)
     ELSE u

\* What the robot is doing.
ActivityOf(r) ==
  IF ~Scalar THEN LegacyActivity[r.WORK_STATUS]
  ELSE IF r.STATE = 2 /\ r.PAUSE = 1 THEN "paused"
  ELSE ScalarActivity(r.STATE)

\* The state shows the robot, or one that moved on without a word.
Resembles(v, u, r) ==
  /\ DOMAIN v = Fields /\ u \in BOOLEAN
  /\ v.error_code = IF Scalar THEN r.ERROR_CODE_ALT ELSE r.ERROR_CODE
  /\ v.fan_speed = IF Scalar THEN Suctions[r.SUCTION + 1] ELSE r.CLEAN_SPEED
  /\ u => Scalar /\ v.activity = "paused" /\ r.STATE = 2 /\ r.PAUSE = 0
  /\ ~u => v.activity = ActivityOf(r)

\* A standing robot does not begin to clean where it stands.
Goes(old, new) == Scalar /\ new.STATE = 2 /\ new.PAUSE = 1 => old.STATE = 2

\* A report holds what changed, or all.
Covers(K, old, new) == K = PlainKeys \/ K = {k \in PlainKeys : old[k] # new[k]}

LEMMA ScalarActivities ==
  /\ ScalarActivity(1) = "idle" /\ ScalarActivity(2) = "cleaning"
  /\ ScalarActivity(4) = "returning" /\ ScalarActivity(5) = "docked"
  /\ ScalarActivity(7) = "paused"
BY DEF ScalarActivity

LEMMA ScalarFollows ==
  ASSUME Scalar, NEW old \in ScalarRobots, NEW new \in ScalarRobots, Goes(old, new),
         NEW K \in SUBSET ScalarKeys, Covers(K, old, new),
         NEW v, NEW u \in BOOLEAN, Resembles(v, u, old), NEW s, Shows(s, v, K, new), NEW t,
         t <=> /\ "STATE" \notin K
               /\ IF "PAUSE" \in K THEN v.activity = "paused" /\ new.PAUSE # 1 ELSE u,
         t \in BOOLEAN
  PROVE  Resembles(s, t, new)
<1>1. /\ new.STATE \in {1, 2, 4, 5, 7} /\ new.PAUSE \in {0, 1}
      /\ old.STATE \in {1, 2, 4, 5, 7} /\ old.PAUSE \in {0, 1}
      /\ new.STATE \in {1, 5, 7} => new.PAUSE = 1
      /\ new.STATE = 4 => new.PAUSE = 0
      /\ new.ERROR_CODE = 0 /\ old.ERROR_CODE = 0
  BY DEF ScalarRobots, ScalarPoints
<1>2. /\ "STATE" \notin K => old.STATE = new.STATE
      /\ "PAUSE" \notin K => old.PAUSE = new.PAUSE
      /\ "ERROR_CODE_ALT" \notin K => old.ERROR_CODE_ALT = new.ERROR_CODE_ALT
      /\ "SUCTION" \notin K => old.SUCTION = new.SUCTION
      /\ "STATE" \in K /\ "PAUSE" \notin K => old.STATE # new.STATE
      /\ "ERROR_CODE" \in K => "ERROR_CODE_ALT" \in K
  <2>1. PlainKeys = ScalarKeys
    BY DEF PlainKeys
  <2>2. CASE K = ScalarKeys
    BY <2>2 DEF ScalarKeys
  <2>3. CASE K = {k \in ScalarKeys : old[k] # new[k]}
    <3>1. \A k \in ScalarKeys : k \in K <=> old[k] # new[k]
      BY <2>3
    <3> HIDE <2>3
    <3> QED BY <3>1, <1>1 DEF ScalarKeys
  <2> QED BY <2>1, <2>2, <2>3 DEF Covers
<1>3. /\ DOMAIN s = Fields
      /\ s.activity = Weighed(v.activity, K, new)
      /\ s.error_code = IF "ERROR_CODE_ALT" \in K THEN new.ERROR_CODE_ALT
                        ELSE IF "ERROR_CODE" \in K THEN 0 ELSE v.error_code
      /\ s.fan_speed = IF "SUCTION" \in K THEN Suctions[new.SUCTION + 1] ELSE v.fan_speed
  BY DEF Shows
<1>4. /\ v.error_code = old.ERROR_CODE_ALT /\ v.fan_speed = Suctions[old.SUCTION + 1]
      /\ u => v.activity = "paused" /\ old.STATE = 2 /\ old.PAUSE = 0
      /\ ~u => v.activity = ActivityOf(old)
  BY DEF Resembles
<1>5. s.fan_speed = Suctions[new.SUCTION + 1]
  BY <1>2, <1>3, <1>4
<1>6. s.activity = IF t THEN "paused" ELSE ActivityOf(new)
  BY <1>1, <1>2, <1>3, <1>4, ScalarActivities DEF Weighed, ActivityOf, Goes
<1>7. t => new.STATE = 2 /\ new.PAUSE = 0
  BY <1>1, <1>2, <1>3, <1>4, ScalarActivities DEF ActivityOf
<1>8. s.error_code = new.ERROR_CODE_ALT
  BY <1>2, <1>3, <1>4
<1> QED BY <1>3, <1>5, <1>6, <1>7, <1>8 DEF Resembles

LEMMA LegacyFollows ==
  ASSUME ~Scalar, NEW old, NEW new, NEW K \in SUBSET LegacyKeys, Covers(K, old, new),
         NEW v, NEW u \in BOOLEAN, Resembles(v, u, old), NEW s, Shows(s, v, K, new)
  PROVE  Resembles(s, u, new)
<1>1. /\ "WORK_STATUS" \notin K => old.WORK_STATUS = new.WORK_STATUS
      /\ "ERROR_CODE" \notin K => old.ERROR_CODE = new.ERROR_CODE
      /\ "CLEAN_SPEED" \notin K => old.CLEAN_SPEED = new.CLEAN_SPEED
  <2>1. PlainKeys = LegacyKeys
    BY DEF PlainKeys
  <2>2. CASE K = LegacyKeys
    BY <2>2 DEF LegacyKeys
  <2>3. CASE K = {k \in LegacyKeys : old[k] # new[k]}
    <3>1. \A k \in LegacyKeys : k \in K <=> old[k] # new[k]
      BY <2>3
    <3> HIDE <2>3
    <3> QED BY <3>1 DEF LegacyKeys
  <2> QED BY <2>1, <2>2, <2>3 DEF Covers
<1> QED BY <1>1 DEF Resembles, Shows, ActivityOf

\* After a report of what changed, or of all, the state shows the new robot.
LEMMA ReportFollows ==
  ASSUME NEW old \in Robots, NEW new \in Robots, Goes(old, new), NEW report, NEW K,
         SaysOf(report, K, new), Covers(K, old, new), NEW v, NEW u, Resembles(v, u, old)
  PROVE  Resembles(Parse(v, report), UnmovedBy(v, u, report), new)
<1>1. /\ K \in SUBSET PlainKeys /\ Says(report, K, new) /\ DOMAIN report = 1..Len(report)
      /\ u \in BOOLEAN /\ DOMAIN v = Fields
  BY DEF SaysOf, Resembles
<1>2. Shows(Parse(v, report), v, K, new)
  BY <1>1, ReportShows
<1>3. /\ <<"PAUSE", 1>> \in ToSet(report) <=> "PAUSE" \in K /\ new["PAUSE"] = 1
      /\ Keys(report) = K
  BY <1>1, FlagIsFound
<1>4. /\ UnmovedBy(v, u, report) <=>
           /\ "STATE" \notin K
           /\ IF "PAUSE" \in K THEN v.activity = "paused" /\ new.PAUSE # 1 ELSE u
      /\ UnmovedBy(v, u, report) \in BOOLEAN
  BY <1>1, <1>3 DEF UnmovedBy
<1>5. CASE Scalar
  <2>1. old \in ScalarRobots /\ new \in ScalarRobots /\ K \in SUBSET ScalarKeys
    BY <1>1, <1>5 DEF Robots, PlainKeys
  <2> QED BY <1>1, <1>2, <1>4, <1>5, <2>1, ScalarFollows
<1>6. CASE ~Scalar
  <2>1. K \in SUBSET LegacyKeys /\ "STATE" \notin K /\ "PAUSE" \notin K
    BY <1>1, <1>6 DEF PlainKeys, LegacyKeys
  <2>2. UnmovedBy(v, u, report) = u
    BY <1>1, <1>4, <2>1
  <2>3. Resembles(Parse(v, report), u, new)
    BY <1>1, <1>2, <1>6, <2>1, LegacyFollows
  <2> QED BY <2>2, <2>3
<1> QED BY <1>5, <1>6

\* A report of all shows the robot whatever was shown.
LEMMA AllIsShown ==
  ASSUME NEW new \in Robots, NEW report, SaysOf(report, PlainKeys, new),
         NEW v, DOMAIN v = Fields
  PROVE  Resembles(Parse(v, report), FALSE, new)
<1>1. Shows(Parse(v, report), v, PlainKeys, new)
  BY ReportShows
<1>2. CASE Scalar
  <2>1. PlainKeys = ScalarKeys /\ new \in ScalarRobots
    BY <1>2 DEF PlainKeys, Robots
  <2>2. /\ "STATE" \in ScalarKeys /\ "PAUSE" \in ScalarKeys /\ "ERROR_CODE_ALT" \in ScalarKeys
        /\ "SUCTION" \in ScalarKeys
    BY DEF ScalarKeys
  <2>3. /\ new.STATE \in {1, 2, 4, 5, 7} /\ new.PAUSE \in {0, 1}
        /\ new.STATE \in {1, 5, 7} => new.PAUSE = 1
        /\ new.STATE = 4 => new.PAUSE = 0
    BY <2>1 DEF ScalarRobots, ScalarPoints
  <2>4. Weighed(v.activity, ScalarKeys, new) = ActivityOf(new)
    BY <1>2, <2>2, <2>3, ScalarActivities DEF Weighed, ActivityOf
  <2> QED BY <1>1, <1>2, <2>1, <2>2, <2>4 DEF Shows, Resembles
<1>3. CASE ~Scalar
  <2>1. PlainKeys = LegacyKeys
    BY <1>3 DEF PlainKeys
  <2>2. "WORK_STATUS" \in LegacyKeys /\ "ERROR_CODE" \in LegacyKeys /\ "CLEAN_SPEED" \in LegacyKeys
    BY DEF LegacyKeys
  <2> QED BY <1>1, <1>3, <2>1, <2>2 DEF Shows, Resembles, ActivityOf
<1> QED BY <1>2, <1>3

-----------------------------------------------------------------------------
(***************************************************************************)
(* Reports on their way.                                                   *)
(***************************************************************************)
ParseBy(scalar, state, report) ==
  Give(state, IF scalar THEN ScalarChanges(state, report) ELSE LegacyChanges(report))

\* V and U are the states shown and the flags while q is handled.
Follows(scalar, q, V, U) ==
  \A i \in 1..Len(q) : /\ V[i] = ParseBy(scalar, V[i - 1], q[i])
                       /\ U[i] = UnmovedBy(V[i - 1], U[i - 1], q[i])

\* Handling the reports of q turns v and u into w and x.
Leads(scalar, q, v, u, w, x) ==
  \E V, U : /\ V[0] = v /\ U[0] = u
            /\ Follows(scalar, q, V, U)
            /\ V[Len(q)] = w /\ U[Len(q)] = x

LEMMA NoneLeads ==
  ASSUME NEW scalar, NEW v, NEW u
  PROVE  Leads(scalar, <<>>, v, u, v, u)
<1> DEFINE V == [i \in {0} |-> v]
           U == [i \in {0} |-> u]
<1>1. V[0] = v /\ U[0] = u
  OBVIOUS
<1>2. Len(<<>>) = 0 /\ 1..0 = {}
  OBVIOUS
<1> HIDE DEF V, U
<1>3. Follows(scalar, <<>>, V, U)
  BY <1>2 DEF Follows
<1> QED BY <1>1, <1>2, <1>3 DEF Leads

LEMMA NoneLeadsOnlyHere ==
  ASSUME NEW scalar, NEW v, NEW u, NEW w, NEW x, Leads(scalar, <<>>, v, u, w, x)
  PROVE  w = v /\ x = u
<1>1. Len(<<>>) = 0
  OBVIOUS
<1> QED BY <1>1 DEF Leads

LEMMA FirstLeads ==
  ASSUME NEW S, NEW q \in Seq(S), q # <<>>, NEW scalar, NEW v, NEW u, NEW w, NEW x,
         Leads(scalar, q, v, u, w, x)
  PROVE  Leads(scalar, Tail(q), ParseBy(scalar, v, q[1]), UnmovedBy(v, u, q[1]), w, x)
<1>1. PICK V, U : /\ V[0] = v /\ U[0] = u
                  /\ Follows(scalar, q, V, U)
                  /\ V[Len(q)] = w /\ U[Len(q)] = x
  BY DEF Leads
<1>2. PICK n \in Nat : n + 1 = Len(q)
  <2>1. Len(q) \in Nat \ {0}
    OBVIOUS
  <2>2. Len(q) - 1 \in Nat /\ (Len(q) - 1) + 1 = Len(q)
    BY <2>1
  <2> QED BY <2>2
<1>3. Len(Tail(q)) = n /\ \A i \in 1..n : Tail(q)[i] = q[i + 1]
  BY <1>2
<1> DEFINE V1 == [i \in 0..n |-> V[i + 1]]
           U1 == [i \in 0..n |-> U[i + 1]]
<1>4. /\ \A i \in 0..n : V1[i] = V[i + 1] /\ U1[i] = U[i + 1]
      /\ 0 \in 0..n /\ n \in 0..n /\ 0 + 1 = 1
  OBVIOUS
<1>5. \A i \in 1..n : i \in 0..n /\ i - 1 \in 0..n /\ i + 1 \in 1..(n + 1)
                      /\ (i + 1) - 1 = i /\ (i - 1) + 1 = i
  OBVIOUS
<1>6. 1 \in 1..(n + 1) /\ 1 - 1 = 0
  OBVIOUS
<1> HIDE DEF V1, U1
<1>7. V1[0] = ParseBy(scalar, v, q[1]) /\ U1[0] = UnmovedBy(v, u, q[1])
  BY <1>1, <1>2, <1>4, <1>6 DEF Follows
<1>8. V1[n] = w /\ U1[n] = x
  BY <1>1, <1>2, <1>4
<1>9. Follows(scalar, Tail(q), V1, U1)
  <2> SUFFICES ASSUME NEW i \in 1..n
               PROVE  /\ V1[i] = ParseBy(scalar, V1[i - 1], Tail(q)[i])
                      /\ U1[i] = UnmovedBy(V1[i - 1], U1[i - 1], Tail(q)[i])
    BY <1>3 DEF Follows
  <2>1. i \in 0..n /\ i - 1 \in 0..n /\ i + 1 \in 1..Len(q) /\ (i + 1) - 1 = i /\ (i - 1) + 1 = i
    BY <1>2, <1>5
  <2>2. /\ V[i + 1] = ParseBy(scalar, V[i], q[i + 1])
        /\ U[i + 1] = UnmovedBy(V[i], U[i], q[i + 1])
    BY <2>1, <1>1 DEF Follows
  <2>3. V1[i] = V[i + 1] /\ U1[i] = U[i + 1] /\ V1[i - 1] = V[i] /\ U1[i - 1] = U[i]
    BY <2>1, <1>4
  <2> QED BY <2>2, <2>3, <1>3
<1> QED BY <1>3, <1>7, <1>8, <1>9 DEF Leads

LEMMA OneMoreLeads ==
  ASSUME NEW S, NEW q \in Seq(S), NEW r \in S, NEW scalar, NEW v, NEW u, NEW w, NEW x,
         Leads(scalar, q, v, u, w, x)
  PROVE  Leads(scalar, Append(q, r), v, u, ParseBy(scalar, w, r), UnmovedBy(w, x, r))
<1>1. PICK V, U : /\ V[0] = v /\ U[0] = u
                  /\ Follows(scalar, q, V, U)
                  /\ V[Len(q)] = w /\ U[Len(q)] = x
  BY DEF Leads
<1>2. PICK n \in Nat : n = Len(q)
  OBVIOUS
<1>3. /\ Len(Append(q, r)) = n + 1 /\ Append(q, r)[n + 1] = r
      /\ \A i \in 1..n : Append(q, r)[i] = q[i]
  BY <1>2
<1> DEFINE V1 == [i \in 0..(n + 1) |-> IF i = n + 1 THEN ParseBy(scalar, w, r) ELSE V[i]]
           U1 == [i \in 0..(n + 1) |-> IF i = n + 1 THEN UnmovedBy(w, x, r) ELSE U[i]]
<1>4. /\ V1[n + 1] = ParseBy(scalar, w, r) /\ U1[n + 1] = UnmovedBy(w, x, r)
      /\ \A i \in 0..n : V1[i] = V[i] /\ U1[i] = U[i]
  OBVIOUS
<1> HIDE DEF V1, U1
<1>5. V1[0] = v /\ U1[0] = u
  BY <1>1, <1>4
<1>6. Follows(scalar, Append(q, r), V1, U1)
  <2> SUFFICES ASSUME NEW i \in 1..(n + 1)
               PROVE  /\ V1[i] = ParseBy(scalar, V1[i - 1], Append(q, r)[i])
                      /\ U1[i] = UnmovedBy(V1[i - 1], U1[i - 1], Append(q, r)[i])
    BY <1>3 DEF Follows
  <2>1. CASE i = n + 1
    <3>1. i - 1 = n /\ n \in 0..n
      BY <2>1
    <3>2. V1[i - 1] = w /\ U1[i - 1] = x
      BY <3>1, <1>1, <1>2, <1>4
    <3> QED BY <2>1, <3>2, <1>3, <1>4
  <2>2. CASE i # n + 1
    <3>1. i \in 1..n /\ i \in 0..n /\ i - 1 \in 0..n
      BY <2>2
    <3>2. /\ V[i] = ParseBy(scalar, V[i - 1], q[i])
          /\ U[i] = UnmovedBy(V[i - 1], U[i - 1], q[i])
      BY <3>1, <1>1, <1>2 DEF Follows
    <3> QED BY <3>1, <3>2, <1>3, <1>4
  <2> QED BY <2>1, <2>2
<1> QED BY <1>3, <1>4, <1>5, <1>6 DEF Leads

-----------------------------------------------------------------------------
(***************************************************************************)
(* The robot and its commands.                                             *)
(***************************************************************************)
Commands == {"start_auto", "play", "pause", "return_to_base", "set_fan_speed"}

DpsOf(c, l) == IF Scalar THEN ScalarCommand(c, l) ELSE LegacyCommand(c, l)

\* What the robot does after it obeyed.
Told(t, r) ==
  /\ t \in {"start_auto", "play"} => ActivityOf(r) = "cleaning"
  /\ t = "pause" => ActivityOf(r) = IF Scalar THEN "paused" ELSE "idle"
  /\ t = "return_to_base" => ActivityOf(r) = "returning"

\* Where the robot may go.
MayGo(new) == new \in Robots /\ Goes(robot, new)

\* Changing one data point of a scalar robot.
LEMMA OnePointChanged ==
  ASSUME NEW r \in ScalarPoints
  PROVE  /\ \A s \in {1, 2, 4, 5, 7} : /\ [r EXCEPT !.STATE = s] \in ScalarPoints
                                       /\ [r EXCEPT !.STATE = s].STATE = s
         /\ \A p \in {0, 1} : LET new == [r EXCEPT !.PAUSE = p]
                              IN new \in ScalarPoints /\ new.STATE = r.STATE /\ new.PAUSE = p
         /\ \A f \in Faults \cup {0} :
              LET new == [r EXCEPT !.ERROR_CODE_ALT = f]
              IN new \in ScalarPoints /\ new.STATE = r.STATE /\ new.PAUSE = r.PAUSE
         /\ \A i \in 0..(Len(Suctions) - 1) :
              LET new == [r EXCEPT !.SUCTION = i]
              IN new \in ScalarPoints /\ new.STATE = r.STATE /\ new.PAUSE = r.PAUSE
<1>1. Faults \cup {0} \subseteq Nat /\ 0..(Len(Suctions) - 1) \subseteq Nat
  BY FaultsAreCodes, SuctionsAreNames
<1>2. r \in [ScalarKeys -> Nat]
  BY DEF ScalarPoints
<1>3. ASSUME NEW s \in {1, 2, 4, 5, 7}
      PROVE  [r EXCEPT !.STATE = s] \in ScalarPoints /\ [r EXCEPT !.STATE = s].STATE = s
  BY DEF ScalarPoints, ScalarKeys
<1>4. ASSUME NEW p \in {0, 1}
      PROVE  LET new == [r EXCEPT !.PAUSE = p]
             IN new \in ScalarPoints /\ new.STATE = r.STATE /\ new.PAUSE = p
  BY DEF ScalarPoints, ScalarKeys
<1>5. ASSUME NEW f \in Faults \cup {0}
      PROVE  LET new == [r EXCEPT !.ERROR_CODE_ALT = f]
             IN new \in ScalarPoints /\ new.STATE = r.STATE /\ new.PAUSE = r.PAUSE
  BY <1>1 DEF ScalarPoints, ScalarKeys
<1>6. ASSUME NEW i \in 0..(Len(Suctions) - 1)
      PROVE  LET new == [r EXCEPT !.SUCTION = i]
             IN new \in ScalarPoints /\ new.STATE = r.STATE /\ new.PAUSE = r.PAUSE
  BY <1>1 DEF ScalarPoints, ScalarKeys
<1> QED BY <1>3, <1>4, <1>5, <1>6

LEMMA ScalarToIs ==
  ASSUME Scalar, robot \in Robots, NEW s \in {1, 2, 4, 5, 7}, NEW m \in {0, 1},
         s \in {1, 5, 7} => m = 1, s = 4 => m = 0, s = 2 /\ m = 1 => robot.STATE = 2
  PROVE  /\ MayGo(ScalarTo(s, m))
         /\ ActivityOf(ScalarTo(s, m)) = IF s = 2 /\ m = 1 THEN "paused" ELSE ScalarActivity(s)
<1> DEFINE mid == [robot EXCEPT !.STATE = s]
           new == [mid EXCEPT !.PAUSE = m]
<1>1. robot \in ScalarRobots /\ robot \in ScalarPoints
  BY DEF Robots, ScalarRobots, ScalarPoints
<1>2. mid \in ScalarPoints /\ mid.STATE = s
  BY <1>1, OnePointChanged DEF mid
<1> HIDE DEF mid
<1>3. new \in ScalarPoints /\ new.STATE = s /\ new.PAUSE = m
  BY <1>2, OnePointChanged DEF new
<1>4. ScalarTo(s, m) = new
  BY DEF ScalarTo, mid
<1> HIDE DEF new
<1>5. new \in ScalarRobots
  BY <1>3 DEF ScalarRobots, ScalarPoints
<1> QED BY <1>3, <1>4, <1>5 DEF MayGo, Robots, Goes, ActivityOf

LEMMA OtherFields ==
  ASSUME Scalar, robot \in Robots
  PROVE  /\ \A f \in Faults \cup {0} : MayGo([robot EXCEPT !.ERROR_CODE_ALT = f])
         /\ \A i \in 0..(Len(Suctions) - 1) : MayGo([robot EXCEPT !.SUCTION = i])
<1>1. robot \in ScalarRobots /\ robot \in ScalarPoints
  BY DEF Robots, ScalarRobots, ScalarPoints
<1>2. ASSUME NEW new \in ScalarPoints, new.STATE = robot.STATE, new.PAUSE = robot.PAUSE PROVE MayGo(new)
  <2>1. new \in ScalarRobots
    BY <1>1, <1>2 DEF ScalarRobots, ScalarPoints
  <2> QED BY <2>1, <1>2 DEF MayGo, Robots, Goes
<1>3. ASSUME NEW f \in Faults \cup {0} PROVE MayGo([robot EXCEPT !.ERROR_CODE_ALT = f])
  <2> DEFINE new == [robot EXCEPT !.ERROR_CODE_ALT = f]
  <2>1. new \in ScalarPoints /\ new.STATE = robot.STATE /\ new.PAUSE = robot.PAUSE
    BY <1>1, OnePointChanged
  <2> HIDE DEF new
  <2>2. MayGo(new)
    BY <2>1, <1>2
  <2> QED BY <2>2 DEF new
<1>4. ASSUME NEW i \in 0..(Len(Suctions) - 1) PROVE MayGo([robot EXCEPT !.SUCTION = i])
  <2> DEFINE new == [robot EXCEPT !.SUCTION = i]
  <2>1. new \in ScalarPoints /\ new.STATE = robot.STATE /\ new.PAUSE = robot.PAUSE
    BY <1>1, OnePointChanged
  <2> HIDE DEF new
  <2>2. MayGo(new)
    BY <2>1, <1>2
  <2> QED BY <2>2 DEF new
<1> QED BY <1>3, <1>4

LEMMA LegacyFields ==
  ASSUME ~Scalar, robot \in Robots, NEW s \in DOMAIN LegacyActivity, NEW p \in BOOLEAN,
         NEW f \in Faults \cup {0}, NEW n \in STRING
  PROVE  /\ MayGo([robot EXCEPT !.WORK_STATUS = s])
         /\ MayGo([robot EXCEPT !.PLAY_PAUSE = p, !.WORK_STATUS = s])
         /\ MayGo([robot EXCEPT !.WORK_STATUS = s, !.ERROR_CODE = f])
         /\ MayGo([robot EXCEPT !.CLEAN_SPEED = n])
         /\ ActivityOf([robot EXCEPT !.WORK_STATUS = s]) = LegacyActivity[s]
         /\ ActivityOf([robot EXCEPT !.PLAY_PAUSE = p, !.WORK_STATUS = s]) = LegacyActivity[s]
<1>1. robot \in LegacyRobots
  BY DEF Robots
<1> DEFINE r1 == [robot EXCEPT !.WORK_STATUS = s]
           r2 == [robot EXCEPT !.PLAY_PAUSE = p]
           r3 == [r2 EXCEPT !.WORK_STATUS = s]
           r4 == [r1 EXCEPT !.ERROR_CODE = f]
           r5 == [robot EXCEPT !.CLEAN_SPEED = n]
<1>2. r1 \in LegacyRobots /\ r1.WORK_STATUS = s
  BY <1>1 DEF LegacyRobots
<1>3. r2 \in LegacyRobots
  BY <1>1 DEF LegacyRobots
<1>4. r5 \in LegacyRobots
  BY <1>1 DEF LegacyRobots
<1>5. /\ [robot EXCEPT !.PLAY_PAUSE = p, !.WORK_STATUS = s] = r3
      /\ [robot EXCEPT !.WORK_STATUS = s, !.ERROR_CODE = f] = r4
  OBVIOUS
<1> HIDE DEF r1, r2
<1>6. r3 \in LegacyRobots /\ r3.WORK_STATUS = s
  BY <1>3 DEF LegacyRobots
<1>7. r4 \in LegacyRobots
  BY <1>2 DEF LegacyRobots
<1> HIDE DEF r3, r4, r5
<1>8. MayGo(r1) /\ MayGo(r3) /\ MayGo(r4) /\ MayGo(r5)
  BY <1>2, <1>4, <1>6, <1>7 DEF MayGo, Robots, Goes
<1>9. ActivityOf(r1) = LegacyActivity[s] /\ ActivityOf(r3) = LegacyActivity[s]
  BY <1>2, <1>6 DEF ActivityOf
<1> QED BY <1>5, <1>8, <1>9 DEF r1, r5

LEMMA ElementOf ==
  ASSUME NEW S, NEW q \in Seq(S), NEW i \in 1..Len(q)
  PROVE  q[i] \in S
OBVIOUS

LEMMA ScalarObeys ==
  ASSUME Scalar, robot \in Robots, NEW c \in Commands, NEW l \in 1..Len(Suctions),
         NEW new \in Obey(DpsOf(c, l)), new # robot
  PROVE  MayGo(new) /\ Told(c, new)
<1>1. /\ DOMAIN [WORK_MODE |-> 1] = {"WORK_MODE"} /\ DOMAIN [WORK_MODE |-> 3] = {"WORK_MODE"}
      /\ DOMAIN [PAUSE |-> 1] = {"PAUSE"} /\ DOMAIN [PAUSE |-> 2] = {"PAUSE"}
      /\ DOMAIN [SUCTION |-> l - 1] = {"SUCTION"}
      /\ [SUCTION |-> l - 1].SUCTION = l - 1
  OBVIOUS
<1>2. /\ [WORK_MODE |-> 1] # [WORK_MODE |-> 3] /\ [PAUSE |-> 1] # [PAUSE |-> 2]
  <2>1. [WORK_MODE |-> 1].WORK_MODE = 1 /\ [WORK_MODE |-> 3].WORK_MODE = 3
    OBVIOUS
  <2>2. [PAUSE |-> 1].PAUSE = 1 /\ [PAUSE |-> 2].PAUSE = 2
    OBVIOUS
  <2> QED BY <2>1, <2>2
<1>3. PICK w1, w3, p1, p2, su :
        /\ w1 = [WORK_MODE |-> 1] /\ w3 = [WORK_MODE |-> 3]
        /\ p1 = [PAUSE |-> 1] /\ p2 = [PAUSE |-> 2] /\ su = [SUCTION |-> l - 1]
  OBVIOUS
<1>4. /\ DOMAIN w1 = {"WORK_MODE"} /\ DOMAIN w3 = {"WORK_MODE"} /\ w1 # w3
      /\ DOMAIN p1 = {"PAUSE"} /\ DOMAIN p2 = {"PAUSE"} /\ p1 # p2
      /\ DOMAIN su = {"SUCTION"} /\ su.SUCTION = l - 1
  BY <1>1, <1>2, <1>3
<1>5. /\ w1 # p1 /\ w1 # p2 /\ w3 # p1 /\ w3 # p2
      /\ "SUCTION" \notin DOMAIN w1 /\ "SUCTION" \notin DOMAIN w3
      /\ "SUCTION" \notin DOMAIN p1 /\ "SUCTION" \notin DOMAIN p2
      /\ su # w1 /\ su # w3 /\ su # p1 /\ su # p2 /\ "SUCTION" \in DOMAIN su
  BY <1>4
<1>6. DpsOf(c, l) = CASE c = "start_auto" -> w1
                      [] c = "play" -> p2
                      [] c = "pause" -> p1
                      [] c = "return_to_base" -> w3
                      [] c = "set_fan_speed" -> su
  BY <1>3, Zenon DEF DpsOf, ScalarCommand
<1>7. \A d : Obey(d) =
        CASE Scalar /\ d = w1 -> {ScalarTo(2, 0)}
          [] Scalar /\ d = w3 -> {ScalarTo(4, 0)}
          [] Scalar /\ d = p1 /\ robot.STATE = 2 -> {ScalarTo(2, 1), ScalarTo(7, 1)}
          [] Scalar /\ d = p2 /\ robot.STATE \in {2, 7} -> {ScalarTo(2, 0)}
          [] Scalar /\ "SUCTION" \in DOMAIN d -> {[robot EXCEPT !.SUCTION = d.SUCTION]}
          [] ~Scalar /\ "PLAY_PAUSE" \in DOMAIN d ->
               {[robot EXCEPT !.PLAY_PAUSE = d.PLAY_PAUSE,
                              !.WORK_STATUS = IF d.PLAY_PAUSE THEN "Running" ELSE "standby"]}
          [] ~Scalar /\ "GO_HOME" \in DOMAIN d -> {[robot EXCEPT !.WORK_STATUS = "Recharge"]}
          [] ~Scalar /\ "CLEAN_SPEED" \in DOMAIN d ->
               {[robot EXCEPT !.CLEAN_SPEED = d.CLEAN_SPEED]}
          [] OTHER -> {robot}
  BY <1>3, Zenon DEF Obey
<1>8. /\ MayGo(ScalarTo(2, 0)) /\ ActivityOf(ScalarTo(2, 0)) = "cleaning"
      /\ MayGo(ScalarTo(4, 0)) /\ ActivityOf(ScalarTo(4, 0)) = "returning"
      /\ MayGo(ScalarTo(7, 1)) /\ ActivityOf(ScalarTo(7, 1)) = "paused"
      /\ robot.STATE = 2 => MayGo(ScalarTo(2, 1)) /\ ActivityOf(ScalarTo(2, 1)) = "paused"
  BY ScalarToIs, ScalarActivities
<1>9. CASE c = "start_auto"
  <2>1. DpsOf(c, l) = w1
    BY <1>6, <1>9
  <2>2. Obey(w1) = {ScalarTo(2, 0)}
    BY <1>5, <1>4, <1>7
  <2> QED BY <1>8, <1>9, <2>1, <2>2 DEF Told
<1>10. CASE c = "play"
  <2>1. DpsOf(c, l) = p2
    BY <1>6, <1>10
  <2>2. new = ScalarTo(2, 0)
    <3>1. CASE robot.STATE \in {2, 7}
      <4>1. Obey(p2) = {ScalarTo(2, 0)}
        BY <1>5, <1>4, <1>7, <3>1
      <4> QED BY <2>1, <4>1
    <3>2. CASE robot.STATE \notin {2, 7}
      <4>1. Obey(p2) = {robot}
        BY <1>5, <1>4, <1>7, <3>2
      <4> QED BY <2>1, <4>1
    <3> QED BY <3>1, <3>2
  <2> QED BY <1>8, <1>10, <2>2 DEF Told
<1>11. CASE c = "pause"
  <2>1. DpsOf(c, l) = p1
    BY <1>6, <1>11
  <2>2. robot.STATE = 2 /\ new \in {ScalarTo(2, 1), ScalarTo(7, 1)}
    <3>1. CASE robot.STATE = 2
      <4>1. Obey(p1) = {ScalarTo(2, 1), ScalarTo(7, 1)}
        BY <1>5, <1>4, <1>7, <3>1
      <4> QED BY <2>1, <3>1, <4>1
    <3>2. CASE robot.STATE # 2
      <4>1. Obey(p1) = {robot}
        BY <1>5, <1>4, <1>7, <3>2
      <4> QED BY <2>1, <4>1
    <3> QED BY <3>1, <3>2
  <2> QED BY <1>8, <1>11, <2>2 DEF Told
<1>12. CASE c = "return_to_base"
  <2>1. DpsOf(c, l) = w3
    BY <1>6, <1>12
  <2>2. Obey(w3) = {ScalarTo(4, 0)}
    BY <1>5, <1>4, <1>7
  <2> QED BY <1>8, <1>12, <2>1, <2>2 DEF Told
<1>13. CASE c = "set_fan_speed"
  <2>1. DpsOf(c, l) = su
    BY <1>6, <1>13
  <2>2. Obey(su) = {[robot EXCEPT !.SUCTION = su.SUCTION]}
    BY <1>5, <1>7
  <2>3. new = [robot EXCEPT !.SUCTION = l - 1]
    BY <1>4, <2>1, <2>2
  <2>4. l - 1 \in 0..(Len(Suctions) - 1)
    BY SuctionsAreNames
  <2> QED BY <1>13, <2>3, <2>4, OtherFields DEF Told
<1> QED BY <1>9, <1>10, <1>11, <1>12, <1>13 DEF Commands

LEMMA LegacyObeys ==
  ASSUME ~Scalar, robot \in Robots, NEW c \in Commands, NEW l \in 1..Len(Suctions),
         NEW new \in Obey(DpsOf(c, l))
  PROVE  MayGo(new) /\ Told(c, new)
<1>1. PICK sp \in STRING : sp = Suctions[l]
  BY SuctionsAreNames, ElementOf
<1>2. PICK d1, d2, d3, d4, d5 :
        /\ d1 = [PLAY_PAUSE |-> TRUE, WORK_MODE |-> "auto"] /\ d2 = [PLAY_PAUSE |-> TRUE]
        /\ d3 = [PLAY_PAUSE |-> FALSE] /\ d4 = [GO_HOME |-> TRUE] /\ d5 = [CLEAN_SPEED |-> sp]
  OBVIOUS
<1>3. DpsOf(c, l) = CASE c = "start_auto" -> d1
                      [] c = "play" -> d2
                      [] c = "pause" -> d3
                      [] c = "return_to_base" -> d4
                      [] c = "set_fan_speed" -> d5
  BY <1>1, <1>2, Zenon DEF DpsOf, LegacyCommand
<1>4. /\ DOMAIN d1 = {"PLAY_PAUSE", "WORK_MODE"} /\ DOMAIN d2 = {"PLAY_PAUSE"}
      /\ DOMAIN d3 = {"PLAY_PAUSE"} /\ DOMAIN d4 = {"GO_HOME"} /\ DOMAIN d5 = {"CLEAN_SPEED"}
      /\ d1.PLAY_PAUSE = TRUE /\ d2.PLAY_PAUSE = TRUE /\ d3.PLAY_PAUSE = FALSE
      /\ d5.CLEAN_SPEED = sp
  BY <1>2
<1> DEFINE Run(p) == [robot EXCEPT !.PLAY_PAUSE = p,
                                   !.WORK_STATUS = IF p THEN "Running" ELSE "standby"]
<1>5. \A d : "SUCTION" \notin DOMAIN d =>
        /\ "PLAY_PAUSE" \in DOMAIN d /\ "GO_HOME" \notin DOMAIN d /\ "CLEAN_SPEED" \notin DOMAIN d =>
             Obey(d) = {Run(d.PLAY_PAUSE)}
        /\ "GO_HOME" \in DOMAIN d /\ "PLAY_PAUSE" \notin DOMAIN d /\ "CLEAN_SPEED" \notin DOMAIN d =>
             Obey(d) = {[robot EXCEPT !.WORK_STATUS = "Recharge"]}
        /\ "CLEAN_SPEED" \in DOMAIN d /\ "PLAY_PAUSE" \notin DOMAIN d /\ "GO_HOME" \notin DOMAIN d =>
             Obey(d) = {[robot EXCEPT !.CLEAN_SPEED = d.CLEAN_SPEED]}
  BY DEF Obey
<1>6. /\ LegacyActivity["Running"] = "cleaning" /\ LegacyActivity["standby"] = "idle"
      /\ LegacyActivity["Recharge"] = "returning"
      /\ "Running" \in DOMAIN LegacyActivity /\ "standby" \in DOMAIN LegacyActivity
      /\ "Recharge" \in DOMAIN LegacyActivity
  BY DEF LegacyActivity
<1> DEFINE Up == [robot EXCEPT !.PLAY_PAUSE = TRUE, !.WORK_STATUS = "Running"]
           Down == [robot EXCEPT !.PLAY_PAUSE = FALSE, !.WORK_STATUS = "standby"]
           Home == [robot EXCEPT !.WORK_STATUS = "Recharge"]
           Speed == [robot EXCEPT !.CLEAN_SPEED = sp]
<1>7. Run(TRUE) = Up /\ Run(FALSE) = Down
  OBVIOUS
<1>8. 0 \in Faults \cup {0} /\ TRUE \in BOOLEAN /\ FALSE \in BOOLEAN
  OBVIOUS
<1>9. MayGo(Up) /\ ActivityOf(Up) = "cleaning"
  BY <1>6, <1>8, <1>1, LegacyFields
<1>10. MayGo(Down) /\ ActivityOf(Down) = "idle"
  BY <1>6, <1>8, <1>1, LegacyFields
<1>11. MayGo(Home) /\ ActivityOf(Home) = "returning"
  BY <1>6, <1>8, <1>1, LegacyFields
<1>12. MayGo(Speed)
  BY <1>6, <1>8, <1>1, LegacyFields
<1> HIDE DEF Run, Up, Down, Home, Speed
<1>13. CASE c = "start_auto" \/ c = "play"
  <2>1. DpsOf(c, l) = d1 \/ DpsOf(c, l) = d2
    BY <1>3, <1>13
  <2>2. Obey(d1) = {Up} /\ Obey(d2) = {Up}
    BY <1>4, <1>5, <1>7
  <2>3. new = Up
    BY <2>1, <2>2
  <2> QED BY <1>9, <1>13, <2>3 DEF Told
<1>14. CASE c = "pause"
  <2>1. DpsOf(c, l) = d3
    BY <1>3, <1>14
  <2>2. Obey(d3) = {Down}
    BY <1>4, <1>5, <1>7
  <2> QED BY <1>10, <1>14, <2>1, <2>2 DEF Told
<1>15. CASE c = "return_to_base"
  <2>1. DpsOf(c, l) = d4
    BY <1>3, <1>15
  <2>2. Obey(d4) = {Home}
    BY <1>4, <1>5 DEF Home
  <2> QED BY <1>11, <1>15, <2>1, <2>2 DEF Told
<1>16. CASE c = "set_fan_speed"
  <2>1. DpsOf(c, l) = d5
    BY <1>3, <1>16
  <2>2. Obey(d5) = {Speed}
    BY <1>4, <1>5 DEF Speed
  <2> QED BY <1>12, <1>16, <2>1, <2>2 DEF Told
<1> QED BY <1>13, <1>14, <1>15, <1>16 DEF Commands

-----------------------------------------------------------------------------
(***************************************************************************)
(* The invariant and its steps.                                            *)
(***************************************************************************)
CommandsInv ==
  downlink = <<>> \/
  \E c \in Commands, l \in 1..Len(Suctions) :
    downlink = <<[command |-> c, dps |-> DpsOf(c, l)]>>

\* Once its reports are handled, the state shows the robot.
ViewInv == \E w, x : Leads(Scalar, uplink, view, unmoved, w, x) /\ Resembles(w, x, robot)

\* Every report on its way is one the robot wrote.
PlainTyped ==
  /\ apiType \in {"scalar", "legacy"}
  /\ robot \in Robots /\ uplink \in Seq(Reports) /\ DOMAIN view = Fields

\* The invariant: the reports on their way lead to the robot.
PlainInv == PlainTyped /\ CommandsInv /\ ViewInv /\ Told(told, robot)

LEMMA ParseIs ==
  \A s, r : Parse(s, r) = ParseBy(Scalar, s, r)
BY DEF Parse, ParseBy

LEMMA KindStays ==
  ASSUME apiType' = apiType
  PROVE  /\ Scalar' = Scalar /\ Robots' = Robots /\ PlainKeys' = PlainKeys
         /\ Reports' = Reports
<1>1. Scalar' = Scalar
  BY DEF Scalar
<1>2. Robots' = Robots
  BY <1>1 DEF Robots
<1>3. PlainKeys' = PlainKeys
  BY <1>1 DEF PlainKeys
<1>4. \A r, keys, new : SaysOf(r, keys, new)' <=> SaysOf(r, keys, new)
  BY <1>2, <1>3 DEF SaysOf
<1>5. Reports' = Reports
  BY <1>4 DEF Reports
<1> QED BY <1>1, <1>2, <1>3, <1>5

\* A report of what the robot becomes joins the others.
LEMMA ReportJoins ==
  ASSUME PlainInv, NEW new \in Robots, Goes(robot, new), robot' = new,
         NEW keys, keys = PlainKeys \/ keys = {k \in PlainKeys : robot[k] # new[k]},
         NEW r \in Report(keys, new), uplink' = Append(uplink, r),
         UNCHANGED <<apiType, view, unmoved>>
  PROVE  PlainTyped' /\ ViewInv'
<1>1. keys \in SUBSET PlainKeys /\ Covers(keys, robot, new)
  BY DEF Covers
<1>2. r \in Reports /\ SaysOf(r, keys, new)
  BY <1>1, ReportSays
<1>3. PICK w, x : Leads(Scalar, uplink, view, unmoved, w, x) /\ Resembles(w, x, robot)
  BY DEF PlainInv, ViewInv
<1>4. robot \in Robots /\ uplink \in Seq(Reports)
  BY DEF PlainInv, PlainTyped
<1>5. PICK w1, x1 : w1 = ParseBy(Scalar, w, r) /\ x1 = UnmovedBy(w, x, r)
  OBVIOUS
<1>6. Resembles(w1, x1, new)
  BY <1>1, <1>2, <1>3, <1>4, <1>5, ReportFollows, ParseIs
<1>7. Leads(Scalar, uplink', view, unmoved, w1, x1)
  BY <1>2, <1>3, <1>4, <1>5, OneMoreLeads
<1>8. Scalar' = Scalar /\ Robots' = Robots /\ Reports' = Reports
  BY KindStays
<1>9. Resembles(w1, x1, robot)'
  BY <1>6, <1>8 DEF Resembles, ActivityOf
<1>10. ViewInv'
  BY <1>7, <1>8, <1>9 DEF ViewInv
<1>11. uplink' \in Seq(Reports)
  BY <1>2, <1>4
<1> QED BY <1>8, <1>10, <1>11 DEF PlainInv, PlainTyped

LEMMA RobotKeys ==
  ASSUME robot \in Robots
  PROVE  DOMAIN robot = PlainKeys
BY DEF Robots, PlainKeys, ScalarRobots, ScalarPoints, ScalarKeys, LegacyRobots, LegacyKeys

LEMMA BecomesKeeps ==
  ASSUME PlainInv, NEW new, NEW why, MayGo(new), Becomes(new, why),
         UNCHANGED <<apiType, view, unmoved>>, Told(why, new)
  PROVE  PlainTyped' /\ ViewInv' /\ Told(told, robot)'
<1>1. robot \in Robots /\ DOMAIN robot = PlainKeys
  BY RobotKeys DEF PlainInv, PlainTyped
<1>2. PICK keys \in {Changed(new), DOMAIN robot} :
        \E r \in Report(keys, new) : uplink' = Append(uplink, r)
  BY DEF Becomes
<1>3. PICK r \in Report(keys, new) : uplink' = Append(uplink, r)
  BY <1>2
<1>4. keys = PlainKeys \/ keys = {k \in PlainKeys : robot[k] # new[k]}
  BY <1>1 DEF Changed
<1>5. robot' = new /\ told' = why /\ new \in Robots /\ Goes(robot, new)
  BY DEF Becomes, MayGo
<1>6. PlainTyped' /\ ViewInv'
  BY <1>3, <1>4, <1>5, ReportJoins
<1>7. Scalar' = Scalar
  BY KindStays
<1>8. Told(told, robot)'
  BY <1>5, <1>7 DEF Told, ActivityOf
<1> QED BY <1>6, <1>8

LEMMA CommandsStay ==
  ASSUME CommandsInv, apiType' = apiType, downlink' = downlink \/ downlink' = <<>>
  PROVE  CommandsInv'
<1>1. Scalar' = Scalar
  BY KindStays
<1>2. \A c, l : DpsOf(c, l)' = DpsOf(c, l)
  BY <1>1 DEF DpsOf
<1> QED BY <1>2 DEF CommandsInv

LEMMA SameRobot ==
  ASSUME PlainInv, UNCHANGED <<apiType, robot, uplink, view, unmoved, told>>
  PROVE  PlainTyped' /\ ViewInv' /\ Told(told, robot)'
<1>1. Scalar' = Scalar /\ Robots' = Robots /\ Reports' = Reports
  BY KindStays
<1> QED BY <1>1 DEF PlainInv, PlainTyped, ViewInv, Resembles, ActivityOf, Told

LEMMA CallKeeps ==
  ASSUME PlainInv, NEW c \in Commands, NEW l \in 1..Len(Suctions), Call(c, l)
  PROVE  PlainInv'
<1>1. /\ downlink' = <<[command |-> c, dps |-> DpsOf(c, l)]>>
      /\ UNCHANGED <<apiType, robot, uplink, view, told, unmoved, changes>>
  BY DEF Call, DpsOf
<1>2. Scalar' = Scalar
  BY <1>1, KindStays
<1>3. DpsOf(c, l)' = DpsOf(c, l)
  BY <1>2 DEF DpsOf
<1>4. CommandsInv'
  BY <1>1, <1>3 DEF CommandsInv
<1> QED BY <1>1, <1>4, SameRobot DEF PlainInv

LEMMA TakeCommandKeeps ==
  ASSUME PlainInv, TakeCommand
  PROVE  PlainInv'
<1>1. /\ downlink # <<>> /\ downlink' = <<>> /\ UNCHANGED <<apiType, view, unmoved>>
  BY DEF TakeCommand
<1>2. PICK c \in Commands, l \in 1..Len(Suctions) :
        downlink = <<[command |-> c, dps |-> DpsOf(c, l)]>>
  BY <1>1 DEF PlainInv, CommandsInv
<1>3. downlink[1].command = c /\ downlink[1].dps = DpsOf(c, l)
  BY <1>2
<1>4. PICK new \in Obey(DpsOf(c, l)) :
        IF new = robot THEN UNCHANGED <<robot, uplink, told, changes>> ELSE Becomes(new, c)
  BY <1>3 DEF TakeCommand
<1>5. CommandsInv'
  BY <1>1, CommandsStay DEF PlainInv
<1>6. CASE new = robot
  BY <1>1, <1>4, <1>5, <1>6, SameRobot DEF PlainInv
<1>7. CASE new # robot
  <2>1. robot \in Robots
    BY DEF PlainInv, PlainTyped
  <2>2. MayGo(new) /\ Told(c, new)
    BY <1>7, <2>1, ScalarObeys, LegacyObeys
  <2>3. Becomes(new, c)
    BY <1>4, <1>7
  <2> QED BY <1>1, <1>5, <2>2, <2>3, BecomesKeeps DEF PlainInv
<1> QED BY <1>6, <1>7

LEMMA FirstSuction == Suctions[1] \in STRING
BY SuctionsAreNames, ElementOf

LEMMA ItselfKeeps ==
  ASSUME PlainInv, Itself
  PROVE  PlainInv'
<1>1. UNCHANGED <<apiType, downlink, view, unmoved>>
  BY DEF Itself
<1>2. CommandsInv'
  BY <1>1, CommandsStay DEF PlainInv
<1>3. \A r : Told("none", r)
  BY DEF Told
<1>4. robot \in Robots
  BY DEF PlainInv, PlainTyped
<1>5. ASSUME NEW new, MayGo(new), Becomes(new, "none") PROVE PlainInv'
  BY <1>1, <1>2, <1>3, <1>5, BecomesKeeps DEF PlainInv
<1>6. CASE Scalar
  <2>1. PICK new \in {ScalarTo(s, 1) : s \in {1, 5, 7}}
                     \cup {ScalarTo(2, m) : m \in IF robot.STATE = 2 THEN {0, 1} ELSE {0}}
                     \cup {[robot EXCEPT !.ERROR_CODE_ALT = f] : f \in Faults \cup {0}} :
          Becomes(new, "none")
    BY <1>6 DEF Itself
  <2>2. ASSUME NEW s \in {1, 5, 7} PROVE MayGo(ScalarTo(s, 1))
    BY <1>4, <1>6, ScalarToIs
  <2>3. ASSUME NEW m \in IF robot.STATE = 2 THEN {0, 1} ELSE {0} PROVE MayGo(ScalarTo(2, m))
    BY <1>4, <1>6, ScalarToIs
  <2>4. \A f \in Faults \cup {0} : MayGo([robot EXCEPT !.ERROR_CODE_ALT = f])
    BY <1>4, <1>6, OtherFields
  <2>5. MayGo(new)
    BY <2>2, <2>3, <2>4
  <2> QED BY <2>1, <2>5, <1>5
<1>7. CASE ~Scalar
  <2>1. PICK new \in {[robot EXCEPT !.WORK_STATUS = s] : s \in {"Running", "Charging", "Completed"}}
            \cup {[robot EXCEPT !.WORK_STATUS = "Fault", !.ERROR_CODE = f] : f \in Faults}
            \cup {[robot EXCEPT !.WORK_STATUS = "standby", !.ERROR_CODE = 0]} :
          Becomes(new, "none")
    BY <1>7 DEF Itself
  <2>2. {"Running", "Charging", "Completed", "Fault", "standby"} \subseteq DOMAIN LegacyActivity
    BY DEF LegacyActivity
  <2>3. TRUE \in BOOLEAN /\ 0 \in Faults \cup {0} /\ Faults \subseteq Faults \cup {0}
    OBVIOUS
  <2>. PICK n \in STRING : n = Suctions[1]
    BY FirstSuction, Zenon
  <2>4. ASSUME NEW s \in DOMAIN LegacyActivity, NEW f \in Faults \cup {0}
        PROVE  /\ MayGo([robot EXCEPT !.WORK_STATUS = s])
               /\ MayGo([robot EXCEPT !.WORK_STATUS = s, !.ERROR_CODE = f])
    BY <1>4, <1>7, <2>3, LegacyFields
  <2>5. ASSUME NEW s \in {"Running", "Charging", "Completed"}
        PROVE  MayGo([robot EXCEPT !.WORK_STATUS = s])
    BY <2>2, <2>3, <2>4
  <2>6. ASSUME NEW f \in Faults
        PROVE  MayGo([robot EXCEPT !.WORK_STATUS = "Fault", !.ERROR_CODE = f])
    BY <2>2, <2>3, <2>4
  <2>7. MayGo([robot EXCEPT !.WORK_STATUS = "standby", !.ERROR_CODE = 0])
    BY <2>2, <2>3, <2>4
  <2>8. MayGo(new)
    BY <2>5, <2>6, <2>7, Zenon
  <2> QED BY <2>1, <2>8, <1>5
<1> QED BY <1>6, <1>7

LEMMA DumpKeeps ==
  ASSUME PlainInv, Dump
  PROVE  PlainInv'
<1>1. /\ uplink = <<>> /\ UNCHANGED <<apiType, robot, downlink, view, told, unmoved, changes>>
  BY DEF Dump
<1>2. robot \in Robots /\ DOMAIN robot = PlainKeys
  BY RobotKeys DEF PlainInv, PlainTyped
<1>3. PICK r \in Report(PlainKeys, robot) : uplink' = <<r>>
  BY <1>2 DEF Dump
<1>4. uplink' = Append(uplink, r)
  BY <1>1, <1>3
<1>5. Goes(robot, robot)
  BY DEF Goes
<1>6. PlainTyped' /\ ViewInv'
  BY <1>1, <1>2, <1>4, <1>5, ReportJoins
<1>7. CommandsInv'
  BY <1>1, CommandsStay DEF PlainInv
<1>8. Scalar' = Scalar
  BY <1>1, KindStays
<1>9. Told(told, robot)'
  BY <1>1, <1>8 DEF PlainInv, Told, ActivityOf
<1> QED BY <1>6, <1>7, <1>9 DEF PlainInv

LEMMA HandleReportKeeps ==
  ASSUME PlainInv, HandleReport
  PROVE  PlainInv'
<1>1. /\ uplink # <<>> /\ uplink' = Tail(uplink)
      /\ view' = Parse(view, uplink[1])
      /\ UNCHANGED <<apiType, robot, downlink, told, changes>>
  BY DEF HandleReport
<1>2. unmoved' = UnmovedBy(view, unmoved, uplink[1])
  BY DEF HandleReport, UnmovedBy
<1>3. uplink \in Seq(Reports) /\ DOMAIN view = Fields /\ robot \in Robots
  BY DEF PlainInv, PlainTyped
<1>4. uplink[1] \in Reports /\ Tail(uplink) \in Seq(Reports)
  BY <1>1, <1>3
<1>5. PICK keys, new : SaysOf(uplink[1], keys, new)
  BY <1>4 DEF Reports
<1>6. DOMAIN view' = Fields
  BY <1>1, <1>3, <1>5, ReportShows DEF Shows
<1>7. PICK w, x : Leads(Scalar, uplink, view, unmoved, w, x) /\ Resembles(w, x, robot)
  BY DEF PlainInv, ViewInv
<1>8. view' = ParseBy(Scalar, view, uplink[1])
  BY <1>1, ParseIs
<1>9. Leads(Scalar, uplink', view', unmoved', w, x)
  BY <1>1, <1>2, <1>3, <1>7, <1>8, FirstLeads
<1>10. Scalar' = Scalar /\ Robots' = Robots /\ Reports' = Reports
  BY <1>1, KindStays
<1>11. Resembles(w, x, robot)'
  BY <1>1, <1>7, <1>10 DEF Resembles, ActivityOf
<1>12. ViewInv'
  BY <1>9, <1>10, <1>11 DEF ViewInv
<1>13. PlainTyped'
  BY <1>1, <1>3, <1>4, <1>6, <1>10 DEF PlainInv, PlainTyped
<1>14. CommandsInv'
  BY <1>1, CommandsStay DEF PlainInv
<1>15. Told(told, robot)'
  BY <1>1, <1>10 DEF PlainInv, Told, ActivityOf
<1> QED BY <1>12, <1>13, <1>14, <1>15 DEF PlainInv

LEMMA PlainStarts ==
  ASSUME PlainInit
  PROVE  PlainInv
<1>1. /\ apiType \in {"scalar", "legacy"} /\ uplink = <<>> /\ downlink = <<>>
      /\ told = "none" /\ unmoved = FALSE
      /\ view = Parse(DefaultState, SetToSeq({<<k, robot[k]>> : k \in DOMAIN robot}))
  BY DEF PlainInit
<1>2. robot \in Robots
  <2>1. CASE Scalar
    <3>1. robot = [STATE |-> 5, PAUSE |-> 1, ERROR_CODE |-> 0, ERROR_CODE_ALT |-> 0, SUCTION |-> 1]
      BY <2>1 DEF PlainInit
    <3>2. 1 \in 0..(Len(Suctions) - 1)
      BY SuctionsAreNames
    <3>3. robot \in [ScalarKeys -> Nat]
      BY <3>1 DEF ScalarKeys
    <3> QED BY <2>1, <3>1, <3>2, <3>3 DEF Robots, ScalarRobots, ScalarPoints
  <2>2. CASE ~Scalar
    <3>1. robot = [WORK_STATUS |-> "Charging", PLAY_PAUSE |-> FALSE, ERROR_CODE |-> 0,
                   CLEAN_SPEED |-> Suctions[2]]
      BY <2>2 DEF PlainInit
    <3>2. Suctions[2] \in STRING
      BY SuctionsAreNames, ElementOf
    <3>3. "Charging" \in DOMAIN LegacyActivity
      BY DEF LegacyActivity
    <3> QED BY <2>2, <3>1, <3>2, <3>3 DEF Robots, LegacyRobots
  <2> QED BY <2>1, <2>2
<1>3. DOMAIN robot = PlainKeys
  BY <1>2, RobotKeys
<1>4. PICK r : r \in Report(PlainKeys, robot) /\ view = Parse(DefaultState, r)
  BY <1>1, <1>3 DEF Report
<1>5. SaysOf(r, PlainKeys, robot)
  BY <1>2, <1>4, ReportSays
<1>6. DOMAIN DefaultState = Fields
  BY DEF DefaultState, Fields
<1>7. Resembles(view, unmoved, robot)
  BY <1>1, <1>2, <1>4, <1>5, <1>6, AllIsShown
<1>8. Leads(Scalar, uplink, view, unmoved, view, unmoved)
  BY <1>1, NoneLeads
<1>9. ViewInv
  BY <1>7, <1>8 DEF ViewInv
<1>10. PlainTyped
  BY <1>1, <1>2, <1>7 DEF PlainTyped, Resembles
<1> QED BY <1>1, <1>9, <1>10 DEF PlainInv, CommandsInv, Told

LEMMA PlainInvHolds == PlainSpec => []PlainInv
<1>1. PlainInit => PlainInv
  BY PlainStarts
<1>2. PlainInv /\ [PlainNext]_plainVars => PlainInv'
  <2> SUFFICES ASSUME PlainInv, [PlainNext]_plainVars PROVE PlainInv'
    OBVIOUS
  <2>1. CASE UNCHANGED plainVars
    BY <2>1, SameRobot, CommandsStay DEF plainVars, PlainInv
  <2>2. ASSUME NEW command \in {"start_auto", "play", "pause", "return_to_base", "set_fan_speed"},
               NEW level \in 1..Len(Suctions), Call(command, level)
        PROVE  PlainInv'
    BY <2>2, CallKeeps DEF Commands
  <2>3. CASE TakeCommand
    BY <2>3, TakeCommandKeeps
  <2>4. CASE Itself
    BY <2>4, ItselfKeeps
  <2>5. CASE Dump
    BY <2>5, DumpKeeps
  <2>6. CASE HandleReport
    BY <2>6, HandleReportKeeps
  <2> QED BY <2>1, <2>2, <2>3, <2>4, <2>5, <2>6 DEF PlainNext
<1> QED BY <1>1, <1>2, PTL DEF PlainSpec

\* A report decodes to the same state in whatever order its data points stand
\* (process_scalar_dps, update_state_legacy).
THEOREM OrderStaysFree == PlainSpec => []OrderIsFree
<1>1. PlainInv => OrderIsFree
  <2> SUFFICES ASSUME PlainInv, uplink # <<>>, NEW p \in Orders[Len(uplink[1])]
               PROVE  Parse(view, [i \in 1..Len(uplink[1]) |-> uplink[1][p[i]]]) =
                        Parse(view, uplink[1])
    BY DEF OrderIsFree
  <2>1. uplink[1] \in Reports
    BY DEF PlainInv, PlainTyped
  <2> QED BY <2>1, OrdersDecodeAlike
<1> QED BY <1>1, PlainInvHolds, PTL

\* Once its reports are handled, a robot is shown with the activity, fault and
\* fan speed it has and doing what it was told, for any number of reports on
\* their way, of changes and of suction levels.
THEOREM RobotStaysShown == PlainSpec => []RobotIsShown
<1>1. PlainInv => RobotIsShown
  <2> SUFFICES ASSUME PlainInv PROVE RobotIsShown
    OBVIOUS
  <2>1. ASSUME Settled PROVE Resembles(view, unmoved, robot)
    <3>1. PICK w, x : Leads(Scalar, uplink, view, unmoved, w, x) /\ Resembles(w, x, robot)
      BY DEF PlainInv, ViewInv
    <3>2. w = view /\ x = unmoved
      BY <2>1, <3>1, NoneLeadsOnlyHere DEF Settled
    <3> QED BY <3>1, <3>2
  <2>2. RobotActivity = ActivityOf(robot)
    BY DEF RobotActivity, ActivityOf
  <2>3. ActivityFollows
    BY <2>1, <2>2 DEF ActivityFollows, Resembles
  <2>4. FaultIsShown
    BY <2>1 DEF FaultIsShown, Resembles
  <2>5. CommandsWork
    <3> SUFFICES ASSUME Settled, ~unmoved
                 PROVE  CASE told \in {"start_auto", "play"} -> view.activity = "cleaning"
                          [] told = "pause" -> view.activity = IF Scalar THEN "paused" ELSE "idle"
                          [] told = "return_to_base" -> view.activity = "returning"
                          [] told = "set_fan_speed" ->
                               view.fan_speed = IF Scalar THEN Suctions[robot.SUCTION + 1]
                                                ELSE robot.CLEAN_SPEED
                          [] OTHER -> TRUE
      BY DEF CommandsWork
    <3>1. /\ view.activity = ActivityOf(robot)
          /\ view.fan_speed = IF Scalar THEN Suctions[robot.SUCTION + 1] ELSE robot.CLEAN_SPEED
      BY <2>1 DEF Resembles
    <3>2. Told(told, robot)
      BY DEF PlainInv
    <3> QED BY <3>1, <3>2 DEF Told
  <2> QED BY <2>3, <2>4, <2>5 DEF RobotIsShown
<1> QED BY <1>1, PlainInvHolds, PTL

=============================================================================
