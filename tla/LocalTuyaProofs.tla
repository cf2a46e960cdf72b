-------------------------- MODULE LocalTuyaProofs --------------------------
(***************************************************************************)
(* Proofs about LocalTuya: until a task is cancelled while its call runs,  *)
(* the lock serializes every access to the device, for any number of       *)
(* commands.                                                               *)
(***************************************************************************)
EXTENDS LocalTuya, SequenceTheorems, TLAPS

(***************************************************************************)
(* The queue of the lock.                                                  *)
(***************************************************************************)
Queued(q, p) == \E i \in 1..Len(q) : q[i] = p

\* W are the tasks that want the lock: each is in the queue, once, or holds it.
Orderly(q, h, W) ==
  /\ \A i, j \in 1..Len(q) : q[i] = q[j] => i = j
  /\ \A p \in Tasks : p \in W <=> p = h \/ Queued(q, p)
  /\ ~Queued(q, h)

\* A task that asks for the lock joins the queue at its end.
LEMMA AskIsOrderly ==
  ASSUME NEW q \in Seq(Tasks), NEW h \in Tasks \cup {None}, NEW W,
         NEW p \in Tasks, Orderly(q, h, W), p \notin W
  PROVE  /\ Append(q, p) \in Seq(Tasks)
         /\ Orderly(Append(q, p), h, W \cup {p})
<1>1. /\ Append(q, p) \in Seq(Tasks) /\ Len(Append(q, p)) = Len(q) + 1
      /\ \A i \in 1..Len(q) : Append(q, p)[i] = q[i]
      /\ Append(q, p)[Len(q) + 1] = p
      /\ Len(q) \in Nat
  BY AppendProperties, LenProperties
<1>2. ~Queued(q, p) /\ p # h
  BY DEF Orderly
<1>3. \A r : Queued(Append(q, p), r) <=> Queued(q, r) \/ r = p
  BY <1>1 DEF Queued
<1>4. \A i, j \in 1..Len(Append(q, p)) :
         Append(q, p)[i] = Append(q, p)[j] => i = j
  <2> SUFFICES ASSUME NEW i \in 1..(Len(q) + 1), NEW j \in 1..(Len(q) + 1),
                      Append(q, p)[i] = Append(q, p)[j]
               PROVE  i = j
    BY <1>1
  <2>1. CASE i \in 1..Len(q) /\ j \in 1..Len(q)
    BY <2>1, <1>1 DEF Orderly
  <2>2. CASE i = Len(q) + 1 \/ j = Len(q) + 1
    BY <2>2, <1>1, <1>2 DEF Queued
  <2> QED BY <2>1, <2>2, <1>1
<1> QED BY <1>1, <1>2, <1>3, <1>4 DEF Orderly

\* The free lock goes to the head of the queue.
LEMMA GrantIsOrderly ==
  ASSUME NEW q \in Seq(Tasks), NEW W, Orderly(q, None, W), q # <<>>
  PROVE  /\ Head(q) \in Tasks /\ Tail(q) \in Seq(Tasks) /\ Head(q) \in W
         /\ Orderly(Tail(q), Head(q), W)
         /\ Orderly(Tail(q), None, W \ {Head(q)})
<1>1. /\ Head(q) \in Tasks /\ Tail(q) \in Seq(Tasks)
      /\ Len(Tail(q)) = Len(q) - 1
      /\ \A i \in 1..Len(Tail(q)) : Tail(q)[i] = q[i + 1]
      /\ Len(q) \in Nat \ {0} /\ Head(q) = q[1]
  BY HeadTailProperties, LenProperties, EmptySeq
<1>2. \A r : Queued(q, r) <=> r = Head(q) \/ Queued(Tail(q), r)
  <2> TAKE r
  <2>1. ASSUME Queued(q, r) PROVE r = Head(q) \/ Queued(Tail(q), r)
    <3>1. PICK i \in 1..Len(q) : q[i] = r
      BY <2>1 DEF Queued
    <3>2. CASE i = 1
      BY <3>1, <3>2, <1>1
    <3>3. CASE i # 1
      <4>1. i - 1 \in 1..Len(Tail(q)) /\ Tail(q)[i - 1] = r
        BY <3>1, <3>3, <1>1
      <4> QED BY <4>1 DEF Queued
    <3> QED BY <3>2, <3>3
  <2>2. ASSUME r = Head(q) \/ Queued(Tail(q), r) PROVE Queued(q, r)
    BY <2>2, <1>1 DEF Queued
  <2> QED BY <2>1, <2>2
<1>3. ~Queued(Tail(q), Head(q))
  <2> SUFFICES ASSUME NEW i \in 1..Len(Tail(q)), Tail(q)[i] = Head(q)
               PROVE  FALSE
    BY DEF Queued
  <2>1. i + 1 \in 1..Len(q) /\ 1 \in 1..Len(q) /\ q[i + 1] = q[1] /\ i + 1 # 1
    BY <1>1
  <2> QED BY <2>1 DEF Orderly
<1>4. \A i, j \in 1..Len(Tail(q)) : Tail(q)[i] = Tail(q)[j] => i = j
  <2> TAKE i, j \in 1..Len(Tail(q))
  <2>1. i + 1 \in 1..Len(q) /\ j + 1 \in 1..Len(q)
        /\ Tail(q)[i] = q[i + 1] /\ Tail(q)[j] = q[j + 1]
    BY <1>1
  <2>2. q[i + 1] = q[j + 1] => i + 1 = j + 1
    BY <2>1 DEF Orderly
  <2> QED BY <2>1, <2>2, <1>1
<1>5. ~Queued(Tail(q), None)
  BY <1>2 DEF Orderly
<1> QED BY <1>1, <1>2, <1>3, <1>4, <1>5, NoneIsNobody DEF Orderly, Tasks

\* The holder lets go of the lock and wants it no more.
LEMMA ReleaseIsOrderly ==
  ASSUME NEW q \in Seq(Tasks), NEW h \in Tasks, NEW W, Orderly(q, h, W)
  PROVE  Orderly(q, None, W \ {h})
<1>1. \A i \in 1..Len(q) : q[i] \in Tasks
  BY ElementOfSeq
<1>2. ~Queued(q, None)
  BY <1>1, NoneIsNobody DEF Queued, Tasks
<1> QED BY <1>2, NoneIsNobody DEF Orderly, Tasks

\* A waiter that leaves the queue keeps the order of the others.
LEMMA LeaveIsOrderly ==
  ASSUME NEW q \in Seq(Tasks), NEW h \in Tasks \cup {None}, NEW W,
         Orderly(q, h, W), NEW k \in 1..Len(q)
  PROVE  /\ RemoveAt(q, k) \in Seq(Tasks)
         /\ Orderly(RemoveAt(q, k), h, W \ {q[k]})
<1> DEFINE r == RemoveAt(q, k)
           At(i) == IF i < k THEN i ELSE i + 1
<1>0. Len(q) \in Nat /\ \A i \in 1..Len(q) : q[i] \in Tasks
  BY ElementOfSeq, LenProperties
<1>1. /\ SubSeq(q, 1, k - 1) \in Seq(Tasks)
      /\ Len(SubSeq(q, 1, k - 1)) = k - 1
      /\ \A i \in 1..(k - 1) : SubSeq(q, 1, k - 1)[i] = q[i]
  BY <1>0, SubSeqProperties
<1>2. /\ SubSeq(q, k + 1, Len(q)) \in Seq(Tasks)
      /\ Len(SubSeq(q, k + 1, Len(q))) = Len(q) - k
      /\ \A i \in 1..(Len(q) - k) : SubSeq(q, k + 1, Len(q))[i] = q[k + i]
  <2>1. \A i \in (k + 1)..Len(q) : q[i] \in Tasks
    BY <1>0
  <2>2. /\ SubSeq(q, k + 1, Len(q)) \in Seq(Tasks)
        /\ Len(SubSeq(q, k + 1, Len(q))) =
             IF k + 1 <= Len(q) THEN Len(q) - (k + 1) + 1 ELSE 0
        /\ \A i \in 1..(Len(q) - (k + 1) + 1) :
             SubSeq(q, k + 1, Len(q))[i] = q[k + 1 + i - 1]
    BY <1>0, <2>1, SubSeqProperties
  <2> QED BY <1>0, <2>2
<1>3. r \in Seq(Tasks) /\ Len(r) = Len(q) - 1
  BY <1>0, <1>1, <1>2, ConcatProperties DEF RemoveAt
<1>4. \A i \in 1..Len(r) : At(i) \in 1..Len(q) /\ At(i) # k /\ r[i] = q[At(i)]
  <2> TAKE i \in 1..Len(r)
  <2>1. r[i] = IF i <= k - 1 THEN SubSeq(q, 1, k - 1)[i]
               ELSE SubSeq(q, k + 1, Len(q))[i - (k - 1)]
    <3> DEFINE a == SubSeq(q, 1, k - 1)
               b == SubSeq(q, k + 1, Len(q))
    <3>1. a \in Seq(Tasks) /\ b \in Seq(Tasks) /\ Len(a) = k - 1
          /\ Len(b) = Len(q) - k
      BY <1>1, <1>2
    <3> HIDE DEF a, b
    <3>2. /\ Len(a \o b) = Len(a) + Len(b)
          /\ \A n \in 1..(Len(a) + Len(b)) :
               (a \o b)[n] = IF n <= Len(a) THEN a[n] ELSE b[n - Len(a)]
      BY <3>1, ConcatProperties
    <3>3. i \in 1..(Len(a) + Len(b))
      BY <3>1, <1>0, <1>3
    <3> QED BY <3>1, <3>2, <3>3 DEF RemoveAt, a, b
  <2>2. CASE i <= k - 1
    BY <2>1, <2>2, <1>0, <1>1, <1>3
  <2>3. CASE i > k - 1
    <3>1. i - (k - 1) \in 1..(Len(q) - k) /\ k + (i - (k - 1)) = i + 1
      BY <2>3, <1>0, <1>3
    <3> QED BY <2>1, <2>3, <3>1, <1>0, <1>2, <1>3
  <2> QED BY <2>2, <2>3, <1>0
<1>5. \A p : Queued(r, p) <=> Queued(q, p) /\ p # q[k]
  <2> TAKE p
  <2>1. ASSUME Queued(r, p) PROVE Queued(q, p) /\ p # q[k]
    BY <2>1, <1>4 DEF Queued, Orderly
  <2>2. ASSUME Queued(q, p), p # q[k] PROVE Queued(r, p)
    <3>1. PICK i \in 1..Len(q) : q[i] = p
      BY <2>2 DEF Queued
    <3>2. CASE i < k
      <4>1. i \in 1..Len(r) /\ At(i) = i
        BY <3>1, <3>2, <1>0, <1>3
      <4> QED BY <3>1, <4>1, <1>4 DEF Queued
    <3>3. CASE i > k
      <4>1. i - 1 \in 1..Len(r) /\ At(i - 1) = i
        BY <3>1, <3>3, <1>0, <1>3
      <4> QED BY <3>1, <4>1, <1>4 DEF Queued
    <3> QED BY <3>1, <3>2, <3>3, <2>2, <1>0
  <2> QED BY <2>1, <2>2
<1>6. \A i, j \in 1..Len(r) : r[i] = r[j] => i = j
  <2> TAKE i, j \in 1..Len(r)
  <2>1. r[i] = r[j] => At(i) = At(j)
    BY <1>4 DEF Orderly
  <2>2. At(i) = At(j) => i = j
    BY <1>0, <1>3
  <2> QED BY <2>1, <2>2
<1>7. q[k] # h
  BY DEF Orderly, Queued
<1> HIDE DEF r
<1>8. Orderly(r, h, W \ {q[k]})
  BY <1>5, <1>6, <1>7 DEF Orderly
<1> QED BY <1>3, <1>8 DEF r

-----------------------------------------------------------------------------
(***************************************************************************)
(* The inductive invariant.                                                *)
(***************************************************************************)
Wanting == {p \in Tasks : pc[p] \in Waiting}

\* A task waits for the lock or holds it, and the pool has the holder's call,
\* on the device in service, and no other.
LockInv ==
  /\ Orderly(queue, holder, Wanting)
  /\ calls = IF holder = None THEN {} ELSE {Call(holder)}
  /\ holder # None => device # None \/ CallAt[pc[holder]] = "open"

\* There is a device from the end of connect() to disconnect(), and then no
\* listener.
LifeInv ==
  /\ pc[Owner] \in {"new", "opening", "failed", "fetching", "up", "closing",
                    "down"}
  /\ pc[Listener] \in {"off", "top", "receiving", "backoff", "backoffAgain",
                       "reopening", "retrying", "refetching", "ended"}
  /\ \A s \in Senders : pc[s] \in {"idle", "sending"}
  /\ device = None <=> pc[Owner] \in {"new", "opening", "failed", "down"}
  /\ pc[Owner] \in {"new", "opening", "failed", "fetching"}
       => pc[Listener] = "off"
  /\ pc[Owner] = "down" => pc[Listener] = "ended"
  /\ sockets \subseteq {device} \ {None}

AccessInv == TypeOK /\ LockInv /\ LifeInv

\* What a task that moves does to the tasks that want the lock.
LEMMA GotoChangesWanting ==
  ASSUME TypeOK, NEW p \in Tasks, NEW place, Goto(p, place)
  PROVE  /\ pc'[p] = place
         /\ \A q \in Tasks : q # p => pc'[q] = pc[q]
         /\ place \in Waiting => Wanting' = Wanting \cup {p}
         /\ place \notin Waiting => Wanting' = Wanting \ {p}
BY DEF TypeOK, Goto, Wanting

\* A task that comes to want the lock keeps the lock's invariant.
LEMMA AskKeepsLock ==
  ASSUME TypeOK, LockInv, NEW p \in Tasks, NEW place \in Waiting,
         pc[p] \notin Waiting, Goto(p, place), Ask(p),
         UNCHANGED <<holder, calls, device>>
  PROVE  LockInv' /\ queue' \in Seq(Tasks)
<1>1. Wanting' = Wanting \cup {p} /\ p \notin Wanting
  BY GotoChangesWanting DEF Wanting
<1>2. queue \in Seq(Tasks) /\ holder \in Tasks \cup {None}
  BY DEF TypeOK
<1>3. queue' \in Seq(Tasks) /\ Orderly(queue', holder, Wanting')
  BY <1>1, <1>2, AskIsOrderly DEF LockInv, Ask
<1>4. holder # p
  BY <1>1 DEF LockInv, Orderly
<1>5. holder # None => pc'[holder] = pc[holder]
  BY <1>2, <1>4, GotoChangesWanting
<1> QED BY <1>3, <1>5 DEF LockInv, Call

\* Finishing a call leaves the pool empty and the lock to the queue.
LEMMA FinishFreesLock ==
  ASSUME TypeOK, LockInv, NEW p \in Tasks, NEW op, Finish(p, op)
  PROVE  /\ CallAt[pc[p]] = op /\ pc[p] \in Waiting
         /\ calls = {Call(p)} /\ calls' = {} /\ holder' = None
         /\ Orderly(queue, None, Wanting \ {p})
<1>1. p # None
  BY NoneIsNobody DEF Tasks
<1>2. calls = {Call(p)}
  BY <1>1 DEF LockInv, Finish
<1>3. CallAt[pc[p]] = op /\ calls' = {} /\ holder' = None
  BY <1>2 DEF Finish, Unlocked, Call
<1>4. p \in Wanting
  BY DEF LockInv, Orderly, Finish
<1>5. Orderly(queue, None, Wanting \ {p})
  BY ReleaseIsOrderly DEF LockInv, Finish, TypeOK
<1> QED BY <1>2, <1>3, <1>4, <1>5 DEF Wanting

\* Which place each call is made at.
LEMMA PlaceOfCall ==
  ASSUME NEW place \in Waiting
  PROVE  /\ CallAt[place] \in {"open", "status", "receive", "set", "close"}
         /\ CallAt[place] = "open" <=> place \in {"opening", "reopening", "retrying"}
         /\ CallAt[place] = "status" <=> place \in {"fetching", "refetching"}
         /\ CallAt[place] = "receive" <=> place = "receiving"
         /\ CallAt[place] = "set" <=> place = "sending"
         /\ CallAt[place] = "close" <=> place = "closing"
BY DEF CallAt, Waiting

\* The lock's invariant when a task finishes a call and wants no other.
LEMMA FinishKeepsLock ==
  ASSUME TypeOK, LockInv, NEW p \in Tasks, NEW op, Finish(p, op),
         Wanting' = Wanting \ {p}, UNCHANGED queue
  PROVE  LockInv'
BY FinishFreesLock DEF LockInv

\* The lock's invariant when a task finishes a call and asks for another.
LEMMA FinishAndAskKeepsLock ==
  ASSUME TypeOK, LockInv, NEW p \in Tasks, NEW op, Finish(p, op),
         NEW place \in Waiting, Goto(p, place), Ask(p)
  PROVE  LockInv' /\ queue' \in Seq(Tasks)
<1>1. Orderly(queue, None, Wanting \ {p}) /\ calls' = {} /\ holder' = None
      /\ p \in Wanting
  BY FinishFreesLock DEF Wanting
<1>2. queue' \in Seq(Tasks) /\ Orderly(queue', None, (Wanting \ {p}) \cup {p})
  BY <1>1, AskIsOrderly DEF TypeOK, Ask
<1>3. Wanting' = (Wanting \ {p}) \cup {p}
  BY <1>1, GotoChangesWanting
<1> QED BY <1>1, <1>2, <1>3 DEF LockInv

-----------------------------------------------------------------------------
(***************************************************************************)
(* Every step keeps the invariant.                                         *)
(***************************************************************************)

\* What the head of the queue finds when the lock is free.
LEMMA HeadOfQueue ==
  ASSUME AccessInv, holder = None, queue # <<>>
  PROVE  /\ Head(queue) \in Wanting /\ Tail(queue) \in Seq(Tasks)
         /\ Orderly(Tail(queue), Head(queue), Wanting)
         /\ Orderly(Tail(queue), None, Wanting \ {Head(queue)})
<1>1. queue \in Seq(Tasks)
  BY DEF AccessInv, TypeOK
<1>2. Orderly(queue, None, Wanting)
  BY DEF AccessInv, LockInv
<1> QED BY <1>1, <1>2, GrantIsOrderly

\* Granting the lock, and refusing it to a command that finds no device.
LEMMA GrantKeeps ==
  ASSUME AccessInv, NEW p \in Tasks, Grant(p)
  PROVE  AccessInv'
<1>1. /\ Tail(queue) \in Seq(Tasks) /\ p \in Wanting
      /\ Orderly(Tail(queue), p, Wanting)
  BY HeadOfQueue DEF Grant
<1>2. Wanting' = Wanting
  BY DEF Grant, Wanting
<1>3. calls = {} /\ p # None
  BY NoneIsNobody DEF AccessInv, LockInv, Grant, Tasks
<1>4. Call(p)' = Call(p)
  BY DEF Grant, Call
<1>5. LockInv'
  BY <1>1, <1>2, <1>3, <1>4 DEF LockInv, Grant
<1>6. Call(p) \in [by : Tasks, op : {"open", "status", "receive", "set", "close"},
                   on : Devices \cup {None}]
  <2>1. CallAt[pc[p]] \in {"open", "status", "receive", "set", "close"}
    BY <1>1, PlaceOfCall DEF Wanting
  <2> QED BY <2>1 DEF Call, AccessInv, TypeOK
<1>7. TypeOK'
  BY <1>1, <1>6 DEF AccessInv, TypeOK, Grant
<1>8. LifeInv'
  BY DEF AccessInv, LifeInv, Grant
<1> QED BY <1>5, <1>7, <1>8 DEF AccessInv

\* A command that finds no device leaves the lock as free as it was.
LEMMA RefuseKeeps ==
  ASSUME AccessInv, NEW p \in Tasks, Refuse(p)
  PROVE  AccessInv'
<1>1. /\ Tail(queue) \in Seq(Tasks)
      /\ Orderly(Tail(queue), None, Wanting \ {p})
  BY HeadOfQueue DEF Refuse
<1>2. Wanting' = Wanting \ {p}
  BY GotoChangesWanting DEF AccessInv, Refuse, Waiting
<1>3. LockInv'
  BY <1>1, <1>2 DEF AccessInv, LockInv, Refuse
<1>4. TypeOK'
  BY <1>1 DEF AccessInv, TypeOK, Refuse, Goto
<1>5. p \in Senders
  BY DEF AccessInv, LifeInv, Refuse, Tasks
<1>6. LifeInv'
  BY <1>5, TasksAreDistinct DEF AccessInv, TypeOK, LifeInv, Refuse, Goto
<1> QED BY <1>3, <1>4, <1>6 DEF AccessInv

\* Where the entry is when a call of its own ends.
LEMMA OwnerFinishes ==
  ASSUME AccessInv, NEW op, Finish(Owner, op)
  PROVE  /\ calls' = {} /\ holder' = None /\ calls = {Call(Owner)}
         /\ Call(Owner) = [by |-> Owner, op |-> op, on |-> device]
         /\ Orderly(queue, None, Wanting \ {Owner})
         /\ op = "open" => pc[Owner] = "opening"
         /\ op = "status" => pc[Owner] = "fetching"
         /\ op = "close" => pc[Owner] = "closing"
<1>1. /\ CallAt[pc[Owner]] = op /\ pc[Owner] \in Waiting
      /\ calls = {Call(Owner)} /\ calls' = {} /\ holder' = None
      /\ Orderly(queue, None, Wanting \ {Owner})
  BY FinishFreesLock DEF AccessInv, Tasks
<1>2. pc[Owner] \in {"opening", "fetching", "closing"}
  BY <1>1 DEF AccessInv, LifeInv, Waiting
<1>3. /\ CallAt["opening"] = "open" /\ CallAt["fetching"] = "status"
      /\ CallAt["closing"] = "close"
  BY DEF CallAt, Waiting
<1> QED BY <1>1, <1>2, <1>3 DEF Call

\* Where the listener is when a call of its own ends.
LEMMA ListenerFinishes ==
  ASSUME AccessInv, NEW op, Finish(Listener, op)
  PROVE  /\ calls' = {} /\ holder' = None /\ calls = {Call(Listener)}
         /\ Call(Listener) = [by |-> Listener, op |-> op, on |-> device]
         /\ device \in Devices
         /\ pc[Owner] \in {"up", "closing"}
         /\ op \in {"receive", "open", "status"}
<1>1. /\ CallAt[pc[Listener]] = op /\ pc[Listener] \in Waiting
      /\ calls = {Call(Listener)} /\ calls' = {} /\ holder' = None
  BY FinishFreesLock DEF AccessInv, Tasks
<1>2. pc[Listener] \in {"receiving", "reopening", "retrying", "refetching"}
  BY <1>1 DEF AccessInv, LifeInv, Waiting
<1>3. /\ CallAt["receiving"] = "receive" /\ CallAt["reopening"] = "open"
      /\ CallAt["retrying"] = "open" /\ CallAt["refetching"] = "status"
  BY DEF CallAt, Waiting
<1>4. pc[Owner] \in {"up", "closing"} /\ device \in Devices
  BY <1>2 DEF AccessInv, LifeInv, TypeOK
<1> QED BY <1>1, <1>2, <1>3, <1>4 DEF Call

\* A command whose write ends finds the device it was made on in service.
LEMMA SenderFinishes ==
  ASSUME AccessInv, NEW s \in Senders, NEW op, Finish(s, op)
  PROVE  /\ calls' = {} /\ holder' = None /\ calls = {Call(s)}
         /\ Call(s) = [by |-> s, op |-> "set", on |-> device]
         /\ device \in Devices
<1>1. /\ pc[s] \in Waiting /\ holder = s /\ s # None
      /\ calls = {Call(s)} /\ calls' = {} /\ holder' = None
  BY FinishFreesLock, NoneIsNobody DEF AccessInv, Tasks, Finish
<1>2. pc[s] = "sending"
  BY <1>1 DEF AccessInv, LifeInv, Waiting
<1>3. CallAt["sending"] = "set"
  BY DEF CallAt, Waiting
<1>4. device \in Devices
  BY <1>1, <1>2, <1>3 DEF AccessInv, LockInv, TypeOK
<1> QED BY <1>1, <1>2, <1>3, <1>4 DEF Call

\* The steps of connect() and disconnect().
LEMMA OwnerKeeps ==
  ASSUME AccessInv, OwnerStep
  PROVE  AccessInv'
<1> USE DEF AccessInv
<1>0. Owner \in Tasks /\ Listener \in Tasks /\ Owner # Listener
      /\ Owner \notin Senders /\ Listener \notin Senders
  BY TasksAreDistinct DEF Tasks
<1>1. CASE Connect
  <2>1. LockInv' /\ queue' \in Seq(Tasks)
    BY <1>0, <1>1, AskKeepsLock DEF Connect, Waiting
  <2>2. TypeOK'
    BY <1>0, <1>1, <2>1 DEF TypeOK, Connect, Goto, Waiting
  <2>3. LifeInv'
    BY <1>0, <1>1 DEF TypeOK, LifeInv, Connect, Goto
  <2> QED BY <2>1, <2>2, <2>3
<1>2. CASE OpenEnds
  <2>1. pc[Owner] = "opening" /\ calls' = {} /\ holder' = None
    BY <1>2, OwnerFinishes DEF OpenEnds
  <2>2. CASE OpenDevice /\ Goto(Owner, "fetching") /\ Ask(Owner)
    <3>1. LockInv' /\ queue' \in Seq(Tasks)
      BY <1>0, <1>2, <2>2, FinishAndAskKeepsLock DEF OpenEnds, Waiting
    <3>2. TypeOK'
      BY <1>0, <1>2, <2>1, <2>2, <3>1
      DEF TypeOK, OpenEnds, OpenDevice, Drops, Goto, Waiting
    <3>3. LifeInv'
      BY <1>0, <1>2, <2>1, <2>2, NoneIsNobody
      DEF TypeOK, LifeInv, OpenEnds, OpenDevice, Drops, Goto
    <3> QED BY <3>1, <3>2, <3>3
  <2>3. CASE Drops /\ Goto(Owner, "failed") /\ UNCHANGED <<device, queue>>
    <3>1. Wanting' = Wanting \ {Owner}
      BY <1>0, <2>3, GotoChangesWanting DEF Waiting
    <3>2. LockInv'
      BY <1>0, <1>2, <2>3, <3>1, FinishKeepsLock DEF OpenEnds
    <3>3. TypeOK'
      BY <1>0, <1>2, <2>1, <2>3 DEF TypeOK, OpenEnds, Drops, Goto
    <3>4. LifeInv'
      BY <1>0, <1>2, <2>1, <2>3 DEF TypeOK, LifeInv, OpenEnds, Drops, Goto
    <3> QED BY <3>2, <3>3, <3>4
  <2> QED BY <1>2, <2>2, <2>3 DEF OpenEnds
<1>3. CASE FetchEnds
  <2>1. pc[Owner] = "fetching" /\ calls' = {} /\ holder' = None
    BY <1>3, OwnerFinishes DEF FetchEnds
  <2>2. pc[Listener] = "off" /\ device \in Devices
    BY <2>1 DEF LifeInv, TypeOK
  <2>3. Wanting' = Wanting \ {Owner}
    BY <1>0, <1>3, <2>1, <2>2 DEF FetchEnds, Wanting, TypeOK, Waiting
  <2>4. LockInv'
    BY <1>0, <1>3, <2>3, FinishKeepsLock DEF FetchEnds
  <2>5. TypeOK'
    BY <1>0, <1>3, <2>1, <2>2 DEF TypeOK, FetchEnds, Uses
  <2>6. LifeInv'
    <3>1. /\ pc'[Owner] = "up" /\ pc'[Listener] = "top"
          /\ \A s \in Senders : pc'[s] = pc[s]
      BY <1>0, <1>3 DEF TypeOK, FetchEnds, Tasks
    <3>2. device' = device /\ sockets' \subseteq {device} \ {None}
      BY <1>3, <2>2, NoneIsNobody DEF LifeInv, FetchEnds, Uses
    <3> QED BY <3>1, <3>2, <2>2, NoneIsNobody DEF LifeInv
  <2> QED BY <2>4, <2>5, <2>6
<1>4. CASE Disconnect
  <2>1. LockInv' /\ queue' \in Seq(Tasks)
    BY <1>0, <1>4, AskKeepsLock DEF Disconnect, Waiting
  <2>2. TypeOK'
    BY <1>0, <1>4, <2>1 DEF TypeOK, Disconnect, Goto, Waiting
  <2>3. LifeInv'
    BY <1>0, <1>4 DEF TypeOK, LifeInv, Disconnect, Goto
  <2> QED BY <2>1, <2>2, <2>3
<1>5. CASE CloseEnds
  <2>1. /\ pc[Owner] = "closing" /\ calls' = {} /\ holder' = None
        /\ Orderly(queue, None, Wanting \ {Owner})
    BY <1>5, OwnerFinishes DEF CloseEnds
  <2>2. Wanting' = (Wanting \ {Owner}) \ {Listener}
    BY <1>0, <1>5 DEF CloseEnds, Wanting, TypeOK, Waiting
  <2>3. queue' \in Seq(Tasks) /\ Orderly(queue', None, Wanting')
    <3>1. CASE Queued(queue, Listener)
      <4>1. PICK i \in 1..Len(queue) :
               queue[i] = Listener /\ queue' = RemoveAt(queue, i)
        BY <1>5, <3>1 DEF CloseEnds, LeavesQueue, Queued
      <4> QED BY <2>1, <2>2, <4>1, LeaveIsOrderly DEF TypeOK
    <3>2. CASE ~Queued(queue, Listener)
      <4>1. Listener \notin Wanting \ {Owner}
        BY <1>0, <2>1, <3>2, NoneIsNobody DEF Orderly, Tasks
      <4>2. Wanting' = Wanting \ {Owner} /\ queue' = queue
        BY <1>5, <2>2, <3>2, <4>1 DEF CloseEnds, LeavesQueue, Queued
      <4> QED BY <2>1, <4>2 DEF TypeOK
    <3> QED BY <3>1, <3>2
  <2>4. LockInv'
    BY <2>1, <2>3 DEF LockInv
  <2>5. TypeOK'
    BY <1>0, <1>5, <2>1, <2>3 DEF TypeOK, CloseEnds, Drops
  <2>6. LifeInv'
    <3>1. /\ pc'[Owner] = "down" /\ pc'[Listener] = "ended"
          /\ \A s \in Senders : pc'[s] = pc[s]
      BY <1>0, <1>5 DEF TypeOK, CloseEnds, Tasks
    <3>2. device' = None /\ sockets' = {}
      BY <1>5 DEF LifeInv, CloseEnds, Drops
    <3> QED BY <3>1, <3>2 DEF LifeInv
  <2> QED BY <2>4, <2>5, <2>6
<1> QED BY <1>1, <1>2, <1>3, <1>4, <1>5 DEF OwnerStep

\* The steps of _listen_loop.
LEMMA ListenerKeeps ==
  ASSUME AccessInv, ListenerStep
  PROVE  AccessInv'
<1> USE DEF AccessInv
<1>0. Owner \in Tasks /\ Listener \in Tasks /\ Owner # Listener
      /\ Owner \notin Senders /\ Listener \notin Senders
      /\ \A s \in Senders : s \in Tasks
  BY TasksAreDistinct DEF Tasks
<1>1. CASE Listen
  <2>1. CASE stop
    <3>1. Goto(Listener, "ended") /\ UNCHANGED queue
      BY <1>1, <2>1 DEF Listen
    <3>2. Wanting' = Wanting /\ Listener \notin Wanting
      BY <1>0, <1>1, <3>1, GotoChangesWanting DEF Listen, Waiting, Wanting
    <3>3. holder # None => pc'[holder] = pc[holder]
      BY <1>0, <3>1, <3>2, GotoChangesWanting DEF LockInv, Orderly, TypeOK
    <3>4. LockInv'
      BY <1>1, <3>1, <3>2, <3>3 DEF LockInv, Listen, Call
    <3>5. TypeOK'
      BY <1>0, <1>1, <3>1 DEF TypeOK, Listen, Goto
    <3>6. LifeInv'
      BY <1>0, <1>1, <3>1 DEF TypeOK, LifeInv, Listen, Goto
    <3> QED BY <3>4, <3>5, <3>6
  <2>2. CASE ~stop
    <3>1. Goto(Listener, "receiving") /\ Ask(Listener)
      BY <1>1, <2>2 DEF Listen
    <3>2. LockInv' /\ queue' \in Seq(Tasks)
      BY <1>0, <1>1, <3>1, AskKeepsLock DEF Listen, Waiting
    <3>3. TypeOK'
      BY <1>0, <1>1, <3>1, <3>2 DEF TypeOK, Listen, Goto, Waiting
    <3>4. LifeInv'
      BY <1>0, <1>1, <3>1 DEF TypeOK, LifeInv, Listen, Goto
    <3> QED BY <3>2, <3>3, <3>4
  <2> QED BY <2>1, <2>2
<1>2. CASE Wake
  <2>1. PICK place \in {"reopening", "retrying"} : Goto(Listener, place)
    BY <1>2 DEF Wake
  <2>2. LockInv' /\ queue' \in Seq(Tasks)
    BY <1>0, <1>2, <2>1, AskKeepsLock DEF Wake, Waiting
  <2>3. TypeOK'
    BY <1>0, <1>2, <2>1, <2>2 DEF TypeOK, Wake, Goto, Waiting
  <2>4. LifeInv'
    <3>1. /\ pc'[Owner] = pc[Owner] /\ pc'[Listener] = place
          /\ \A s \in Senders : pc'[s] = pc[s]
      BY <1>0, <2>1, GotoChangesWanting
    <3>2. pc[Listener] \in {"backoff", "backoffAgain"}
      BY <1>2 DEF Wake
    <3> QED BY <1>2, <3>1, <3>2 DEF LifeInv, Wake
  <2> QED BY <2>2, <2>3, <2>4
<1>3. ASSUME NEW op, Finish(Listener, op),
             NEW place \in {"top", "backoff", "backoffAgain"},
             Goto(Listener, place), UNCHANGED <<queue, device, stop, abandoned>>,
             sockets' \subseteq sockets \cup {device}
      PROVE  AccessInv'
  <2>1. Wanting' = Wanting \ {Listener}
    BY <1>0, <1>3, GotoChangesWanting DEF Waiting
  <2>2. LockInv'
    BY <1>0, <1>3, <2>1, FinishKeepsLock
  <2>3. calls' = {} /\ holder' = None /\ device \in Devices
        /\ pc[Owner] \in {"up", "closing"}
    BY <1>3, ListenerFinishes
  <2>4. TypeOK'
    BY <1>0, <1>3, <2>3 DEF TypeOK, Goto
  <2>5. /\ pc'[Owner] = pc[Owner] /\ pc'[Listener] = place
        /\ \A s \in Senders : pc'[s] = pc[s]
    BY <1>0, <1>3, GotoChangesWanting
  <2>6. sockets' \subseteq {device} \ {None}
    BY <1>3, <2>3, NoneIsNobody DEF LifeInv
  <2>7. LifeInv'
    BY <1>3, <2>3, <2>5, <2>6 DEF LifeInv
  <2> QED BY <2>2, <2>4, <2>7
<1>4. CASE ReceiveEnds
  <2>1. PICK place \in {"top", "backoff", "backoffAgain"} : Goto(Listener, place)
    BY <1>4 DEF ReceiveEnds
  <2>2. sockets' \subseteq sockets \cup {device}
    BY <1>4 DEF ReceiveEnds, Uses
  <2> QED BY <1>3, <1>4, <2>1, <2>2 DEF ReceiveEnds
<1>5. CASE RefetchEnds
  <2>1. sockets' \subseteq sockets \cup {device}
    BY <1>5 DEF RefetchEnds, Uses
  <2> QED BY <1>3, <1>5, <2>1 DEF RefetchEnds
<1>6. CASE ReopenEnds
  <2>1. CASE OpenDevice /\ Goto(Listener, "refetching") /\ Ask(Listener)
    <3>1. LockInv' /\ queue' \in Seq(Tasks)
      BY <1>0, <1>6, <2>1, FinishAndAskKeepsLock DEF ReopenEnds, Waiting
    <3>2. calls' = {} /\ holder' = None /\ device \in Devices
          /\ pc[Owner] \in {"up", "closing"}
      BY <1>6, ListenerFinishes DEF ReopenEnds
    <3>3. TypeOK'
      BY <1>0, <1>6, <2>1, <3>1, <3>2
      DEF TypeOK, ReopenEnds, OpenDevice, Drops, Goto, Waiting
    <3>4. /\ pc'[Owner] = pc[Owner] /\ pc'[Listener] = "refetching"
          /\ \A s \in Senders : pc'[s] = pc[s]
      BY <1>0, <2>1, GotoChangesWanting
    <3>5. device' # None /\ sockets' = {}
      BY <2>1, NoneIsNobody DEF OpenDevice, Drops, LifeInv
    <3> QED BY <3>1, <3>2, <3>3, <3>4, <3>5 DEF LifeInv
  <2>2. CASE /\ Drops /\ UNCHANGED <<device, queue>>
             /\ Goto(Listener, IF pc[Listener] = "reopening"
                               THEN "backoffAgain" ELSE "top")
    <3>1. sockets' \subseteq sockets \cup {device}
      BY <2>2 DEF Drops
    <3>2. PICK place \in {"top", "backoffAgain"} : Goto(Listener, place)
      BY <2>2
    <3> QED BY <1>3, <1>6, <2>2, <3>1, <3>2 DEF ReopenEnds
  <2> QED BY <1>6, <2>1, <2>2 DEF ReopenEnds
<1> QED BY <1>1, <1>2, <1>4, <1>5, <1>6 DEF ListenerStep

\* A waiter that leaves, if it is in the queue, leaves it in order.
LEMMA LeavesQueueIsOrderly ==
  ASSUME TypeOK, NEW h \in Tasks \cup {None}, NEW W, Orderly(queue, h, W),
         NEW p \in Tasks, p # h, LeavesQueue(p)
  PROVE  queue' \in Seq(Tasks) /\ Orderly(queue', h, W \ {p})
<1>1. CASE Queued(queue, p)
  <2>1. PICK i \in 1..Len(queue) : queue[i] = p /\ queue' = RemoveAt(queue, i)
    BY <1>1 DEF LeavesQueue, Queued
  <2> QED BY <2>1, LeaveIsOrderly DEF TypeOK
<1>2. CASE ~Queued(queue, p)
  <2>1. queue' = queue
    BY <1>2 DEF LeavesQueue, Queued
  <2>2. p \notin W
    BY <1>2 DEF Orderly
  <2> QED BY <2>1, <2>2 DEF TypeOK, Orderly
<1> QED BY <1>1, <1>2

\* What cancelling a command does to the lock, if its call is not left behind.
LEMMA CancelKeepsLock ==
  ASSUME AccessInv, NEW s \in Senders, Cancel(s), ~abandoned'
  PROVE  /\ LockInv' /\ queue' \in Seq(Tasks)
         /\ holder' \in Tasks \cup {None} /\ calls' \subseteq calls
<1> USE DEF AccessInv
<1>0. s \in Tasks /\ s # None
  BY NoneIsNobody DEF Tasks
<1>1. Wanting' = Wanting \ {s} /\ \A q \in Tasks : q # s => pc'[q] = pc[q]
  BY <1>0, GotoChangesWanting DEF Cancel, Waiting
<1>2. CASE holder = s
  <2>1. calls = {Call(s)} /\ Call(s).by = s
    BY <1>0, <1>2 DEF LockInv, Call
  <2>2. holder' = None /\ calls' = {}
    BY <1>2, <2>1 DEF Cancel, Unlocked
  <2>3. Orderly(queue, None, Wanting \ {s}) /\ ~Queued(queue, s)
    BY <1>0, <1>2, ReleaseIsOrderly DEF LockInv, TypeOK, Orderly
  <2>4. queue' = queue
    BY <2>3 DEF Cancel, LeavesQueue, Queued
  <2> QED BY <1>1, <2>2, <2>3, <2>4 DEF LockInv, TypeOK
<1>3. CASE holder # s
  <2>1. queue' \in Seq(Tasks) /\ Orderly(queue', holder, Wanting \ {s})
    BY <1>0, <1>3, LeavesQueueIsOrderly DEF Cancel, LockInv, TypeOK
  <2>2. UNCHANGED <<holder, calls, device>>
    BY <1>3 DEF Cancel
  <2>3. holder # None => pc'[holder] = pc[holder]
    BY <1>1, <1>3 DEF TypeOK
  <2> QED BY <1>1, <2>1, <2>2, <2>3 DEF LockInv, TypeOK, Call
<1> QED BY <1>2, <1>3

\* The steps of a command that leaves no call behind.
LEMMA SenderKeeps ==
  ASSUME AccessInv, ~abandoned', NEW s \in Senders, SenderStep(s)
  PROVE  AccessInv'
<1> USE DEF AccessInv
<1>0. s \in Tasks /\ s # Owner /\ s # Listener
      /\ Owner \in Tasks /\ Listener \in Tasks
      /\ \A r \in Senders : r \in Tasks
  BY TasksAreDistinct DEF Tasks
<1>1. CASE SendCommand(s)
  <2>1. LockInv' /\ queue' \in Seq(Tasks)
    BY <1>0, <1>1, AskKeepsLock DEF SendCommand, Waiting
  <2>2. TypeOK'
    BY <1>0, <1>1, <2>1 DEF TypeOK, SendCommand, Goto, Waiting
  <2>3. LifeInv'
    BY <1>0, <1>1 DEF TypeOK, LifeInv, SendCommand, Goto
  <2> QED BY <2>1, <2>2, <2>3
<1>2. CASE SendEnds(s)
  <2>1. Wanting' = Wanting \ {s}
    BY <1>0, <1>2, GotoChangesWanting DEF SendEnds, Waiting
  <2>2. LockInv'
    BY <1>0, <1>2, <2>1, FinishKeepsLock DEF SendEnds
  <2>3. calls' = {} /\ holder' = None /\ device \in Devices
    BY <1>2, SenderFinishes DEF SendEnds
  <2>4. TypeOK'
    BY <1>0, <1>2, <2>3 DEF TypeOK, SendEnds, Goto, Uses
  <2>5. /\ pc'[Owner] = pc[Owner] /\ pc'[Listener] = pc[Listener]
        /\ \A r \in Senders : pc'[r] \in {pc[r], "idle"}
    BY <1>0, <1>2, GotoChangesWanting DEF SendEnds
  <2>6. sockets' \subseteq {device} \ {None}
    BY <1>2, <2>3, NoneIsNobody DEF LifeInv, SendEnds, Uses
  <2>7. device' = device
    BY <1>2 DEF SendEnds
  <2>8. LifeInv'
    BY <2>5, <2>6, <2>7 DEF LifeInv
  <2> QED BY <2>2, <2>4, <2>8
<1>3. CASE Cancel(s)
  <2>1. /\ LockInv' /\ queue' \in Seq(Tasks)
        /\ holder' \in Tasks \cup {None} /\ calls' \subseteq calls
    BY <1>3, CancelKeepsLock
  <2>2. Goto(s, "idle") /\ UNCHANGED <<device, sockets, stop>>
    BY <1>3 DEF Cancel
  <2>3. abandoned' \in BOOLEAN
    BY <1>3 DEF Cancel, TypeOK
  <2>4. TypeOK'
    BY <1>0, <2>1, <2>2, <2>3 DEF TypeOK, Goto
  <2>5. /\ pc'[Owner] = pc[Owner] /\ pc'[Listener] = pc[Listener]
        /\ \A r \in Senders : pc'[r] \in {pc[r], "idle"}
    BY <1>0, <2>2, GotoChangesWanting
  <2>6. LifeInv'
    BY <2>2, <2>5 DEF LifeInv
  <2> QED BY <2>1, <2>4, <2>6
<1> QED BY <1>1, <1>2, <1>3 DEF SenderStep

\* No call is ever without the task that awaits it.
LEMMA NothingIsOrphaned ==
  ASSUME AccessInv, NEW c \in calls
  PROVE  ~OrphanEnds(c)
BY DEF AccessInv, LockInv, Call, OrphanEnds

\* Every step keeps the invariant but the one that abandons a call.
LEMMA AccessStep ==
  ASSUME AccessInv, ~abandoned', [Next]_vars
  PROVE  AccessInv'
<1>1. CASE UNCHANGED vars
  BY <1>1 DEF vars, AccessInv, TypeOK, LockInv, LifeInv, Orderly, Queued,
              Wanting, Call
<1>2. CASE Next
  BY <1>2, GrantKeeps, RefuseKeeps, OwnerKeeps, ListenerKeeps, SenderKeeps,
     NothingIsOrphaned DEF Next
<1> QED BY <1>1, <1>2

\* Before connect() nobody wants the lock.
LEMMA AccessInit == Init => AccessInv
<1> SUFFICES ASSUME Init PROVE AccessInv
  OBVIOUS
<1>1. Owner \in Tasks /\ Listener \in Tasks /\ Owner # Listener
      /\ Owner \notin Senders /\ Listener \notin Senders
      /\ \A s \in Senders : s \in Tasks
  BY TasksAreDistinct DEF Tasks
<1>2. queue \in Seq(Tasks) /\ \A p : ~Queued(queue, p)
  BY EmptySeq DEF Init, Queued
<1>3. TypeOK
  BY <1>1, <1>2 DEF Init, TypeOK
<1>4. Wanting = {}
  BY DEF Init, Wanting, Waiting
<1>5. LockInv
  BY <1>2, <1>4, NoneIsNobody DEF Init, LockInv, Orderly, Tasks
<1>6. LifeInv
  BY <1>1 DEF Init, LifeInv
<1> QED BY <1>3, <1>5, <1>6 DEF AccessInv

\* What is abandoned stays so.
LEMMA AbandonedForGood ==
  ASSUME abandoned, [Next]_vars
  PROVE  abandoned'
BY DEF Next, vars, Grant, Refuse, OwnerStep, Connect, OpenEnds, FetchEnds, Disconnect,
       CloseEnds, ListenerStep, Listen, ReceiveEnds, Wake, ReopenEnds, RefetchEnds,
       SenderStep, SendCommand, SendEnds, Cancel, OrphanEnds

\* The invariant, until a call is abandoned.
LEMMA AccessInvariant == Spec => [](abandoned \/ AccessInv)
<1>1. (abandoned \/ AccessInv) /\ [Next]_vars => (abandoned \/ AccessInv)'
  BY AccessStep, AbandonedForGood
<1> QED BY <1>1, AccessInit, PTL DEF Spec

-----------------------------------------------------------------------------
(***************************************************************************)
(* What follows for every reachable state.                                 *)
(***************************************************************************)

\* Every access to the device is serialized until a task is cancelled while its
\* call runs.
THEOREM AccessSerialized == Spec => []SerialUnlessAbandoned
<1>1. AccessInv => AccessIsSerialized
  BY DEF AccessInv, LockInv, AccessIsSerialized
<1>2. abandoned \/ AccessInv => SerialUnlessAbandoned
  BY <1>1 DEF SerialUnlessAbandoned
<1> QED BY <1>2, AccessInvariant, PTL

\* Only the device in service holds a socket until then: reconnecting and
\* disconnecting leave none behind.
THEOREM SocketsAreReleased == Spec => []NoSocketIsLeaked
<1>1. abandoned \/ AccessInv => NoSocketIsLeaked
  BY DEF AccessInv, LifeInv, NoSocketIsLeaked
<1> QED BY <1>1, AccessInvariant, PTL

\* The operations in progress, as the abstract specification sees them.
InUse == {[op |-> c.op, on |-> c.on] : c \in calls}

\* A grant of the lock begins an operation.
LEMMA GrantBegins ==
  ASSUME AccessInv, NEW p \in Tasks, Grant(p)
  PROVE  Access!Next
<1>1. pc[p] \in Waiting
  BY HeadOfQueue DEF Grant, Wanting
<1>2. calls' = {Call(p)}
  BY DEF AccessInv, LockInv, Grant
<1>3. /\ CallAt[pc[p]] \in {"open", "status", "receive", "set", "close"}
      /\ CallAt[pc[p]] = "open" <=> pc[p] \in {"opening", "reopening", "retrying"}
  BY <1>1, PlaceOfCall
<1>4. pc[Owner] # "down"
  <2> SUFFICES ASSUME pc[Owner] = "down" PROVE FALSE
    OBVIOUS
  <2>1. device = None /\ pc[Listener] = "ended"
    BY DEF AccessInv, LifeInv
  <2>2. pc[p] \in {"opening", "reopening", "retrying"}
    BY <1>3, <2>1 DEF Grant
  <2> QED BY <2>1, <2>2 DEF AccessInv, LifeInv, Tasks
<1>5. InUse = {} /\ InUse' = {[op |-> CallAt[pc[p]], on |-> device]}
  BY <1>2 DEF AccessInv, LockInv, Grant, InUse, Call
<1>6. CallAt[pc[p]] = "open" \/ device # None
  BY DEF Grant
<1>7. UNCHANGED <<device, sockets, pc>>
  BY DEF Grant
<1>8. PICK op \in {"open", "status", "receive", "set", "close"} :
         op = CallAt[pc[p]]
  BY <1>3
<1>9. Access!Begin(op)
  BY <1>4, <1>5, <1>6, <1>7, <1>8 DEF Access!Begin, InUse
<1> QED BY <1>9 DEF Access!Next

\* The end of a call that neither opens nor closes ends a use.
LEMMA UseEnds ==
  ASSUME AccessInv, NEW p, calls = {Call(p)}, calls' = {},
         NEW op \in {"status", "receive", "set"},
         Call(p) = [by |-> p, op |-> op, on |-> device],
         sockets' \subseteq sockets \cup {device}, device' = device,
         (pc'[Owner] = "down") <=> (pc[Owner] = "down")
  PROVE  Access!Next
<1>1. InUse = {[op |-> op, on |-> device]} /\ InUse' = {}
  BY DEF InUse
<1>2. sockets' \subseteq {device}
  BY DEF AccessInv, LifeInv
<1>3. Access!EndUse
  BY <1>1, <1>2 DEF Access!EndUse, InUse
<1> QED BY <1>3 DEF Access!Next

\* The end of an open, whatever came of it, replaces the device or keeps it.
LEMMA OpenEndsUse ==
  ASSUME AccessInv, NEW p, calls = {Call(p)}, calls' = {},
         Call(p) = [by |-> p, op |-> "open", on |-> device],
         OpenDevice \/ (Drops /\ device' = device),
         (pc'[Owner] = "down") <=> (pc[Owner] = "down")
  PROVE  Access!Next
<1>1. InUse = {[op |-> "open", on |-> device]} /\ InUse' = {}
  BY DEF InUse
<1>2. sockets' = {} /\ device' \in Devices \cup {device}
  BY DEF AccessInv, LifeInv, OpenDevice, Drops
<1>3. Access!EndOpen
  BY <1>1, <1>2 DEF Access!EndOpen, InUse
<1> QED BY <1>3 DEF Access!Next

\* A step that makes or ends no call is none of the abstract specification's.
LEMMA NoCallNoStep ==
  ASSUME UNCHANGED <<calls, device, sockets>>,
         (pc'[Owner] = "down") <=> (pc[Owner] = "down")
  PROVE  UNCHANGED Access!vars
BY DEF Access!vars

\* Every step begins an operation, ends one, or is none of its business.
LEMMA AccessStepRefines ==
  ASSUME AccessInv, ~abandoned', [Next]_vars
  PROVE  [Access!Next]_(Access!vars)
<1>0. Owner \in Tasks /\ Listener \in Tasks /\ Owner # Listener
      /\ Owner \notin Senders /\ Listener \notin Senders
      /\ \A s \in Senders : s \in Tasks
  BY TasksAreDistinct DEF Tasks
<1>1. ASSUME NEW p \in Tasks, NEW place, Goto(p, place), place # "down",
             p = Owner => pc[p] # "down"
      PROVE  (pc'[Owner] = "down") <=> (pc[Owner] = "down")
  BY <1>0, <1>1, GotoChangesWanting DEF AccessInv
<1>2. CASE UNCHANGED vars
  BY <1>2 DEF vars, Access!vars
<1>3. ASSUME NEW p \in Tasks, Grant(p) PROVE Access!Next
  BY <1>3, GrantBegins
<1>4. ASSUME NEW p \in Tasks, Refuse(p) PROVE UNCHANGED Access!vars
  <2>1. p # Owner
    BY <1>0, <1>4 DEF Refuse, AccessInv, LifeInv
  <2>2. (pc'[Owner] = "down") <=> (pc[Owner] = "down")
    BY <1>0, <1>1, <1>4, <2>1 DEF Refuse
  <2> QED BY <1>4, <2>2, NoCallNoStep DEF Refuse
<1>5. CASE Connect \/ Disconnect
  <2>1. (pc'[Owner] = "down") <=> (pc[Owner] = "down")
    BY <1>0, <1>1, <1>5 DEF Connect, Disconnect
  <2> QED BY <1>5, <2>1, NoCallNoStep DEF Connect, Disconnect
<1>6. CASE Listen \/ Wake
  <2>1. (pc'[Owner] = "down") <=> (pc[Owner] = "down")
    BY <1>0, <1>1, <1>6 DEF Listen, Wake
  <2> QED BY <1>6, <2>1, NoCallNoStep DEF Listen, Wake
<1>7. CASE OpenEnds
  <2>1. /\ pc[Owner] = "opening" /\ calls = {Call(Owner)} /\ calls' = {}
        /\ Call(Owner) = [by |-> Owner, op |-> "open", on |-> device]
    BY <1>7, OwnerFinishes DEF OpenEnds
  <2>2. (pc'[Owner] = "down") <=> (pc[Owner] = "down")
    BY <1>0, <1>1, <1>7, <2>1 DEF OpenEnds
  <2>3. OpenDevice \/ (Drops /\ device' = device)
    BY <1>7 DEF OpenEnds
  <2> QED BY <2>1, <2>2, <2>3, OpenEndsUse
<1>8. CASE FetchEnds
  <2>1. /\ pc[Owner] = "fetching" /\ calls = {Call(Owner)} /\ calls' = {}
        /\ Call(Owner) = [by |-> Owner, op |-> "status", on |-> device]
    BY <1>8, OwnerFinishes DEF FetchEnds
  <2>2. pc'[Owner] = "up"
    BY <1>0, <1>8 DEF FetchEnds, AccessInv, TypeOK
  <2>3. sockets' \subseteq sockets \cup {device} /\ device' = device
    BY <1>8 DEF FetchEnds, Uses
  <2> QED BY <2>1, <2>2, <2>3, UseEnds
<1>9. CASE CloseEnds
  <2>1. /\ pc[Owner] = "closing" /\ calls = {Call(Owner)} /\ calls' = {}
        /\ Call(Owner) = [by |-> Owner, op |-> "close", on |-> device]
    BY <1>9, OwnerFinishes DEF CloseEnds
  <2>2. InUse = {[op |-> "close", on |-> device]} /\ InUse' = {}
    BY <2>1 DEF InUse
  <2>3. pc'[Owner] = "down"
    BY <1>0, <1>9 DEF CloseEnds, AccessInv, TypeOK
  <2>4. sockets' = {} /\ device' = None
    BY <1>9 DEF CloseEnds, Drops, AccessInv, LifeInv
  <2>5. Access!EndClose
    BY <2>2, <2>3, <2>4 DEF Access!EndClose, InUse
  <2> QED BY <2>5 DEF Access!Next
<1>10. CASE ReceiveEnds \/ RefetchEnds
  <2>1. PICK op \in {"receive", "status"} :
           /\ calls = {Call(Listener)} /\ calls' = {}
           /\ Call(Listener) = [by |-> Listener, op |-> op, on |-> device]
    BY <1>10, ListenerFinishes DEF ReceiveEnds, RefetchEnds
  <2>2. (pc'[Owner] = "down") <=> (pc[Owner] = "down")
    BY <1>0, <1>1, <1>10 DEF ReceiveEnds, RefetchEnds
  <2>3. sockets' \subseteq sockets \cup {device} /\ device' = device
    BY <1>10 DEF ReceiveEnds, RefetchEnds, Uses
  <2> QED BY <2>1, <2>2, <2>3, UseEnds
<1>11. CASE ReopenEnds
  <2>1. /\ calls = {Call(Listener)} /\ calls' = {}
        /\ Call(Listener) = [by |-> Listener, op |-> "open", on |-> device]
    BY <1>11, ListenerFinishes DEF ReopenEnds
  <2>2. (pc'[Owner] = "down") <=> (pc[Owner] = "down")
    BY <1>0, <1>1, <1>11 DEF ReopenEnds
  <2>3. OpenDevice \/ (Drops /\ device' = device)
    BY <1>11 DEF ReopenEnds
  <2> QED BY <2>1, <2>2, <2>3, OpenEndsUse
<1>12. ASSUME NEW s \in Senders, SendCommand(s) PROVE UNCHANGED Access!vars
  <2>1. (pc'[Owner] = "down") <=> (pc[Owner] = "down")
    BY <1>0, <1>1, <1>12 DEF SendCommand
  <2> QED BY <1>12, <2>1, NoCallNoStep DEF SendCommand
<1>13. ASSUME NEW s \in Senders, SendEnds(s) PROVE Access!Next
  <2>1. /\ calls = {Call(s)} /\ calls' = {}
        /\ Call(s) = [by |-> s, op |-> "set", on |-> device]
    BY <1>13, SenderFinishes DEF SendEnds
  <2>2. (pc'[Owner] = "down") <=> (pc[Owner] = "down")
    BY <1>0, <1>1, <1>13 DEF SendEnds
  <2>3. sockets' \subseteq sockets \cup {device} /\ device' = device
    BY <1>13 DEF SendEnds, Uses
  <2> QED BY <2>1, <2>2, <2>3, UseEnds
<1>14. ASSUME NEW s \in Senders, Cancel(s) PROVE [Access!Next]_(Access!vars)
  <2>1. Goto(s, "idle") /\ UNCHANGED <<device, sockets>>
    BY <1>14 DEF Cancel
  <2>2. (pc'[Owner] = "down") <=> (pc[Owner] = "down")
    BY <1>0, <1>1, <2>1
  <2>3. CASE holder = s
    <3>1. s # None /\ pc[s] = "sending" /\ calls = {Call(s)} /\ device # None
      BY <1>14, <2>3, NoneIsNobody, PlaceOfCall
      DEF Cancel, AccessInv, LockInv, Tasks, Waiting, CallAt
    <3>2. Call(s) = [by |-> s, op |-> "set", on |-> device]
      BY <3>1, PlaceOfCall DEF Call, Waiting
    <3>3. calls' = {}
      BY <1>14, <2>3, <3>1, <3>2 DEF Cancel
    <3> QED BY <2>1, <2>2, <3>1, <3>2, <3>3, UseEnds
  <2>4. CASE holder # s
    BY <1>14, <2>1, <2>2, <2>4, NoCallNoStep DEF Cancel
  <2> QED BY <2>3, <2>4
<1> QED
  BY <1>2, <1>3, <1>4, <1>5, <1>6, <1>7, <1>8, <1>9, <1>10, <1>11, <1>12,
     <1>13, <1>14, NothingIsOrphaned
  DEF Next, OwnerStep, ListenerStep, SenderStep

\* LocalTuya implements DeviceAccess until a call is abandoned: serial calls on
\* the device in service only, one socket at most, and nothing after the close.
THEOREM AccessRefinement == Spec => ImplementsDeviceAccess
<1>1. Init => Access!Init
  BY TasksAreDistinct DEF Init, Access!Init, Tasks
<1>2. (abandoned \/ AccessInv) /\ [Next]_vars
        => [abandoned' \/ Access!Next]_(Access!vars)
  BY AccessStepRefines, AbandonedForGood
<1> QED BY <1>1, <1>2, AccessInvariant, PTL DEF Spec, ImplementsDeviceAccess

\* Each variable keeps to its values until a call is abandoned.
COROLLARY AccessIsTyped == Spec => [](abandoned \/ TypeOK)
<1>1. abandoned \/ AccessInv => abandoned \/ TypeOK
  BY DEF AccessInv
<1> QED BY <1>1, AccessInvariant, PTL
=============================================================================
