----------------------------- MODULE SyncProofs -----------------------------
(***************************************************************************)
(* What holds of fast_mutex and fast_cond for any number of threads,       *)
(* mutexes, conditions and buckets, and that they implement Monitor: the   *)
(* inductive invariant IInv, what a step does to the types, to the locals  *)
(* of threads, to owners, to buckets and to queues, and the theorems.      *)
(***************************************************************************)
EXTENDS Synchronization, TLAPS

\* What a thread needs to know where it is.
LocalOK(t) ==
  /\ pc[t] \notin Notifying \cup {"out"} => mutex[t] \in Mutexes
  /\ pc[t] \in Notifying /\ back[t] # "out" => mutex[t] \in Mutexes
  /\ pc[t] \in {"unlock", "unlock_full", "unpark_one"} => back[t] # "in"
  /\ pc[t] \in (Notifying \ {"unpark"}) \cup {"wait"} => control[t] \in Conds \X Mutexes
  /\ pc[t] = "unpark" => target[t] \in Threads
LocalsOK == \A t \in Threads : LocalOK(t)

\* A step of t leaves alone what belongs to the other threads.
Alone(t) ==
  \A u \in Threads \ {t} :
    /\ pc'[u] = pc[u] /\ mutex'[u] = mutex[u] /\ back'[u] = back[u]
    /\ control'[u] = control[u] /\ unpark_one'[u] = unpark_one[u] /\ target'[u] = target[u]

\* The steps of t.
StepOf(t) == \/ Step(t)
             \/ \E m \in Mutexes : Lock(t, m)
             \/ \E c \in Conds : Wait(t, c) \/ Signal(t, c) \/ Broadcast(t, c)

\* A broadcast holds its buckets, and the mutex it moves waiters to will wake them.
ParkedBit(m) == "parked" \in state[m]
HasPair(t) ==
  /\ pc[t] = "second" => held[FirstBucket(t)] = t
  /\ pc[t] \in {"validate", "make_parked", "requeue"} => held[HashFrom(t)] = t /\ held[HashTo(t)] = t
  /\ pc[t] = "requeue" /\ ~unpark_one[t] => ParkedBit(control[t][2])
PairHeld == \A t \in Threads : HasPair(t)

\* The threads that have queued up and not yet returned from park(); one that waits
\* for a condition still has to release its mutex.
Asleep(t) == \/ pc[t] = "parked"
             \/ pc[t] \in {"unlock", "unlock_full", "unpark_one", "unpark"} /\ back[t] = "parked"

Distinct(s) == \A i, j \in 1..Len(s) : s[i] = s[j] => i = j
Holds(s, t) == \E i \in 1..Len(s) : s[i] = t

\* A thread is in one queue at most, and once.
QueuesDisjoint ==
  /\ \A a \in Addresses : Distinct(queue[a])
  /\ \A t \in Threads : \A a, b \in Addresses : Holds(queue[a], t) /\ Holds(queue[b], t) => a = b

\* Those in a queue, and those taken off one and not yet unparked, are asleep.
QueuedAsleep ==
  /\ \A t \in Threads : \A a \in Addresses : Holds(queue[a], t) => Asleep(t) /\ should_park[t]
  /\ \A t \in Threads : pc[t] = "unpark" =>
       /\ Asleep(target[t]) /\ should_park[target[t]]
       /\ \A a \in Addresses : ~Holds(queue[a], target[t])
       /\ \A u \in Threads : pc[u] = "unpark" /\ target[u] = target[t] => u = t

QueueInv == QueuesDisjoint /\ QueuedAsleep

IInv == TypeOK /\ LocalsOK /\ MutualExclusion /\ PairHeld /\ NoMissedWakeup /\ QueueInv

-----------------------------------------------------------------------------
(* The owners of mutexes *)

LockBit(m) == "lock" \in state[m]

\* A step that neither takes nor gives back a mutex.
Kept(t) == /\ Owning(t)' <=> Owning(t)
           /\ Owning(t) => mutex'[t] = mutex[t]
           /\ \A m \in Mutexes : LockBit(m)' <=> LockBit(m)

\* It leaves every mutex with its owner.
LEMMA OwnerKept ==
  ASSUME MutualExclusion, NEW t \in Threads, Alone(t), Kept(t)
  PROVE  /\ MutualExclusion'
         /\ \A u \in Threads, m \in Mutexes : Owns(u, m)' <=> Owns(u, m)
<1>1. \A u \in Threads, m \in Mutexes : Owns(u, m)' <=> Owns(u, m)
  BY Zenon DEF Alone, Kept, Owns, Owning
<1> QED BY Zenon, <1>1 DEF Kept, MutualExclusion, LockBit

\* A step that takes a mutex that nobody owns.
Taken(t) == /\ ~Owning(t) /\ Owning(t)' /\ mutex'[t] = mutex[t] /\ mutex[t] \in Mutexes
            /\ ~LockBit(mutex[t])
            /\ \A m \in Mutexes : LockBit(m)' <=> LockBit(m) \/ m = mutex[t]

\* It makes the thread the owner of that mutex, and changes nothing else.
LEMMA OwnerTaken ==
  ASSUME MutualExclusion, NEW t \in Threads, Alone(t), Taken(t)
  PROVE  /\ MutualExclusion'
         /\ \A u \in Threads, m \in Mutexes : Owns(u, m)' <=> Owns(u, m) \/ (u = t /\ m = mutex[t])
<1>1. \A u \in Threads, m \in Mutexes : Owns(u, m)' <=> Owns(u, m) \/ (u = t /\ m = mutex[t])
  BY ZenonT(30) DEF Alone, Taken, Owns, Owning
<1>2. \A u \in Threads : ~Owns(u, mutex[t])
  BY Zenon DEF Taken, LockBit, MutualExclusion
<1>3. ASSUME NEW m \in Mutexes PROVE LockBit(m)' <=> \E u \in Threads : Owns(u, m)'
  BY <1>1 DEF Taken, LockBit, MutualExclusion
<1>4. ASSUME NEW m \in Mutexes, NEW u \in Threads, NEW v \in Threads, Owns(u, m)', Owns(v, m)' PROVE u = v
  BY ZenonT(30), <1>1, <1>2, <1>4 DEF MutualExclusion
<1> QED BY Zenon, <1>1, <1>3, <1>4 DEF MutualExclusion, LockBit

\* A step that gives back a mutex.
Given(t) == /\ Owning(t) /\ ~Owning(t)' /\ mutex[t] \in Mutexes
            /\ \A m \in Mutexes : LockBit(m)' <=> LockBit(m) /\ m # mutex[t]

\* It leaves that mutex without an owner, and the others with theirs.
LEMMA OwnerGiven ==
  ASSUME MutualExclusion, NEW t \in Threads, Alone(t), Given(t)
  PROVE  /\ MutualExclusion'
         /\ \A u \in Threads, m \in Mutexes : Owns(u, m)' <=> Owns(u, m) /\ u # t
<1>1. \A u \in Threads, m \in Mutexes : Owns(u, m)' <=> Owns(u, m) /\ u # t
  BY Zenon DEF Alone, Given, Owns, Owning
<1>2. Owns(t, mutex[t])
  BY Zenon DEF Given, Owns
<1>3. ASSUME NEW m \in Mutexes PROVE LockBit(m)' <=> \E u \in Threads : Owns(u, m)'
  <2>1. CASE m = mutex[t] BY Zenon, <1>1, <1>2, <2>1 DEF Given, MutualExclusion
  <2>2. CASE m # mutex[t]
    <3>1. ~Owns(t, m) BY Zenon, <2>2 DEF Owns
    <3> QED BY Zenon, <1>1, <2>2, <3>1 DEF Given, LockBit, MutualExclusion
  <2> QED BY Zenon, <2>1, <2>2
<1> QED BY Zenon, <1>1, <1>3 DEF MutualExclusion, LockBit

-----------------------------------------------------------------------------
(* Queues *)

\* Giving an address another queue.
LEMMA SetQueue ==
  ASSUME NEW f \in [Addresses -> Seq(Threads)], NEW a \in Addresses, NEW s \in Seq(Threads)
  PROVE  [f EXCEPT ![a] = s] \in [Addresses -> Seq(Threads)]
<1> DEFINE S == Seq(Threads)
<1>1. f \in [Addresses -> S] /\ s \in S OBVIOUS
<1> HIDE DEF S
<1>2. [f EXCEPT ![a] = s] \in [Addresses -> S] BY Zenon, <1>1
<1> QED BY Zenon, <1>2 DEF S

\* Taking the first thread off a queue.
LEMMA TailQueue ==
  ASSUME NEW s \in Seq(Threads), Distinct(s), s # <<>>
  PROVE  /\ Tail(s) \in Seq(Threads) /\ Distinct(Tail(s))
         /\ Head(s) \in Threads /\ Holds(s, Head(s))
         /\ Tail(s) # <<>> <=> Len(s) > 1
         /\ \A u \in Threads : Holds(Tail(s), u) <=> Holds(s, u) /\ u # Head(s)
<1> DEFINE r == Tail(s)
<1>1. /\ r \in Seq(Threads) /\ Len(s) \in Nat \ {0} /\ Len(r) = Len(s) - 1
      /\ \A i \in 1..(Len(s) - 1) : r[i] = s[i + 1]
  OBVIOUS
<1>2. Head(s) = s[1] /\ s[1] \in Threads
  BY <1>1
<1> HIDE DEF r
<1>3. Distinct(r)
  BY <1>1 DEF Distinct
<1>4. Holds(s, Head(s))
  BY <1>1, <1>2 DEF Holds
<1>5. ASSUME NEW u \in Threads PROVE Holds(r, u) <=> Holds(s, u) /\ u # Head(s)
  <2>1. ASSUME Holds(r, u) PROVE Holds(s, u) /\ u # Head(s)
    <3>1. PICK i \in 1..(Len(s) - 1) : r[i] = u BY Zenon, <1>1, <2>1 DEF Holds
    <3>2. s[i + 1] = u /\ i + 1 \in 1..Len(s) /\ 1 \in 1..Len(s) BY <1>1, <3>1
    <3> QED BY <1>2, <3>2 DEF Holds, Distinct
  <2>2. ASSUME Holds(s, u), u # Head(s) PROVE Holds(r, u)
    <3>1. PICK i \in 1..Len(s) : s[i] = u BY Zenon, <2>2 DEF Holds
    <3>2. i - 1 \in 1..(Len(s) - 1) BY <1>1, <1>2, <2>2, <3>1
    <3>3. r[i - 1] = u BY <1>1, <3>1, <3>2
    <3> QED BY Zenon, <1>1, <3>2, <3>3 DEF Holds
  <2> QED BY Zenon, <2>1, <2>2
<1>6. r # <<>> <=> Len(s) > 1
  BY <1>1
<1> QED BY Zenon, <1>1, <1>2, <1>3, <1>4, <1>5, <1>6 DEF r

\* Queueing up.
LEMMA AppendQueue ==
  ASSUME NEW s \in Seq(Threads), Distinct(s), NEW t \in Threads, ~Holds(s, t)
  PROVE  /\ Append(s, t) \in Seq(Threads) /\ Distinct(Append(s, t))
         /\ \A u \in Threads : Holds(Append(s, t), u) <=> Holds(s, u) \/ u = t
<1> DEFINE r == Append(s, t)
<1>1. /\ r \in Seq(Threads) /\ Len(s) \in Nat /\ Len(r) = Len(s) + 1
      /\ \A i \in 1..(Len(s) + 1) : r[i] = IF i <= Len(s) THEN s[i] ELSE t
  OBVIOUS
<1> HIDE DEF r
<1>2. Distinct(r)
  BY <1>1 DEF Distinct, Holds
<1>3. ASSUME NEW u \in Threads PROVE Holds(r, u) <=> Holds(s, u) \/ u = t
  BY <1>1 DEF Holds
<1> QED BY Zenon, <1>1, <1>2, <1>3 DEF r

\* Moving a queue behind another.
LEMMA ConcatQueue ==
  ASSUME NEW s \in Seq(Threads), Distinct(s), NEW q \in Seq(Threads), Distinct(q),
         \A u \in Threads : ~(Holds(s, u) /\ Holds(q, u))
  PROVE  /\ s \o q \in Seq(Threads) /\ Distinct(s \o q)
         /\ s \o q # <<>> <=> s # <<>> \/ q # <<>>
         /\ \A u \in Threads : Holds(s \o q, u) <=> Holds(s, u) \/ Holds(q, u)
<1> DEFINE r == s \o q
           n == Len(s)
<1>1. /\ r \in Seq(Threads) /\ n \in Nat /\ Len(q) \in Nat /\ Len(r) = n + Len(q)
      /\ \A i \in 1..(n + Len(q)) : r[i] = IF i <= n THEN s[i] ELSE q[i - n]
  OBVIOUS
<1>2. \A i \in 1..n : s[i] \in Threads
  OBVIOUS
<1> HIDE DEF r
<1>3. \A i \in 1..Len(q) : i + n \in 1..(n + Len(q)) /\ r[i + n] = q[i]
  BY <1>1
<1>4. Distinct(r)
  <2> SUFFICES ASSUME NEW i \in 1..(n + Len(q)), NEW k \in 1..(n + Len(q)), r[i] = r[k], i <= k PROVE i = k
    BY <1>1 DEF Distinct
  <2>1. CASE k <= n BY <1>1, <2>1 DEF Distinct
  <2>2. CASE i > n
    <3>1. /\ i - n \in 1..Len(q) /\ k - n \in 1..Len(q) /\ q[i - n] = q[k - n]
      BY <1>1, <2>2
    <3>2. i - n = k - n BY Zenon, <3>1 DEF Distinct
    <3> QED BY <1>1, <3>2
  <2>3. CASE i <= n /\ k > n
    <3>1. i \in 1..n /\ k - n \in 1..Len(q) /\ s[i] = q[k - n] BY <1>1, <2>3
    <3>2. Holds(s, s[i]) /\ Holds(q, s[i]) BY Zenon, <3>1 DEF Holds
    <3> QED BY Zenon, <1>2, <3>1, <3>2
  <2> QED BY <1>1, <2>1, <2>2, <2>3
<1>5. ASSUME NEW u \in Threads PROVE Holds(r, u) <=> Holds(s, u) \/ Holds(q, u)
  <2>1. ASSUME Holds(s, u) PROVE Holds(r, u)
    BY <1>1, <2>1 DEF Holds
  <2>2. ASSUME Holds(q, u) PROVE Holds(r, u)
    <3>1. PICK i \in 1..Len(q) : q[i] = u BY Zenon, <2>2 DEF Holds
    <3>2. i + n \in 1..Len(r) /\ r[i + n] = u BY Zenon, <1>1, <1>3, <3>1
    <3> QED BY Zenon, <3>2 DEF Holds
  <2>3. ASSUME Holds(r, u) PROVE Holds(s, u) \/ Holds(q, u)
    <3>1. PICK i \in 1..(n + Len(q)) : r[i] = u BY Zenon, <1>1, <2>3 DEF Holds
    <3>2. CASE i <= n BY <1>1, <3>1, <3>2 DEF Holds
    <3>3. CASE i > n
      <4>1. i - n \in 1..Len(q) /\ q[i - n] = u BY <1>1, <3>1, <3>3
      <4> QED BY Zenon, <4>1 DEF Holds
    <3> QED BY <1>1, <3>2, <3>3
  <2> QED BY Zenon, <2>1, <2>2, <2>3
<1>6. r # <<>> <=> s # <<>> \/ q # <<>>
  BY <1>1
<1> QED BY Zenon, <1>1, <1>4, <1>5, <1>6 DEF r

-----------------------------------------------------------------------------
(* What a step does to the queues *)

\* A thread that may be queued stays asleep.
StaysAsleep(t) == Asleep(t) /\ should_park[t] => Asleep(t)'

\* The other threads sleep on.
LEMMA AsleepAlone ==
  ASSUME NEW t \in Threads, Alone(t)
  PROVE  \A u \in Threads \ {t} : Asleep(u)' <=> Asleep(u)
BY Zenon DEF Alone, Asleep

\* A step that touches no queue and unparks nobody.
LEMMA QueuesKept ==
  ASSUME LocalsOK, QueueInv, NEW t \in Threads, Alone(t), queue' = queue, should_park' = should_park,
         StaysAsleep(t), pc'[t] = "unpark" => pc[t] = "unpark" /\ target'[t] = target[t]
  PROVE  QueueInv'
<1>a. \A u \in Threads : Asleep(u) /\ should_park[u] => Asleep(u)' BY Zenon, AsleepAlone DEF StaysAsleep
<1>u. \A u \in Threads : pc'[u] = "unpark" => pc[u] = "unpark" /\ target'[u] = target[u] /\ target[u] \in Threads
  BY Zenon DEF Alone, LocalsOK, LocalOK
<1>1. QueuesDisjoint' BY Zenon DEF QueueInv, QueuesDisjoint
<1>2. QueuedAsleep'
  <2>1. \A u \in Threads : \A a \in Addresses : Holds(queue'[a], u) => Asleep(u)' /\ should_park'[u]
    BY Zenon, <1>a DEF QueueInv, QueuedAsleep
  <2>2. ASSUME NEW u \in Threads, pc'[u] = "unpark"
        PROVE  /\ Asleep(target[u])' /\ should_park'[target'[u]]
               /\ \A a \in Addresses : ~Holds(queue'[a], target'[u])
               /\ \A v \in Threads : pc'[v] = "unpark" /\ target'[v] = target'[u] => v = u
    <3>1. PICK w \in Threads : w = target[u] /\ w = target'[u] BY Zenon, <1>u, <2>2
    <3>2. Asleep(w) /\ should_park[w] BY <1>u, <2>2, <3>1 DEF QueueInv, QueuedAsleep
    <3>3. Asleep(w)' BY Zenon, <1>a, <3>2
    <3>4. Asleep(target[u])' BY Zenon, <3>1, <3>3 DEF Asleep
    <3> QED BY <1>u, <2>2, <3>1, <3>2, <3>4 DEF QueueInv, QueuedAsleep
  <2> QED BY Zenon, <2>1, <2>2 DEF QueuedAsleep
<1> QED BY Zenon, <1>1, <1>2 DEF QueueInv

\* A step that moves threads between queues and takes those of W off, one of which
\* it may go on to unpark.
LEMMA TakenOff ==
  ASSUME LocalsOK, QueuedAsleep, NEW t \in Threads, Alone(t), should_park' = should_park, StaysAsleep(t),
         NEW W \in SUBSET Threads, \A u \in W : \E a \in Addresses : Holds(queue[a], u),
         \A u \in Threads : \A b \in Addresses :
           Holds(queue'[b], u) => u \notin W /\ \E a \in Addresses : Holds(queue[a], u),
         pc'[t] = "unpark" => target'[t] \in W
  PROVE  QueuedAsleep'
<1>a. \A u \in Threads : Asleep(u) /\ should_park[u] => Asleep(u)' BY Zenon, AsleepAlone DEF StaysAsleep
<1>u. \A u \in Threads \ {t} : pc'[u] = "unpark" => pc[u] = "unpark" /\ target'[u] = target[u] /\ target[u] \in Threads
  BY Zenon DEF Alone, LocalsOK, LocalOK
<1>w. \A u \in Threads \ {t} : pc'[u] = "unpark" => \A a \in Addresses : ~Holds(queue[a], target'[u])
  BY Zenon, <1>u DEF QueuedAsleep
<1>1. \A u \in Threads : \A a \in Addresses : Holds(queue'[a], u) => Asleep(u)' /\ should_park'[u]
  BY Zenon, <1>a DEF QueuedAsleep
<1>2. ASSUME NEW u \in Threads, pc'[u] = "unpark"
      PROVE  /\ Asleep(target[u])' /\ should_park'[target'[u]]
             /\ \A a \in Addresses : ~Holds(queue'[a], target'[u])
             /\ \A v \in Threads : pc'[v] = "unpark" /\ target'[v] = target'[u] => v = u
  <2>1. PICK w \in Threads : w = target'[u] BY Zenon, <1>u, <1>2
  <2>2. Asleep(w) /\ should_park[w] BY Zenon, <1>u, <1>2, <2>1 DEF QueuedAsleep
  <2>3. Asleep(w)' BY Zenon, <1>a, <2>2
  <2>4. Asleep(target[u])' BY Zenon, <2>1, <2>3 DEF Asleep
  <2>5. \A a \in Addresses : ~Holds(queue'[a], w) BY Zenon, <1>w, <1>2, <2>1
  <2>6. ASSUME NEW v \in Threads, pc'[v] = "unpark", target'[v] = w PROVE v = u
    <3>1. CASE u = t \/ v = t BY Zenon, <1>w, <1>2, <2>1, <2>6, <3>1
    <3>2. CASE u # t /\ v # t BY <1>u, <1>2, <2>1, <2>6, <3>2 DEF QueuedAsleep
    <3> QED BY Zenon, <3>1, <3>2
  <2> QED BY Zenon, <2>1, <2>2, <2>4, <2>5, <2>6
<1> QED BY Zenon, <1>1, <1>2 DEF QueuedAsleep

\* unpark_one and signal take the first thread off a queue.
LEMMA QueueTaken ==
  ASSUME TypeOK, LocalsOK, QueueInv, NEW t \in Threads, Alone(t), should_park' = should_park, StaysAsleep(t),
         NEW a \in Addresses, queue[a] # <<>>, queue' = [queue EXCEPT ![a] = Tail(queue[a])],
         pc'[t] = "unpark" => target'[t] = Head(queue[a])
  PROVE  QueueInv'
<1>1. queue \in [Addresses -> Seq(Threads)] /\ queue[a] \in Seq(Threads) BY Zenon DEF TypeOK
<1>2. /\ Distinct(Tail(queue[a])) /\ Head(queue[a]) \in Threads /\ Holds(queue[a], Head(queue[a]))
      /\ \A u \in Threads : Holds(Tail(queue[a]), u) <=> Holds(queue[a], u) /\ u # Head(queue[a])
  BY Zenon, <1>1, TailQueue DEF QueueInv, QueuesDisjoint
<1>3. queue'[a] = Tail(queue[a]) /\ \A b \in Addresses \ {a} : queue'[b] = queue[b] BY Zenon, <1>1
<1>4. \A u \in Threads : \A b \in Addresses : Holds(queue'[b], u) => Holds(queue[b], u) /\ u # Head(queue[a])
  BY <1>2, <1>3 DEF QueueInv, QueuesDisjoint
<1>5. QueuesDisjoint'
  <2>1. \A b \in Addresses : Distinct(queue'[b]) BY Zenon, <1>2, <1>3 DEF QueueInv, QueuesDisjoint
  <2> QED BY Zenon, <1>4, <2>1 DEF QueueInv, QueuesDisjoint
<1>6. PICK W \in SUBSET Threads : W = {Head(queue[a])} BY <1>2, Zenon
<1>7. /\ \A u \in W : \E b \in Addresses : Holds(queue[b], u)
      /\ \A u \in Threads : \A b \in Addresses :
           Holds(queue'[b], u) => u \notin W /\ \E d \in Addresses : Holds(queue[d], u)
      /\ pc'[t] = "unpark" => target'[t] \in W
  BY Zenon, <1>2, <1>4, <1>6
<1>8. QueuedAsleep' BY <1>7, TakenOff, Zenon DEF QueueInv
<1> QED BY Zenon, <1>5, <1>8 DEF QueueInv

\* park puts a thread that is awake at the end of a queue.
LEMMA QueuePut ==
  ASSUME TypeOK, LocalsOK, QueueInv, NEW t \in Threads, Alone(t), ~Asleep(t), Asleep(t)', pc'[t] # "unpark",
         NEW a \in Addresses, queue' = [queue EXCEPT ![a] = Append(queue[a], t)],
         should_park' = [should_park EXCEPT ![t] = TRUE]
  PROVE  QueueInv'
<1>1. /\ queue \in [Addresses -> Seq(Threads)] /\ queue[a] \in Seq(Threads)
      /\ \A b \in Addresses : ~Holds(queue[b], t)
  BY Zenon DEF TypeOK, QueueInv, QueuedAsleep
<1>2. /\ Distinct(Append(queue[a], t))
      /\ \A u \in Threads : Holds(Append(queue[a], t), u) <=> Holds(queue[a], u) \/ u = t
  BY Zenon, <1>1, AppendQueue DEF QueueInv, QueuesDisjoint
<1>3. queue'[a] = Append(queue[a], t) /\ \A b \in Addresses \ {a} : queue'[b] = queue[b] BY Zenon, <1>1
<1>4. \A u \in Threads : \A b \in Addresses : Holds(queue'[b], u) <=> Holds(queue[b], u) \/ (u = t /\ b = a)
  BY Zenon, <1>1, <1>2, <1>3
<1>5. QueuesDisjoint'
  <2>1. \A b \in Addresses : Distinct(queue'[b]) BY Zenon, <1>2, <1>3 DEF QueueInv, QueuesDisjoint
  <2> QED BY <1>1, <1>4, <2>1 DEF QueueInv, QueuesDisjoint
<1>s. should_park'[t] = TRUE /\ \A u \in Threads \ {t} : should_park'[u] = should_park[u] BY Zenon DEF TypeOK
<1>6. \A u \in Threads : \A b \in Addresses : Holds(queue'[b], u) => Asleep(u)' /\ should_park'[u]
  BY Zenon, <1>4, <1>s, AsleepAlone DEF QueueInv, QueuedAsleep
<1>7. ASSUME NEW u \in Threads, pc'[u] = "unpark"
      PROVE  /\ Asleep(target[u])' /\ should_park'[target'[u]]
             /\ \A b \in Addresses : ~Holds(queue'[b], target'[u])
             /\ \A v \in Threads : pc'[v] = "unpark" /\ target'[v] = target'[u] => v = u
  <2>1. u # t /\ pc[u] = "unpark" /\ target'[u] = target[u] /\ target[u] \in Threads
    BY Zenon, <1>7 DEF Alone, LocalsOK, LocalOK
  <2>2. PICK w \in Threads : w = target[u] /\ w = target'[u] BY Zenon, <2>1
  <2>3. Asleep(w) /\ should_park[w] BY Zenon, <2>1, <2>2 DEF QueueInv, QueuedAsleep
  <2>4. w # t BY Zenon, <2>3
  <2>5. Asleep(w)' BY Zenon, <2>3, <2>4, AsleepAlone
  <2>6. Asleep(target[u])' BY Zenon, <2>2, <2>5 DEF Asleep
  <2>7. \A b \in Addresses : ~Holds(queue'[b], w) BY Zenon, <1>4, <2>1, <2>2, <2>4 DEF QueueInv, QueuedAsleep
  <2>8. \A v \in Threads : pc'[v] = "unpark" /\ target'[v] = w => v = u
    BY <2>1, <2>2 DEF Alone, QueueInv, QueuedAsleep
  <2> QED BY Zenon, <1>s, <2>2, <2>3, <2>4, <2>6, <2>7, <2>8
<1>8. QueuedAsleep' BY Zenon, <1>6, <1>7 DEF QueuedAsleep
<1> QED BY Zenon, <1>5, <1>8 DEF QueueInv

\* unpark_requeue moves the threads of a queue to another, all or all but the first.
LEMMA QueueMoved ==
  ASSUME TypeOK, LocalsOK, QueueInv, NEW t \in Threads, Alone(t), should_park' = should_park, StaysAsleep(t),
         NEW c \in Addresses, NEW m \in Addresses, c # m, NEW s \in Seq(Threads),
         queue' = [queue EXCEPT ![c] = <<>>, ![m] = queue[m] \o s],
         \/ s = queue[c] /\ pc'[t] # "unpark"
         \/ queue[c] # <<>> /\ s = Tail(queue[c]) /\ target'[t] = Head(queue[c])
  PROVE  QueueInv'
<1>1. queue \in [Addresses -> Seq(Threads)] /\ queue[c] \in Seq(Threads) /\ queue[m] \in Seq(Threads) BY Zenon DEF TypeOK
<1>2. PICK W \in SUBSET Threads :
        /\ Distinct(s) /\ \A u \in Threads : Holds(s, u) <=> Holds(queue[c], u) /\ u \notin W
        /\ \A u \in W : Holds(queue[c], u)
        /\ pc'[t] = "unpark" => target'[t] \in W
  <2>1. CASE s = queue[c] /\ pc'[t] # "unpark"
    <3> WITNESS {} \in SUBSET Threads
    <3> QED BY Zenon, <2>1 DEF QueueInv, QueuesDisjoint
  <2>2. CASE queue[c] # <<>> /\ s = Tail(queue[c]) /\ target'[t] = Head(queue[c])
    <3>1. /\ Distinct(Tail(queue[c])) /\ Head(queue[c]) \in Threads /\ Holds(queue[c], Head(queue[c]))
          /\ \A u \in Threads : Holds(Tail(queue[c]), u) <=> Holds(queue[c], u) /\ u # Head(queue[c])
      BY Zenon, <1>1, <2>2, TailQueue DEF QueueInv, QueuesDisjoint
    <3>2. {Head(queue[c])} \in SUBSET Threads BY Zenon, <3>1
    <3> WITNESS {Head(queue[c])} \in SUBSET Threads
    <3> QED BY Zenon, <2>2, <3>1
  <2> QED BY <2>1, <2>2, Zenon
<1>3. /\ Distinct(queue[m] \o s)
      /\ \A u \in Threads : Holds(queue[m] \o s, u) <=> Holds(queue[m], u) \/ Holds(s, u)
  BY Zenon, <1>1, <1>2, ConcatQueue DEF QueueInv, QueuesDisjoint
<1>4. /\ queue'[c] = <<>> /\ queue'[m] = queue[m] \o s
      /\ \A b \in Addresses \ {c, m} : queue'[b] = queue[b]
  <2> DEFINE r == queue[m] \o s
  <2>1. queue' = [queue EXCEPT ![c] = <<>>, ![m] = r] OBVIOUS
  <2> HIDE DEF r
  <2>2. /\ queue'[c] = <<>> /\ queue'[m] = r /\ \A b \in Addresses \ {c, m} : queue'[b] = queue[b]
    BY Zenon, <1>1, <2>1
  <2> QED BY <2>2, Zenon DEF r
<1>5. Distinct(<<>>) /\ \A u \in Threads : ~Holds(<<>>, u) BY DEF Distinct, Holds
<1>6. \A u \in Threads : \A b \in Addresses :
        Holds(queue'[b], u) <=> /\ b # c
                                /\ Holds(queue[b], u) \/ (b = m /\ Holds(queue[c], u) /\ u \notin W)
  BY <1>2, <1>3, <1>4, <1>5, Zenon
<1>7. QueuesDisjoint'
  <2>1. \A b \in Addresses : Distinct(queue'[b]) BY <1>3, <1>4, <1>5, Zenon DEF QueueInv, QueuesDisjoint
  <2>2. \A u \in Threads : \A a, b \in Addresses : Holds(queue'[a], u) /\ Holds(queue'[b], u) => a = b
    BY <1>6 DEF QueueInv, QueuesDisjoint
  <2> QED BY <2>1, <2>2, Zenon DEF QueuesDisjoint
<1>8. /\ \A u \in W : \E b \in Addresses : Holds(queue[b], u)
      /\ \A u \in Threads : \A b \in Addresses :
           Holds(queue'[b], u) => u \notin W /\ \E d \in Addresses : Holds(queue[d], u)
  BY <1>2, <1>6, Zenon DEF QueueInv, QueuesDisjoint
<1>9. QueuedAsleep' BY <1>2, <1>8, TakenOff, Zenon DEF QueueInv
<1> QED BY Zenon, <1>7, <1>9 DEF QueueInv

\* unpark wakes the thread that was taken off a queue.
LEMMA QueueUnparked ==
  ASSUME TypeOK, LocalsOK, QueueInv, NEW t \in Threads, Alone(t), Unpark(t)
  PROVE  QueueInv'
<1>1. PICK w \in Threads : w = target[t] BY Zenon DEF Unpark, At, LocalsOK, LocalOK
<1>2. /\ queue' = queue /\ pc[t] = "unpark" /\ pc'[t] = back[t] /\ back' = back
      /\ should_park' = [should_park EXCEPT ![w] = FALSE] /\ back[t] \in {"in", "out", "parked"}
  BY Zenon, <1>1 DEF Unpark, At, Goto, TypeOK
<1>3. \A u \in Threads \ {w} : should_park'[u] = should_park[u] BY Zenon, <1>2 DEF TypeOK
<1>4. \A a \in Addresses : ~Holds(queue[a], w) BY Zenon, <1>1, <1>2 DEF QueueInv, QueuedAsleep
<1>5. Asleep(t) => Asleep(t)' BY Zenon, <1>2 DEF Asleep
<1>6. \A u \in Threads : Asleep(u) => Asleep(u)' BY Zenon, <1>5, AsleepAlone
<1>7. QueuesDisjoint' BY Zenon, <1>2 DEF QueueInv, QueuesDisjoint
<1>8. \A u \in Threads : \A a \in Addresses : Holds(queue'[a], u) => Asleep(u)' /\ should_park'[u]
  BY ZenonT(30), <1>2, <1>3, <1>4, <1>6 DEF QueueInv, QueuedAsleep
<1>9. ASSUME NEW u \in Threads, pc'[u] = "unpark"
      PROVE  /\ Asleep(target[u])' /\ should_park'[target'[u]]
             /\ \A a \in Addresses : ~Holds(queue'[a], target'[u])
             /\ \A v \in Threads : pc'[v] = "unpark" /\ target'[v] = target'[u] => v = u
  <2>1. u # t BY Zenon, <1>2, <1>9
  <2>2. pc[u] = "unpark" /\ target'[u] = target[u] /\ target[u] \in Threads
    BY Zenon, <1>9, <2>1 DEF Alone, LocalsOK, LocalOK
  <2>3. PICK x \in Threads : x = target[u] /\ x = target'[u] BY Zenon, <2>2
  <2>4. x # w BY Zenon, <1>1, <1>2, <2>1, <2>2, <2>3 DEF QueueInv, QueuedAsleep
  <2>5. Asleep(x) /\ should_park[x] BY Zenon, <2>2, <2>3 DEF QueueInv, QueuedAsleep
  <2>6. Asleep(x)' BY Zenon, <1>6, <2>5
  <2>7. Asleep(target[u])' BY Zenon, <2>3, <2>6 DEF Asleep
  <2>8. \A a \in Addresses : ~Holds(queue'[a], x) BY Zenon, <1>2, <2>2, <2>3 DEF QueueInv, QueuedAsleep
  <2>9. ASSUME NEW v \in Threads, pc'[v] = "unpark", target'[v] = x PROVE v = u
    <3>1. v # t BY Zenon, <1>2, <2>9
    <3> QED BY <2>2, <2>3, <2>9, <3>1 DEF Alone, QueueInv, QueuedAsleep
  <2> QED BY Zenon, <1>3, <2>3, <2>4, <2>5, <2>7, <2>8, <2>9
<1>10. QueuedAsleep' BY Zenon, <1>8, <1>9 DEF QueuedAsleep
<1> QED BY Zenon, <1>7, <1>10 DEF QueueInv

-----------------------------------------------------------------------------
(* What a step leaves alone *)

USE DEF At, Goto, lockVars, wakeVars

\* A step of a thread changes the locals of that thread only.
LEMMA AloneStep ==
  ASSUME TypeOK, NEW t \in Threads, StepOf(t)
  PROVE  Alone(t)
<1>0. /\ pc \in [Threads -> PC] /\ mutex \in [Threads -> Mutexes \cup {NULL}]
      /\ back \in [Threads -> {"in", "out", "parked"}] /\ unpark_one \in [Threads -> BOOLEAN]
      /\ control \in [Threads -> (Conds \cup {NULL}) \X (Mutexes \cup {NULL})]
      /\ target \in [Threads -> Threads \cup {NULL}]
  BY Zenon DEF TypeOK
<1> USE DEF Alone
<1>1. CASE FastLock(t) BY Zenon, <1>1, <1>0 DEF FastLock
<1>2. CASE LoadState(t) BY Zenon, <1>2, <1>0 DEF LoadState
<1>3. CASE Retry(t) BY Zenon, <1>3, <1>0 DEF Retry
<1>4. CASE GrabLock(t) BY Zenon, <1>4, <1>0 DEF GrabLock
<1>5. CASE MarkParked(t) BY Zenon, <1>5, <1>0 DEF MarkParked
<1>6. CASE AlreadyParked(t) BY Zenon, <1>6, <1>0 DEF AlreadyParked
<1>7. CASE Park(t) BY Zenon, <1>7, <1>0 DEF Park
<1>8. CASE Resume(t) BY Zenon, <1>8, <1>0 DEF Resume
<1>9. CASE Unpark(t) BY Zenon, <1>9, <1>0 DEF Unpark
<1>10. CASE Unlock(t) BY Zenon, <1>10, <1>0 DEF Unlock
<1>11. CASE FastUnlock(t) BY Zenon, <1>11, <1>0 DEF FastUnlock
<1>12. CASE UnlockFull(t) BY Zenon, <1>12, <1>0 DEF UnlockFull
<1>13. CASE UnparkOne(t) BY Zenon, <1>13, <1>0 DEF UnparkOne
<1>14. CASE ParkWaiter(t) BY Zenon, <1>14, <1>0 DEF ParkWaiter
<1>15. CASE SignalOne(t) BY Zenon, <1>15, <1>0 DEF SignalOne
<1>16. CASE LockFirst(t) BY Zenon, <1>16, <1>0 DEF LockFirst
<1>17. CASE LockSecond(t) BY Zenon, <1>17, <1>0 DEF LockSecond
<1>18. CASE Validate(t) BY Zenon, <1>18, <1>0 DEF Validate
<1>19. CASE MakeParkedIfLocked(t) BY Zenon, <1>19, <1>0 DEF MakeParkedIfLocked
<1>20. CASE Requeue(t) BY Zenon, <1>20, <1>0 DEF Requeue
<1>21. CASE \E m \in Mutexes : Lock(t, m) BY Zenon, <1>21, <1>0 DEF Lock
<1>22. CASE \E c \in Conds : Wait(t, c) BY Zenon, <1>22, <1>0 DEF Wait
<1>23. CASE \E c \in Conds : Signal(t, c) BY ZenonT(30), <1>23, <1>0 DEF Signal, Notify
<1>24. CASE \E c \in Conds : Broadcast(t, c) BY ZenonT(30), <1>24, <1>0 DEF Broadcast, Notify
<1> QED
  BY ZenonT(30), <1>1, <1>2, <1>3, <1>4, <1>5, <1>6, <1>7, <1>8, <1>9, <1>10, <1>11, <1>12, <1>13, <1>14, <1>15,
     <1>16, <1>17, <1>18, <1>19, <1>20, <1>21, <1>22, <1>23, <1>24 DEF Step, StepOf

\* A step keeps the buckets of other threads, and the hash.
LEMMA HeldStep ==
  ASSUME TypeOK, NEW t \in Threads, StepOf(t)
  PROVE  /\ BucketOf' = BucketOf
         /\ \A u \in Threads \ {t} : \A b \in Buckets : held[b] = u => held'[b] = u
<1>h. held \in [Buckets -> Threads \cup {NULL}] /\ NULL \notin Threads BY Zenon, SyncAssumption DEF TypeOK
<1> USE DEF UnlockPair
<1>1. CASE FastLock(t) BY Zenon, <1>1, <1>h DEF FastLock
<1>2. CASE LoadState(t) BY Zenon, <1>2, <1>h DEF LoadState
<1>3. CASE Retry(t) BY Zenon, <1>3, <1>h DEF Retry
<1>4. CASE GrabLock(t) BY Zenon, <1>4, <1>h DEF GrabLock
<1>5. CASE MarkParked(t) BY Zenon, <1>5, <1>h DEF MarkParked
<1>6. CASE AlreadyParked(t) BY Zenon, <1>6, <1>h DEF AlreadyParked
<1>7. CASE Park(t) BY Zenon, <1>7, <1>h DEF Park
<1>8. CASE Resume(t) BY Zenon, <1>8, <1>h DEF Resume
<1>9. CASE Unpark(t) BY Zenon, <1>9, <1>h DEF Unpark
<1>10. CASE Unlock(t) BY Zenon, <1>10, <1>h DEF Unlock
<1>11. CASE FastUnlock(t) BY Zenon, <1>11, <1>h DEF FastUnlock
<1>12. CASE UnlockFull(t) BY Zenon, <1>12, <1>h DEF UnlockFull
<1>13. CASE UnparkOne(t) BY Zenon, <1>13, <1>h DEF UnparkOne
<1>14. CASE ParkWaiter(t) BY Zenon, <1>14, <1>h DEF ParkWaiter
<1>15. CASE SignalOne(t) BY Zenon, <1>15, <1>h DEF SignalOne
<1>16. CASE LockFirst(t) BY Zenon, <1>16, <1>h DEF LockFirst
<1>17. CASE LockSecond(t) BY Zenon, <1>17, <1>h DEF LockSecond
<1>18. CASE Validate(t) BY Zenon, <1>18, <1>h DEF Validate
<1>19. CASE MakeParkedIfLocked(t) BY Zenon, <1>19, <1>h DEF MakeParkedIfLocked
<1>20. CASE Requeue(t) BY Zenon, <1>20, <1>h DEF Requeue
<1>21. CASE \E m \in Mutexes : Lock(t, m) BY Zenon, <1>21, <1>h DEF Lock
<1>22. CASE \E c \in Conds : Wait(t, c) BY Zenon, <1>22, <1>h DEF Wait
<1>23. CASE \E c \in Conds : Signal(t, c) BY Zenon, <1>23, <1>h DEF Signal, Notify
<1>24. CASE \E c \in Conds : Broadcast(t, c) BY Zenon, <1>24, <1>h DEF Broadcast, Notify
<1> QED
  BY ZenonT(30), <1>1, <1>2, <1>3, <1>4, <1>5, <1>6, <1>7, <1>8, <1>9, <1>10, <1>11, <1>12, <1>13, <1>14, <1>15,
     <1>16, <1>17, <1>18, <1>19, <1>20, <1>21, <1>22, <1>23, <1>24 DEF Step, StepOf

\* Only unpark_one takes the parked bit away, with the bucket of the mutex free.
LEMMA ParkedStep ==
  ASSUME TypeOK, LocalsOK, NEW t \in Threads, StepOf(t), NEW x \in Mutexes, ParkedBit(x)
  PROVE  ParkedBit(x)' \/ (UnparkOne(t) /\ x = mutex[t])
<1>s. state \in [Mutexes -> SUBSET {"lock", "parked"}] BY Zenon DEF TypeOK
<1>l. mutex[t] \notin Mutexes => pc[t] \in Notifying \cup {"out"} BY Zenon DEF LocalsOK, LocalOK
<1> USE DEF ParkedBit
<1>1. CASE FastLock(t) BY Zenon, <1>1, <1>s, <1>l DEF FastLock, Notifying
<1>2. CASE LoadState(t) BY Zenon, <1>2, <1>s, <1>l DEF LoadState, Notifying
<1>3. CASE Retry(t) BY Zenon, <1>3, <1>s, <1>l DEF Retry, Notifying
<1>4. CASE GrabLock(t) BY Zenon, <1>4, <1>s, <1>l DEF GrabLock, Notifying
<1>5. CASE MarkParked(t) BY Zenon, <1>5, <1>s, <1>l DEF MarkParked, Notifying
<1>6. CASE AlreadyParked(t) BY Zenon, <1>6, <1>s, <1>l DEF AlreadyParked, Notifying
<1>7. CASE Park(t) BY Zenon, <1>7, <1>s, <1>l DEF Park, Notifying
<1>8. CASE Resume(t) BY Zenon, <1>8, <1>s, <1>l DEF Resume, Notifying
<1>9. CASE Unpark(t) BY Zenon, <1>9, <1>s, <1>l DEF Unpark, Notifying
<1>10. CASE Unlock(t) BY Zenon, <1>10, <1>s, <1>l DEF Unlock, Notifying
<1>11. CASE FastUnlock(t) BY <1>11, <1>s, <1>l DEF FastUnlock, Notifying
<1>12. CASE UnlockFull(t) BY Zenon, <1>12, <1>s, <1>l DEF UnlockFull, Notifying
<1>13. CASE UnparkOne(t) BY Zenon, <1>13, <1>s, <1>l DEF UnparkOne, Notifying
<1>14. CASE ParkWaiter(t) BY <1>14, <1>s, <1>l, ZenonT(30) DEF ParkWaiter, Notifying
<1>15. CASE SignalOne(t) BY <1>15, <1>s, <1>l, ZenonT(30) DEF SignalOne, Notifying
<1>16. CASE LockFirst(t) BY Zenon, <1>16, <1>s, <1>l DEF LockFirst, Notifying
<1>17. CASE LockSecond(t) BY Zenon, <1>17, <1>s, <1>l DEF LockSecond, Notifying
<1>18. CASE Validate(t) BY Zenon, <1>18, <1>s, <1>l DEF Validate, Notifying
<1>19. CASE MakeParkedIfLocked(t) BY Zenon, <1>19, <1>s, <1>l DEF MakeParkedIfLocked, Notifying
<1>20. CASE Requeue(t) BY Zenon, <1>20, <1>s, <1>l DEF Requeue, Notifying
<1>21. CASE \E m \in Mutexes : Lock(t, m) BY Zenon, <1>21, <1>s, <1>l DEF Lock, Notifying
<1>22. CASE \E c \in Conds : Wait(t, c) BY Zenon, <1>22, <1>s, <1>l DEF Wait, Notifying
<1>23. CASE \E c \in Conds : Signal(t, c) BY Zenon, <1>23, <1>s, <1>l DEF Signal, Notify, Notifying
<1>24. CASE \E c \in Conds : Broadcast(t, c) BY Zenon, <1>24, <1>s, <1>l DEF Broadcast, Notify, Notifying
<1> QED
  BY ZenonT(30), <1>1, <1>2, <1>3, <1>4, <1>5, <1>6, <1>7, <1>8, <1>9, <1>10, <1>11, <1>12, <1>13, <1>14, <1>15,
     <1>16, <1>17, <1>18, <1>19, <1>20, <1>21, <1>22, <1>23, <1>24 DEF Step, StepOf

\* unpark_requeue moves waiters of a condition to another address, a mutex.
LEMMA RequeuePair ==
  ASSUME TypeOK, LocalsOK, NEW t \in Threads, Requeue(t)
  PROVE  /\ control[t][1] \in Conds /\ control[t][1] \in Addresses
         /\ control[t][2] \in Mutexes /\ control[t][2] \in Addresses /\ control[t][1] # control[t][2]
         /\ queue' = [queue EXCEPT ![control[t][1]] = <<>>, ![control[t][2]] = @ \o Moved(t)]
         /\ cond' = cond
<1>1. pc[t] = "requeue" BY Zenon DEF Requeue
<1>2. LocalOK(t) BY Zenon DEF LocalsOK
<1>3. control[t] \in Conds \X Mutexes BY Zenon, <1>1, <1>2 DEF LocalOK, Notifying
<1>4. /\ control[t][1] \in Conds /\ control[t][1] \in Addresses
      /\ control[t][2] \in Mutexes /\ control[t][2] \in Addresses /\ control[t][1] # control[t][2]
  BY Zenon, <1>3, SyncAssumption DEF Addresses
<1>5. /\ queue' = [queue EXCEPT ![control[t][1]] = <<>>, ![control[t][2]] = @ \o Moved(t)]
      /\ cond' = cond
  BY Zenon DEF Requeue
<1> QED BY <1>4, <1>5, Zenon


-----------------------------------------------------------------------------
(* What a step does to the types, to the locals of threads and to owners.  *)


\* Every variable keeps its type.
LEMMA TypeStep ==
  ASSUME TypeOK, LocalsOK, NEW t \in Threads, StepOf(t)
  PROVE  TypeOK'
<1>state. state \in [Mutexes -> SUBSET {"lock", "parked"}] BY Zenon DEF TypeOK
<1>cond. cond \in [Conds -> Mutexes \cup {NULL}] BY Zenon DEF TypeOK
<1>queue. queue \in [Addresses -> Seq(Threads)] BY Zenon DEF TypeOK
<1>held. held \in [Buckets -> Threads \cup {NULL}] BY Zenon DEF TypeOK
<1>should_park. should_park \in [Threads -> BOOLEAN] BY Zenon DEF TypeOK
<1>pc. pc \in [Threads -> PC] BY Zenon DEF TypeOK
<1>mutex. mutex \in [Threads -> Mutexes \cup {NULL}] BY Zenon DEF TypeOK
<1>expected. expected \in [Threads -> SUBSET {"lock", "parked"}] BY Zenon DEF TypeOK
<1>resume. resume \in [Threads -> {"load", "lock"}] BY Zenon DEF TypeOK
<1>back. back \in [Threads -> {"in", "out", "parked"}] BY Zenon DEF TypeOK
<1>control. control \in [Threads -> (Conds \cup {NULL}) \X (Mutexes \cup {NULL})] BY Zenon DEF TypeOK
<1>unpark_one. unpark_one \in [Threads -> BOOLEAN] BY Zenon DEF TypeOK
<1>target. target \in [Threads -> Threads \cup {NULL}] BY Zenon DEF TypeOK
<1>PC. /\ {"out", "lock", "load", "full", "park", "parked", "in", "unlock", "unlock_full", "unpark_one"} \subseteq PC
       /\ {"wait", "signal", "first", "second", "validate", "make_parked", "requeue", "unpark"} \subseteq PC
  BY Zenon DEF PC, Notifying
<1>back_in_PC. pc' = [pc EXCEPT ![t] = back[t]] => pc' \in [Threads -> PC]
  BY Zenon, <1>pc, <1>back, <1>PC
<1>1. CASE FastLock(t)
  <2>1. mutex[t] \in Mutexes BY Zenon, <1>1 DEF FastLock, LocalsOK, LocalOK, Notifying
  <2>2. state' = [state EXCEPT ![mutex[t]] = {"lock"}] \/ state' = state BY Zenon, <1>1 DEF FastLock
  <2>3. state' \in [Mutexes -> SUBSET {"lock", "parked"}] BY Zenon, <1>state, <2>2, <2>1
  <2>4. pc' = [pc EXCEPT ![t] = "in"] \/ pc' = [pc EXCEPT ![t] = "load"] BY Zenon, <1>1 DEF FastLock
  <2>5. pc' \in [Threads -> PC] BY Zenon, <1>pc, <2>4, <1>PC
  <2>6. UNCHANGED <<BucketOf, cond, queue, held, should_park, mutex, expected, resume, back, control, unpark_one, target>>
    BY Zenon, <1>1 DEF FastLock
  <2> QED BY Zenon, <2>3, <2>5, <2>6 DEF TypeOK
<1>2. CASE LoadState(t) BY <1>2, Zenon DEF LoadState, TypeOK, LocalsOK, LocalOK, PC, Notifying, Addresses
<1>3. CASE Retry(t) BY <1>3, SMTT(30) DEF Retry, TypeOK, LocalsOK, LocalOK, PC, Notifying, Addresses
<1>4. CASE GrabLock(t) BY <1>4, Zenon DEF GrabLock, TypeOK, LocalsOK, LocalOK, PC, Notifying, Addresses
<1>5. CASE MarkParked(t) BY <1>5, Zenon DEF MarkParked, TypeOK, LocalsOK, LocalOK, PC, Notifying, Addresses
<1>6. CASE AlreadyParked(t) BY Zenon, <1>6 DEF AlreadyParked, TypeOK, LocalsOK, LocalOK, PC, Notifying, Addresses
<1>7. CASE Park(t)
  <2>1. mutex[t] \in Mutexes BY Zenon, <1>7 DEF Park, LocalsOK, LocalOK, Notifying
  <2>2. mutex[t] \in Addresses BY Zenon, <1>7, <2>1 DEF Addresses
  <2>3. queue[mutex[t]] \in Seq(Threads) BY Zenon, <1>7, <2>2, <1>queue
  <2>4. queue' = [queue EXCEPT ![mutex[t]] = Append(queue[mutex[t]], t)] \/ queue' = queue BY Zenon, <1>7 DEF Park, Enqueue
  <2>5. Append(queue[mutex[t]], t) \in Seq(Threads) BY <2>3
  <2>6. queue' \in [Addresses -> Seq(Threads)] BY <1>queue, <2>4, <2>2, <2>5, SetQueue, Zenon
  <2>7. should_park' = [should_park EXCEPT ![t] = TRUE] \/ should_park' = should_park BY Zenon, <1>7 DEF Park, Enqueue
  <2>8. should_park' \in [Threads -> BOOLEAN] BY <1>should_park, <2>7, Zenon
  <2>9. resume' = [resume EXCEPT ![t] = "load"] \/ resume' = resume BY Zenon, <1>7 DEF Park, Enqueue
  <2>10. resume' \in [Threads -> {"load", "lock"}] BY Zenon, <1>resume, <2>9
  <2>11. pc' = [pc EXCEPT ![t] = "parked"] \/ pc' = [pc EXCEPT ![t] = "load"] BY Zenon, <1>7 DEF Park, Enqueue
  <2>12. pc' \in [Threads -> PC] BY Zenon, <1>pc, <2>11, <1>PC
  <2>13. UNCHANGED <<BucketOf, state, cond, held, mutex, expected, back, control, unpark_one, target>>
    BY Zenon, <1>7 DEF Park, Enqueue
  <2> QED BY Zenon, <2>6, <2>8, <2>10, <2>12, <2>13 DEF TypeOK
<1>8. CASE Resume(t) BY Zenon, <1>8 DEF Resume, TypeOK, LocalsOK, LocalOK, PC, Notifying, Addresses
<1>9. CASE Unpark(t) BY Zenon, <1>9 DEF Unpark, TypeOK, LocalsOK, LocalOK, PC, Notifying, Addresses
<1>10. CASE Unlock(t) BY Zenon, <1>10 DEF Unlock, TypeOK, LocalsOK, LocalOK, PC, Notifying, Addresses
<1>11. CASE FastUnlock(t)
  <2>1. mutex[t] \in Mutexes BY Zenon, <1>11 DEF FastUnlock, LocalsOK, LocalOK, Notifying
  <2>2. state' = [state EXCEPT ![mutex[t]] = {}] \/ state' = state BY Zenon, <1>11 DEF FastUnlock
  <2>3. state' \in [Mutexes -> SUBSET {"lock", "parked"}] BY Zenon, <1>state, <2>2, <2>1
  <2>4. pc' = [pc EXCEPT ![t] = back[t]] \/ pc' = [pc EXCEPT ![t] = "unlock_full"] BY Zenon, <1>11 DEF FastUnlock
  <2>5. pc' \in [Threads -> PC] BY Zenon, <1>pc, <2>4, <1>back_in_PC, <1>PC
  <2>6. UNCHANGED <<BucketOf, cond, queue, held, should_park, mutex, expected, resume, back, control, unpark_one, target>>
    BY Zenon, <1>11 DEF FastUnlock
  <2> QED BY Zenon, <2>3, <2>5, <2>6 DEF TypeOK
<1>12. CASE UnlockFull(t)
  <2>1. mutex[t] \in Mutexes BY Zenon, <1>12 DEF UnlockFull, LocalsOK, LocalOK, Notifying
  <2>2. state' = [state EXCEPT ![mutex[t]] = {}] \/ state' = state BY Zenon, <1>12 DEF UnlockFull
  <2>3. state' \in [Mutexes -> SUBSET {"lock", "parked"}] BY Zenon, <1>state, <2>2, <2>1
  <2>4. pc' = [pc EXCEPT ![t] = back[t]] \/ pc' = [pc EXCEPT ![t] = "unpark_one"] BY Zenon, <1>12 DEF UnlockFull
  <2>5. pc' \in [Threads -> PC] BY Zenon, <1>pc, <2>4, <1>back_in_PC, <1>PC
  <2>6. UNCHANGED <<BucketOf, cond, queue, held, should_park, mutex, expected, resume, back, control, unpark_one, target>>
    BY Zenon, <1>12 DEF UnlockFull
  <2> QED BY Zenon, <2>3, <2>5, <2>6 DEF TypeOK
<1>13. CASE UnparkOne(t)
  <2>1. mutex[t] \in Mutexes BY Zenon, <1>13 DEF UnparkOne, LocalsOK, LocalOK, Notifying
  <2>2. mutex[t] \in Addresses BY Zenon, <1>13, <2>1 DEF Addresses
  <2>3. queue[mutex[t]] \in Seq(Threads) BY Zenon, <1>13, <2>2, <1>queue
  <2>4. state' = [state EXCEPT ![mutex[t]] = {}] \/ state' = [state EXCEPT ![mutex[t]] = {"parked"}]
    BY <1>13, Zenon DEF UnparkOne, mutex_parking_control_unpark
  <2>5. state' \in [Mutexes -> SUBSET {"lock", "parked"}] BY <1>state, <2>4, <2>1
  <2>6. (queue[mutex[t]] # <<>> /\ queue' = [queue EXCEPT ![mutex[t]] = Tail(queue[mutex[t]])]) \/ queue' = queue
    BY Zenon, <1>13 DEF UnparkOne, mutex_parking_control_unpark
  <2>7. queue[mutex[t]] # <<>> => Tail(queue[mutex[t]]) \in Seq(Threads) BY <2>3
  <2>8. queue' \in [Addresses -> Seq(Threads)] BY <1>queue, <2>6, <2>2, <2>7, SetQueue, Zenon
  <2>9. (queue[mutex[t]] # <<>> /\ target' = [target EXCEPT ![t] = Head(queue[mutex[t]])]) \/ target' = target
    BY Zenon, <1>13 DEF UnparkOne, mutex_parking_control_unpark
  <2>10. target' \in [Threads -> Threads \cup {NULL}] BY <1>target, <2>9, <2>3
  <2>11. pc' = [pc EXCEPT ![t] = back[t]] \/ pc' = [pc EXCEPT ![t] = "unpark"]
    BY Zenon, <1>13 DEF UnparkOne, mutex_parking_control_unpark
  <2>12. pc' \in [Threads -> PC] BY Zenon, <1>pc, <2>11, <1>back_in_PC, <1>PC
  <2>13. UNCHANGED <<BucketOf, cond, held, should_park, mutex, expected, resume, back, control, unpark_one>>
    BY Zenon, <1>13 DEF UnparkOne, mutex_parking_control_unpark
  <2> QED BY Zenon, <2>5, <2>8, <2>10, <2>12, <2>13 DEF TypeOK
<1>14. CASE ParkWaiter(t)
  <2>1. mutex[t] \in Mutexes BY Zenon, <1>14 DEF ParkWaiter, LocalsOK, LocalOK, Notifying
  <2>2. control[t][1] \in Conds BY Zenon, <1>14, <1>control DEF ParkWaiter, LocalsOK, LocalOK, Notifying
  <2>3. control[t][1] \in Addresses BY Zenon, <1>14, <2>2 DEF Addresses
  <2>4. queue[control[t][1]] \in Seq(Threads) BY Zenon, <1>14, <2>3, <1>queue
  <2>5. cond' = [cond EXCEPT ![control[t][1]] = mutex[t]] \/ cond' = cond BY Zenon, <1>14 DEF ParkWaiter, Enqueue
  <2>6. cond' \in [Conds -> Mutexes \cup {NULL}] BY Zenon, <1>cond, <2>5, <2>2, <2>1
  <2>7. queue' = [queue EXCEPT ![control[t][1]] = Append(queue[control[t][1]], t)] \/ queue' = queue
    BY Zenon, <1>14 DEF ParkWaiter, Enqueue
  <2>8. Append(queue[control[t][1]], t) \in Seq(Threads) BY <2>4
  <2>9. queue' \in [Addresses -> Seq(Threads)] BY <1>queue, <2>7, <2>3, <2>8, SetQueue, Zenon
  <2>10. should_park' = [should_park EXCEPT ![t] = TRUE] \/ should_park' = should_park
    BY Zenon, <1>14 DEF ParkWaiter, Enqueue
  <2>11. should_park' \in [Threads -> BOOLEAN] BY <1>should_park, <2>10, Zenon
  <2>12. resume' = [resume EXCEPT ![t] = "lock"] \/ resume' = resume BY Zenon, <1>14 DEF ParkWaiter, Enqueue
  <2>13. resume' \in [Threads -> {"load", "lock"}] BY Zenon, <1>resume, <2>12
  <2>14. back' = [back EXCEPT ![t] = "parked"] \/ back' = back BY Zenon, <1>14 DEF ParkWaiter, Enqueue
  <2>15. back' \in [Threads -> {"in", "out", "parked"}] BY Zenon, <1>back, <2>14
  <2>16. pc' = [pc EXCEPT ![t] = "unlock"] \/ pc' = [pc EXCEPT ![t] = "in"] BY Zenon, <1>14 DEF ParkWaiter, Enqueue
  <2>17. pc' \in [Threads -> PC] BY Zenon, <1>pc, <2>16, <1>PC
  <2>18. UNCHANGED <<BucketOf, state, held, mutex, expected, control, unpark_one, target>>
    BY Zenon, <1>14 DEF ParkWaiter, Enqueue
  <2> QED BY Zenon, <2>6, <2>9, <2>11, <2>13, <2>15, <2>17, <2>18 DEF TypeOK
<1>15. CASE SignalOne(t)
  <2>1. control[t][1] \in Conds BY Zenon, <1>15, <1>control DEF SignalOne, LocalsOK, LocalOK, Notifying
  <2>2. control[t][1] \in Addresses BY Zenon, <1>15, <2>1 DEF Addresses
  <2>3. queue[control[t][1]] \in Seq(Threads) BY Zenon, <1>15, <2>2, <1>queue
  <2>4. cond' = [cond EXCEPT ![control[t][1]] = cond[control[t][1]]] \/ cond' = [cond EXCEPT ![control[t][1]] = NULL]
    BY <1>15, Zenon DEF SignalOne, signal_parking_control_unpark
  <2>5. cond' \in [Conds -> Mutexes \cup {NULL}] BY Zenon, <1>cond, <2>4, <2>1
  <2>6. (queue[control[t][1]] # <<>> /\ queue' = [queue EXCEPT ![control[t][1]] = Tail(queue[control[t][1]])]) \/ queue' = queue
    BY Zenon, <1>15 DEF SignalOne, signal_parking_control_unpark
  <2>7. queue[control[t][1]] # <<>> => Tail(queue[control[t][1]]) \in Seq(Threads) BY <2>3
  <2>8. queue' \in [Addresses -> Seq(Threads)] BY <1>queue, <2>6, <2>2, <2>7, SetQueue, Zenon
  <2>9. (queue[control[t][1]] # <<>> /\ target' = [target EXCEPT ![t] = Head(queue[control[t][1]])]) \/ target' = target
    BY Zenon, <1>15 DEF SignalOne, signal_parking_control_unpark
  <2>10. target' \in [Threads -> Threads \cup {NULL}] BY <1>target, <2>9, <2>3
  <2>11. pc' = [pc EXCEPT ![t] = back[t]] \/ pc' = [pc EXCEPT ![t] = "unpark"]
    BY Zenon, <1>15 DEF SignalOne, signal_parking_control_unpark
  <2>12. pc' \in [Threads -> PC] BY Zenon, <1>pc, <2>11, <1>back_in_PC, <1>PC
  <2>13. UNCHANGED <<BucketOf, state, held, should_park, mutex, expected, resume, back, control, unpark_one>>
    BY Zenon, <1>15 DEF SignalOne, signal_parking_control_unpark
  <2> QED BY Zenon, <2>5, <2>8, <2>10, <2>12, <2>13 DEF TypeOK
<1>16. CASE LockFirst(t) BY <1>16, Zenon DEF LockFirst, TypeOK, LocalsOK, LocalOK, PC, Notifying, Addresses
<1>17. CASE LockSecond(t) BY <1>17, Zenon DEF LockSecond, TypeOK, LocalsOK, LocalOK, PC, Notifying, Addresses
<1>18. CASE Validate(t)
  <2>1. held' = [b \in Buckets |-> IF held[b] = t THEN NULL ELSE held[b]] \/ held' = held
    BY Zenon, <1>18 DEF Validate, UnlockPair
  <2>2. held' \in [Buckets -> Threads \cup {NULL}] BY Zenon, <1>held, <2>1
  <2>3. cond' = [cond EXCEPT ![control[t][1]] = NULL] \/ cond' = cond BY Zenon, <1>18 DEF Validate, UnlockPair
  <2>4. cond' \in [Conds -> Mutexes \cup {NULL}] BY Zenon, <1>cond, <2>3
  <2>5. pc' = [pc EXCEPT ![t] = back[t]] \/ pc' = [pc EXCEPT ![t] = "make_parked"] BY Zenon, <1>18 DEF Validate, UnlockPair
  <2>6. pc' \in [Threads -> PC] BY Zenon, <1>pc, <2>5, <1>back_in_PC, <1>PC
  <2>7. UNCHANGED <<BucketOf, state, queue, should_park, mutex, expected, resume, back, control, unpark_one, target>>
    BY Zenon, <1>18 DEF Validate, UnlockPair
  <2> QED BY Zenon, <2>2, <2>4, <2>6, <2>7 DEF TypeOK
<1>19. CASE MakeParkedIfLocked(t) BY ZenonT(30), <1>19 DEF MakeParkedIfLocked, TypeOK, LocalsOK, LocalOK, PC, Notifying, Addresses
<1>20. CASE Requeue(t)
  <2> DEFINE c == control[t][1]
             m == control[t][2]
  <2>1. c \in Conds /\ m \in Mutexes BY Zenon, <1>20 DEF Requeue, LocalsOK, LocalOK, Notifying
  <2>2. c \in Addresses /\ m \in Addresses BY Zenon, <2>1 DEF Addresses
  <2>3. queue[c] \in Seq(Threads) /\ queue[m] \in Seq(Threads) BY Zenon, <2>2, <1>queue
  <2>4. Moved(t) \in Seq(Threads) BY <2>3 DEF Moved, Wakes
  <2>5. queue[m] \o Moved(t) \in Seq(Threads)
    <3> HIDE DEF c, m
    <3> QED BY <2>3, <2>4
  <2>6. queue' = [queue EXCEPT ![c] = <<>>, ![m] = @ \o Moved(t)] BY Zenon, <1>20 DEF Requeue
  <2>7. c # m BY Zenon, <2>1, SyncAssumption
  <2>8. queue' = [[queue EXCEPT ![c] = <<>>] EXCEPT ![m] = queue[m] \o Moved(t)]
    <3> HIDE DEF c, m
    <3> QED BY Zenon, <2>2, <2>6, <2>7, <1>queue
  <2>9. queue' \in [Addresses -> Seq(Threads)]
    <3> HIDE DEF c, m
    <3>1. <<>> \in Seq(Threads) OBVIOUS
    <3>2. [queue EXCEPT ![c] = <<>>] \in [Addresses -> Seq(Threads)] BY Zenon, <2>2, <3>1, <1>queue, SetQueue
    <3> QED BY <2>2, <2>5, <2>8, <3>2, SetQueue, Zenon
  <2>10. state' = [state EXCEPT ![m] = @ \cup {"parked"}] \/ state' = [state EXCEPT ![m] = @] BY <1>20, Zenon DEF Requeue
  <2>11. state' \in [Mutexes -> SUBSET {"lock", "parked"}] BY <1>state, <2>10
  <2>12. held' = [b \in Buckets |-> IF held[b] = t THEN NULL ELSE held[b]] BY Zenon, <1>20 DEF Requeue, UnlockPair
  <2>13. held' \in [Buckets -> Threads \cup {NULL}] BY Zenon, <1>held, <2>12
  <2>14. \/ queue[c] # <<>> /\ target' = [target EXCEPT ![t] = Head(queue[c])] /\ pc' = [pc EXCEPT ![t] = "unpark"]
         \/ target' = [target EXCEPT ![t] = NULL] /\ pc' = [pc EXCEPT ![t] = back[t]]
    BY <1>20, Zenon DEF Requeue, Wakes
  <2>15. target' \in [Threads -> Threads \cup {NULL}] BY <1>target, <2>3, <2>14, SMTT(30)
  <2>16. pc' \in [Threads -> PC] BY Zenon, <1>pc, <1>PC, <1>back_in_PC, <2>14
  <2>17. UNCHANGED <<BucketOf, cond, should_park, mutex, expected, resume, back, control, unpark_one>>
    BY Zenon, <1>20 DEF Requeue
  <2> QED BY ZenonT(30), <2>9, <2>11, <2>13, <2>15, <2>16, <2>17 DEF TypeOK
<1>21. CASE \E m \in Mutexes : Lock(t, m) BY <1>21 DEF Lock, TypeOK, LocalsOK, LocalOK, PC, Notifying, Addresses
<1>22. CASE \E c \in Conds : Wait(t, c) BY <1>22 DEF Wait, TypeOK, LocalsOK, LocalOK, PC, Notifying, Addresses
<1>23. CASE \E c \in Conds : Signal(t, c)
  <2>1. PICK c \in Conds : Signal(t, c) BY Zenon, <1>23
  <2>2. control' = [control EXCEPT ![t] = <<c, cond[c]>>] \/ control' = control BY Zenon, <2>1 DEF Signal, Notify
  <2>3. control' \in [Threads -> (Conds \cup {NULL}) \X (Mutexes \cup {NULL})] BY <1>control, <2>2, <1>cond
  <2>4. (back' = [back EXCEPT ![t] = pc[t]] /\ pc[t] \in {"in", "out"}) \/ back' = back BY Zenon, <2>1 DEF Signal, Notify
  <2>5. back' \in [Threads -> {"in", "out", "parked"}] BY Zenon, <1>back, <2>4, <1>pc
  <2>6. pc' = [pc EXCEPT ![t] = "signal"] \/ pc' = pc BY Zenon, <2>1 DEF Signal, Notify
  <2>7. pc' \in [Threads -> PC] BY Zenon, <1>pc, <2>6, <1>PC
  <2>8. UNCHANGED <<BucketOf, state, cond, queue, held, should_park, mutex, expected, resume, unpark_one, target>>
    BY Zenon, <2>1 DEF Signal, Notify
  <2> QED BY Zenon, <2>3, <2>5, <2>7, <2>8 DEF TypeOK
<1>24. CASE \E c \in Conds : Broadcast(t, c)
  <2>1. PICK c \in Conds : Broadcast(t, c) BY Zenon, <1>24
  <2>2. control' = [control EXCEPT ![t] = <<c, cond[c]>>] \/ control' = control BY Zenon, <2>1 DEF Broadcast, Notify
  <2>3. control' \in [Threads -> (Conds \cup {NULL}) \X (Mutexes \cup {NULL})] BY <1>control, <2>2, <1>cond
  <2>4. (back' = [back EXCEPT ![t] = pc[t]] /\ pc[t] \in {"in", "out"}) \/ back' = back BY Zenon, <2>1 DEF Broadcast, Notify
  <2>5. back' \in [Threads -> {"in", "out", "parked"}] BY Zenon, <1>back, <2>4, <1>pc
  <2>6. pc' = [pc EXCEPT ![t] = "first"] \/ pc' = pc BY Zenon, <2>1 DEF Broadcast, Notify
  <2>7. pc' \in [Threads -> PC] BY Zenon, <1>pc, <2>6, <1>PC
  <2>8. UNCHANGED <<BucketOf, state, cond, queue, held, should_park, mutex, expected, resume, unpark_one, target>>
    BY Zenon, <2>1 DEF Broadcast, Notify
  <2> QED BY Zenon, <2>3, <2>5, <2>7, <2>8 DEF TypeOK
<1> QED
  BY ZenonT(30), <1>1, <1>2, <1>3, <1>4, <1>5, <1>6, <1>7, <1>8, <1>9, <1>10, <1>11, <1>12, <1>13, <1>14, <1>15,
     <1>16, <1>17, <1>18, <1>19, <1>20, <1>21, <1>22, <1>23, <1>24 DEF Step, StepOf

\* A thread knows what it needs.
LEMMA LocalsStep ==
  ASSUME TypeOK, LocalsOK, NEW t \in Threads, StepOf(t)
  PROVE  LocalsOK'
<1>0. Alone(t) BY Zenon, AloneStep
<1>t. SUFFICES LocalOK(t)' BY <1>0 DEF LocalsOK, LocalOK, Alone
<1>l. LocalOK(t) BY Zenon DEF LocalsOK
<1>y. pc \in [Threads -> PC] /\ target \in [Threads -> Threads \cup {NULL}] BY Zenon DEF TypeOK
<1> USE DEF LocalOK, Notifying, TypeOK, PC
<1>1. CASE FastLock(t) BY <1>1, <1>l DEF FastLock
<1>2. CASE LoadState(t) BY Zenon, <1>2, <1>l DEF LoadState
<1>3. CASE Retry(t) BY Zenon, <1>3, <1>l DEF Retry
<1>4. CASE GrabLock(t) BY Zenon, <1>4, <1>l DEF GrabLock
<1>5. CASE MarkParked(t) BY Zenon, <1>5, <1>l DEF MarkParked
<1>6. CASE AlreadyParked(t) BY Zenon, <1>6, <1>l DEF AlreadyParked
<1>7. CASE Park(t) BY <1>7, <1>l DEF Park
<1>8. CASE Resume(t) BY <1>8, <1>l, Zenon DEF Resume
<1>9. CASE Unpark(t) BY ZenonT(30), <1>9, <1>l DEF Unpark
<1>10. CASE Unlock(t) BY Zenon, <1>10, <1>l DEF Unlock
<1>11. CASE FastUnlock(t) BY <1>11, <1>l, ZenonT(30) DEF FastUnlock
<1>12. CASE UnlockFull(t) BY <1>12, <1>l, ZenonT(30) DEF UnlockFull
<1>13. CASE UnparkOne(t)
  <2>1. queue[mutex[t]] \in Seq(Threads) BY Zenon, <1>13, <1>l DEF UnparkOne, Addresses
  <2>2. queue[mutex[t]] # <<>> => Head(queue[mutex[t]]) \in Threads BY <2>1
  <2>3. mutex'[t] = mutex[t] /\ back'[t] = back[t] BY Zenon, <1>13 DEF UnparkOne
  <2>4. \/ pc' = [pc EXCEPT ![t] = back[t]]
        \/ (queue[mutex[t]] # <<>> /\ pc' = [pc EXCEPT ![t] = "unpark"] /\ target' = [target EXCEPT ![t] = Head(queue[mutex[t]])])
    BY Zenon, <1>13 DEF UnparkOne
  <2>5. pc'[t] = back[t] \/ (pc'[t] = "unpark" /\ target'[t] \in Threads)
    BY <1>y, <2>2, <2>4
  <2>6. mutex[t] \in Mutexes /\ back[t] \in {"out", "parked"} BY Zenon, <1>13, <1>l DEF UnparkOne
  <2> QED BY Zenon, <2>3, <2>5, <2>6
<1>14. CASE ParkWaiter(t) BY <1>14, <1>l DEF ParkWaiter
<1>15. CASE SignalOne(t)
  <2>1. queue[control[t][1]] \in Seq(Threads) BY Zenon, <1>15, <1>l DEF SignalOne, Addresses
  <2>2. queue[control[t][1]] # <<>> => Head(queue[control[t][1]]) \in Threads BY <2>1
  <2>3. mutex'[t] = mutex[t] /\ back'[t] = back[t] BY Zenon, <1>15 DEF SignalOne
  <2>4. \/ pc' = [pc EXCEPT ![t] = back[t]]
        \/ (queue[control[t][1]] # <<>> /\ pc' = [pc EXCEPT ![t] = "unpark"] /\ target' = [target EXCEPT ![t] = Head(queue[control[t][1]])])
    BY Zenon, <1>15 DEF SignalOne
  <2>5. pc'[t] = back[t] \/ (pc'[t] = "unpark" /\ target'[t] \in Threads)
    BY ZenonT(30), <1>y, <2>2, <2>4
  <2>6. back[t] \in {"in", "out", "parked"} /\ (back[t] # "out" => mutex[t] \in Mutexes) BY Zenon, <1>15, <1>l DEF SignalOne
  <2> QED BY Zenon, <2>3, <2>5, <2>6
<1>16. CASE LockFirst(t) BY Zenon, <1>16, <1>l DEF LockFirst
<1>17. CASE LockSecond(t) BY ZenonT(30), <1>17, <1>l DEF LockSecond
<1>18. CASE Validate(t) BY <1>18, <1>l DEF Validate
<1>19. CASE MakeParkedIfLocked(t) BY Zenon, <1>19, <1>l DEF MakeParkedIfLocked
<1>20. CASE Requeue(t)
  <2>1. queue[control[t][1]] \in Seq(Threads) BY Zenon, <1>20, <1>l DEF Requeue, Addresses
  <2>2. queue[control[t][1]] # <<>> => Head(queue[control[t][1]]) \in Threads BY <2>1
  <2>3. mutex'[t] = mutex[t] /\ back'[t] = back[t] BY Zenon, <1>20 DEF Requeue
  <2>4. \/ pc' = [pc EXCEPT ![t] = back[t]]
        \/ (queue[control[t][1]] # <<>> /\ pc' = [pc EXCEPT ![t] = "unpark"] /\ target' = [target EXCEPT ![t] = Head(queue[control[t][1]])])
    BY <1>20, Zenon DEF Requeue, Wakes
  <2>5. pc'[t] = back[t] \/ (pc'[t] = "unpark" /\ target'[t] \in Threads)
    BY <1>y, <2>2, <2>4
  <2>6. back[t] \in {"in", "out", "parked"} /\ (back[t] # "out" => mutex[t] \in Mutexes) BY Zenon, <1>20, <1>l DEF Requeue
  <2> QED BY Zenon, <2>3, <2>5, <2>6
<1>21. CASE \E m \in Mutexes : Lock(t, m) BY <1>21, <1>l DEF Lock
<1>22. CASE \E c \in Conds : Wait(t, c) BY <1>22, <1>l DEF Wait
<1>23. CASE \E c \in Conds : Signal(t, c) BY <1>23, <1>l DEF Signal, Notify
<1>24. CASE \E c \in Conds : Broadcast(t, c) BY <1>24, <1>l DEF Broadcast, Notify
<1> QED
  BY ZenonT(30), <1>1, <1>2, <1>3, <1>4, <1>5, <1>6, <1>7, <1>8, <1>9, <1>10, <1>11, <1>12, <1>13, <1>14, <1>15,
     <1>16, <1>17, <1>18, <1>19, <1>20, <1>21, <1>22, <1>23, <1>24 DEF Step, StepOf

\* What a step does to the owners: a mutex is taken by a compare-and-swap of a thread
\* that is awake, and given back by a step that moves no waiter of a condition.
LEMMA OwnerStep ==
  ASSUME TypeOK, LocalsOK, NEW t \in Threads, StepOf(t)
  PROVE  \/ Kept(t)
         \/ Taken(t) /\ ~Asleep(t) /\ queue' = queue
         \/ Given(t) /\ \A c \in Conds : queue'[c] = queue[c]
<1>l. LocalOK(t) BY Zenon DEF LocalsOK
<1> USE DEF LocalOK, Notifying, TypeOK, Owning, LockBit
<1>1. CASE FastLock(t)
  <2>1. CASE state[mutex[t]] = {} /\ pc' = [pc EXCEPT ![t] = "in"] /\ state' = [state EXCEPT ![mutex[t]] = {"lock"}]
    <3>1. Taken(t) BY Zenon, <1>1, <1>l, <2>1 DEF FastLock, Taken
    <3>2. ~Asleep(t) /\ queue' = queue BY Zenon, <1>1 DEF FastLock, Asleep
    <3> QED BY Zenon, <3>1, <3>2
  <2>2. CASE pc' = [pc EXCEPT ![t] = "load"] /\ state' = state
    BY Zenon, <1>1, <1>l, <2>2 DEF FastLock, Kept
  <2> QED BY Zenon, <1>1, <2>1, <2>2 DEF FastLock
<1>2. CASE LoadState(t) BY Zenon, <1>2, <1>l DEF LoadState, Kept
<1>3. CASE Retry(t) BY Zenon, <1>3, <1>l DEF Retry, Kept
<1>4. CASE GrabLock(t)
  <2>1. Taken(t) BY Zenon, <1>4, <1>l DEF GrabLock, Taken
  <2>2. ~Asleep(t) /\ queue' = queue BY Zenon, <1>4 DEF GrabLock, Asleep
  <2> QED BY Zenon, <2>1, <2>2
<1>5. CASE MarkParked(t) BY Zenon, <1>5, <1>l DEF MarkParked, Kept
<1>6. CASE AlreadyParked(t) BY Zenon, <1>6, <1>l DEF AlreadyParked, Kept
<1>7. CASE Park(t) BY <1>7, <1>l DEF Park, Kept
<1>8. CASE Resume(t) BY <1>8, <1>l, Zenon DEF Resume, Kept
<1>9. CASE Unpark(t) BY Zenon, <1>9, <1>l DEF Unpark, Kept
<1>10. CASE Unlock(t) BY Zenon, <1>10, <1>l DEF Unlock, Kept
<1>11. CASE FastUnlock(t)
  <2>1. CASE state[mutex[t]] = {"lock"} /\ pc' = [pc EXCEPT ![t] = back[t]] /\ state' = [state EXCEPT ![mutex[t]] = {}]
    <3>1. Given(t) BY <1>11, <1>l, <2>1, SMTT(30) DEF FastUnlock, Given
    <3>2. queue' = queue BY Zenon, <1>11 DEF FastUnlock
    <3> QED BY Zenon, <3>1, <3>2
  <2>2. CASE pc' = [pc EXCEPT ![t] = "unlock_full"] /\ state' = state
    BY Zenon, <1>11, <1>l, <2>2 DEF FastUnlock, Kept
  <2> QED BY Zenon, <1>11, <2>1, <2>2 DEF FastUnlock
<1>12. CASE UnlockFull(t)
  <2>1. CASE state[mutex[t]] = {"lock"} /\ pc' = [pc EXCEPT ![t] = back[t]] /\ state' = [state EXCEPT ![mutex[t]] = {}]
    <3>1. Given(t) BY <1>12, <1>l, <2>1, SMTT(30) DEF UnlockFull, Given
    <3>2. queue' = queue BY Zenon, <1>12 DEF UnlockFull
    <3> QED BY Zenon, <3>1, <3>2
  <2>2. CASE pc' = [pc EXCEPT ![t] = "unpark_one"] /\ state' = state
    BY Zenon, <1>12, <1>l, <2>2 DEF UnlockFull, Kept
  <2> QED BY Zenon, <1>12, <2>1, <2>2 DEF UnlockFull
<1>13. CASE UnparkOne(t)
  <2>1. mutex[t] \in Mutexes /\ back[t] \in {"out", "parked"} /\ mutex[t] \notin Conds
    BY Zenon, <1>13, <1>l, SyncAssumption DEF UnparkOne
  <2>2. state' = [state EXCEPT ![mutex[t]] = {}] \/ state' = [state EXCEPT ![mutex[t]] = {"parked"}]
    BY <1>13, Zenon DEF UnparkOne, mutex_parking_control_unpark
  <2>3. pc' = [pc EXCEPT ![t] = back[t]] \/ pc' = [pc EXCEPT ![t] = "unpark"] BY Zenon, <1>13 DEF UnparkOne
  <2>4. queue' = queue \/ queue' = [queue EXCEPT ![mutex[t]] = Tail(queue[mutex[t]])] BY Zenon, <1>13 DEF UnparkOne
  <2>5. Owning(t) /\ back' = back BY Zenon, <1>13 DEF UnparkOne
  <2>6. ~Owning(t)' BY ZenonT(30), <2>1, <2>3, <2>5
  <2>7. \A m \in Mutexes : LockBit(m)' <=> LockBit(m) /\ m # mutex[t] BY <2>1, <2>2
  <2>8. \A c \in Conds : queue'[c] = queue[c] BY Zenon, <2>1, <2>4 DEF Addresses
  <2> QED BY Zenon, <2>1, <2>5, <2>6, <2>7, <2>8 DEF Given
<1>14. CASE ParkWaiter(t) BY Zenon, <1>14, <1>l DEF ParkWaiter, Kept
<1>15. CASE SignalOne(t) BY ZenonT(30), <1>15, <1>l DEF SignalOne, Kept
<1>16. CASE LockFirst(t) BY Zenon, <1>16, <1>l DEF LockFirst, Kept
<1>17. CASE LockSecond(t) BY Zenon, <1>17, <1>l DEF LockSecond, Kept
<1>18. CASE Validate(t) BY ZenonT(30), <1>18, <1>l DEF Validate, Kept
<1>19. CASE MakeParkedIfLocked(t) BY Zenon, <1>19, <1>l DEF MakeParkedIfLocked, Kept
<1>20. CASE Requeue(t) BY Zenon, <1>20, <1>l DEF Requeue, Kept
<1>21. CASE \E m \in Mutexes : Lock(t, m) BY <1>21, <1>l DEF Lock, Kept
<1>22. CASE \E c \in Conds : Wait(t, c) BY ZenonT(30), <1>22, <1>l DEF Wait, Kept
<1>23. CASE \E c \in Conds : Signal(t, c) BY <1>23, <1>l DEF Signal, Notify, Kept
<1>24. CASE \E c \in Conds : Broadcast(t, c) BY <1>24, <1>l DEF Broadcast, Notify, Kept
<1> QED
  BY ZenonT(30), <1>1, <1>2, <1>3, <1>4, <1>5, <1>6, <1>7, <1>8, <1>9, <1>10, <1>11, <1>12, <1>13, <1>14, <1>15,
     <1>16, <1>17, <1>18, <1>19, <1>20, <1>21, <1>22, <1>23, <1>24 DEF Step, StepOf

-----------------------------------------------------------------------------
(* What a step does to the buckets and to the words that announce waiters. *)

\* A broadcast holds its buckets.
LEMMA PairStep ==
  ASSUME TypeOK, LocalsOK, PairHeld, NEW t \in Threads, StepOf(t)
  PROVE  PairHeld'
<1>a. Alone(t) BY Zenon, AloneStep
<1>h. BucketOf' = BucketOf /\ \A u \in Threads \ {t} : \A b \in Buckets : held[b] = u => held'[b] = u
  BY Zenon, HeldStep
<1>b. ASSUME NEW u \in Threads, pc[u] \in {"first", "second", "validate", "make_parked", "requeue"}
      PROVE  /\ FirstBucket(u) \in Buckets /\ SecondBucket(u) \in Buckets
             /\ HashFrom(u) \in Buckets /\ HashTo(u) \in Buckets /\ control[u][2] \in Mutexes
             /\ {FirstBucket(u), SecondBucket(u)} = {HashFrom(u), HashTo(u)}
  <2>1. control[u] \in Conds \X Mutexes BY Zenon, <1>b DEF LocalsOK, LocalOK, Notifying
  <2>2. HashFrom(u) \in Buckets /\ HashTo(u) \in Buckets BY Zenon, <2>1 DEF TypeOK, Addresses, HashFrom, HashTo
  <2> QED BY Zenon, <2>1, <2>2 DEF FirstBucket, SecondBucket, BucketOrder
<1>o. ASSUME NEW u \in Threads, u # t PROVE HasPair(u)'
  <2>1. /\ pc'[u] = pc[u] /\ control'[u] = control[u] /\ unpark_one'[u] = unpark_one[u]
        /\ HashFrom(u)' = HashFrom(u) /\ HashTo(u)' = HashTo(u) /\ FirstBucket(u)' = FirstBucket(u)
    BY Zenon, <1>a, <1>h, <1>o DEF Alone, HashFrom, HashTo, FirstBucket, BucketOrder
  <2>2. HasPair(u) BY Zenon DEF PairHeld
  <2>3. pc[u] = "second" => held'[FirstBucket(u)] = u
    BY Zenon, <1>h, <1>b, <1>o, <2>2 DEF HasPair
  <2>4. pc[u] \in {"validate", "make_parked", "requeue"} => held'[HashFrom(u)] = u /\ held'[HashTo(u)] = u
    BY Zenon, <1>h, <1>b, <1>o, <2>2 DEF HasPair
  <2>5. ASSUME pc[u] = "requeue", ~unpark_one[u] PROVE "parked" \in state'[control'[u][2]]
    <3>1. ParkedBit(control[u][2]) /\ control[u][2] \in Mutexes /\ held[HashTo(u)] = u
      BY Zenon, <1>b, <2>2, <2>5 DEF HasPair
    <3>2. PICK x \in Mutexes : x = control[u][2] BY Zenon, <3>1
    <3>3. ~(UnparkOne(t) /\ x = mutex[t])
      BY Zenon, <3>1, <3>2, SyncAssumption DEF UnparkOne, Free, HashTo
    <3>4. ParkedBit(x)' BY Zenon, <3>1, <3>2, <3>3, ParkedStep
    <3> QED BY Zenon, <2>1, <3>2, <3>4 DEF ParkedBit
  <2> QED BY Zenon, <2>1, <2>3, <2>4, <2>5 DEF HasPair, ParkedBit
<1> SUFFICES HasPair(t)' BY Zenon, <1>o DEF PairHeld
<1>l. LocalOK(t) /\ HasPair(t) BY Zenon DEF LocalsOK, PairHeld
<1> USE DEF HasPair
<1>1. CASE FastLock(t) BY ZenonT(30), <1>1, <1>l DEF FastLock, TypeOK
<1>2. CASE LoadState(t) BY Zenon, <1>2, <1>l DEF LoadState, TypeOK
<1>3. CASE Retry(t) BY Zenon, <1>3, <1>l DEF Retry, TypeOK
<1>4. CASE GrabLock(t) BY Zenon, <1>4, <1>l DEF GrabLock, TypeOK
<1>5. CASE MarkParked(t) BY Zenon, <1>5, <1>l DEF MarkParked, TypeOK
<1>6. CASE AlreadyParked(t) BY ZenonT(30), <1>6, <1>l DEF AlreadyParked, TypeOK
<1>7. CASE Park(t) BY <1>7, <1>l DEF Park, TypeOK
<1>8. CASE Resume(t) BY <1>8, <1>l, Zenon DEF Resume, TypeOK
<1>9. CASE Unpark(t) BY <1>9, <1>l, Zenon DEF Unpark, TypeOK
<1>10. CASE Unlock(t) BY Zenon, <1>10, <1>l DEF Unlock, TypeOK
<1>11. CASE FastUnlock(t) BY <1>11, <1>l, SMTT(30) DEF FastUnlock, TypeOK
<1>12. CASE UnlockFull(t) BY <1>12, <1>l, SMTT(30) DEF UnlockFull, TypeOK
<1>13. CASE UnparkOne(t) BY <1>13, <1>l, SMTT(30) DEF UnparkOne, TypeOK
<1>14. CASE ParkWaiter(t) BY ZenonT(30), <1>14, <1>l DEF ParkWaiter, TypeOK
<1>15. CASE SignalOne(t) BY <1>15, <1>l, ZenonT(30) DEF SignalOne, TypeOK
<1>16. CASE LockFirst(t)
  <2>1. /\ FirstBucket(t) \in Buckets /\ {FirstBucket(t), SecondBucket(t)} = {HashFrom(t), HashTo(t)}
    BY Zenon, <1>16, <1>b DEF LockFirst
  <2>2. held' = [held EXCEPT ![FirstBucket(t)] = t] /\ control' = control BY Zenon, <1>16 DEF LockFirst
  <2>3. held'[FirstBucket(t)] = t BY Zenon, <2>1, <2>2 DEF TypeOK
  <2>4. HashFrom(t)' = HashFrom(t) /\ HashTo(t)' = HashTo(t) /\ FirstBucket(t)' = FirstBucket(t)
    BY Zenon, <1>h, <2>2 DEF HashFrom, HashTo, FirstBucket, BucketOrder
  <2>5. pc'[t] = (IF FirstBucket(t) = SecondBucket(t) THEN "validate" ELSE "second") BY Zenon, <1>16 DEF LockFirst, TypeOK
  <2> QED BY Zenon, <2>1, <2>3, <2>4, <2>5
<1>17. CASE LockSecond(t)
  <2>1. /\ FirstBucket(t) \in Buckets /\ SecondBucket(t) \in Buckets
        /\ {FirstBucket(t), SecondBucket(t)} = {HashFrom(t), HashTo(t)}
    BY Zenon, <1>17, <1>b DEF LockSecond
  <2>2. held' = [held EXCEPT ![SecondBucket(t)] = t] /\ control' = control BY Zenon, <1>17 DEF LockSecond
  <2>3. held'[SecondBucket(t)] = t /\ held'[FirstBucket(t)] = t BY Zenon, <1>17, <1>l, <2>1, <2>2 DEF TypeOK, LockSecond
  <2>4. HashFrom(t)' = HashFrom(t) /\ HashTo(t)' = HashTo(t)
    BY Zenon, <1>h, <2>2 DEF HashFrom, HashTo
  <2>5. pc'[t] = "validate" BY Zenon, <1>17 DEF LockSecond, TypeOK
  <2> QED BY Zenon, <2>1, <2>3, <2>4, <2>5
<1>18. CASE Validate(t)
  <2>1. held[HashFrom(t)] = t /\ held[HashTo(t)] = t BY Zenon, <1>18, <1>l DEF Validate
  <2>2. control' = control BY Zenon, <1>18 DEF Validate
  <2>3. HashFrom(t)' = HashFrom(t) /\ HashTo(t)' = HashTo(t)
    BY Zenon, <1>h, <2>2 DEF HashFrom, HashTo
  <2>4. pc'[t] = back[t] \/ (pc'[t] = "make_parked" /\ held' = held) BY Zenon, <1>18 DEF Validate, TypeOK
  <2>5. back[t] \in {"in", "out", "parked"} BY Zenon DEF TypeOK
  <2> QED BY Zenon, <2>1, <2>3, <2>4, <2>5
<1>19. CASE MakeParkedIfLocked(t)
  <2>1. held[HashFrom(t)] = t /\ held[HashTo(t)] = t /\ control[t][2] \in Mutexes
    BY Zenon, <1>19, <1>l, <1>b DEF MakeParkedIfLocked
  <2>2. control' = control /\ held' = held BY Zenon, <1>19 DEF MakeParkedIfLocked
  <2>3. HashFrom(t)' = HashFrom(t) /\ HashTo(t)' = HashTo(t)
    BY Zenon, <1>h, <2>2 DEF HashFrom, HashTo
  <2>4. pc'[t] = "requeue" BY Zenon, <1>19 DEF MakeParkedIfLocked, TypeOK
  <2>5. unpark_one'[t] \/ "parked" \in state'[control[t][2]] BY <1>19, <2>1, Zenon DEF MakeParkedIfLocked, TypeOK
  <2> QED BY Zenon, <2>1, <2>2, <2>3, <2>4, <2>5 DEF ParkedBit
<1>20. CASE Requeue(t) BY <1>20, <1>l, SMTT(30) DEF Requeue, TypeOK
<1>21. CASE \E m \in Mutexes : Lock(t, m) BY ZenonT(30), <1>21, <1>l DEF Lock, TypeOK
<1>22. CASE \E c \in Conds : Wait(t, c) BY ZenonT(30), <1>22, <1>l DEF Wait, TypeOK
<1>23. CASE \E c \in Conds : Signal(t, c) BY ZenonT(30), <1>23, <1>l DEF Signal, Notify, TypeOK
<1>24. CASE \E c \in Conds : Broadcast(t, c) BY Zenon, <1>24, <1>l DEF Broadcast, Notify, TypeOK
<1> QED
  BY ZenonT(30), <1>1, <1>2, <1>3, <1>4, <1>5, <1>6, <1>7, <1>8, <1>9, <1>10, <1>11, <1>12, <1>13, <1>14, <1>15,
     <1>16, <1>17, <1>18, <1>19, <1>20, <1>21, <1>22, <1>23, <1>24 DEF Step, StepOf

-----------------------------------------------------------------------------
(* No wake-up is missed *)

CondWakes(c) == queue[c] # <<>> =>
  cond[c] # NULL \/ \E u \in Threads : pc[u] \in {"make_parked", "requeue"} /\ control[u][1] = c

\* Threads queued for a mutex are announced by its parked bit.
LEMMA MutexWakesStep ==
  ASSUME TypeOK, LocalsOK, PairHeld, NEW t \in Threads, StepOf(t), NEW x \in Mutexes,
         queue[x] # <<>> => ParkedBit(x)
  PROVE  queue'[x] # <<>> => ParkedBit(x)'
<1>p. ParkedBit(x) => ParkedBit(x)' \/ (UnparkOne(t) /\ x = mutex[t]) BY Zenon, ParkedStep
<1>q. queue \in [Addresses -> Seq(Threads)] /\ x \in Addresses /\ x \notin Conds /\ queue[x] \in Seq(Threads)
  BY Zenon, SyncAssumption DEF TypeOK, Addresses
<1>k. queue'[x] = queue[x] /\ ~UnparkOne(t) => (queue'[x] # <<>> => ParkedBit(x)') BY Zenon, <1>p
<1>1. CASE FastLock(t) BY Zenon, <1>1, <1>k DEF FastLock, UnparkOne
<1>2. CASE LoadState(t) BY Zenon, <1>2, <1>k DEF LoadState, UnparkOne
<1>3. CASE Retry(t) BY Zenon, <1>3, <1>k DEF Retry, UnparkOne
<1>4. CASE GrabLock(t) BY Zenon, <1>4, <1>k DEF GrabLock, UnparkOne
<1>5. CASE MarkParked(t) BY Zenon, <1>5, <1>k DEF MarkParked, UnparkOne
<1>6. CASE AlreadyParked(t) BY Zenon, <1>6, <1>k DEF AlreadyParked, UnparkOne
<1>7. CASE Park(t)
  <2>1. ~UnparkOne(t) BY Zenon, <1>7 DEF Park, UnparkOne
  <2>2. CASE mutex_parking_control_validate(mutex[t]) /\ x = mutex[t]
    BY Zenon, <1>7, <1>p, <2>1, <2>2 DEF mutex_parking_control_validate, ParkedBit
  <2>3. queue' = queue \/ queue' = [queue EXCEPT ![mutex[t]] = Append(queue[mutex[t]], t)]
    BY Zenon, <1>7 DEF Park, Enqueue
  <2>4. CASE x # mutex[t] BY Zenon, <1>k, <1>q, <2>1, <2>3, <2>4
  <2>5. CASE ~mutex_parking_control_validate(mutex[t]) BY Zenon, <1>7, <1>k, <2>1, <2>5 DEF Park
  <2> QED BY Zenon, <2>2, <2>4, <2>5
<1>8. CASE Resume(t) BY Zenon, <1>8, <1>k DEF Resume, UnparkOne
<1>9. CASE Unpark(t) BY Zenon, <1>9, <1>k DEF Unpark, UnparkOne
<1>10. CASE Unlock(t) BY Zenon, <1>10, <1>k DEF Unlock, UnparkOne
<1>11. CASE FastUnlock(t) BY Zenon, <1>11, <1>k DEF FastUnlock, UnparkOne
<1>12. CASE UnlockFull(t) BY Zenon, <1>12, <1>k DEF UnlockFull, UnparkOne
<1>13. CASE UnparkOne(t)
  <2>1. queue' = queue \/ queue' = [queue EXCEPT ![mutex[t]] = Tail(queue[mutex[t]])] BY Zenon, <1>13 DEF UnparkOne
  <2>2. CASE x # mutex[t] BY Zenon, <1>p, <1>q, <2>1, <2>2
  <2>3. CASE x = mutex[t] /\ queue[x] = <<>> BY Zenon, <1>13, <2>3 DEF UnparkOne
  <2>4. CASE x = mutex[t] /\ queue[x] # <<>>
    <3>1. queue'[x] = Tail(queue[x]) BY Zenon, <1>13, <1>q, <2>4 DEF UnparkOne
    <3>2. state'[x] = mutex_parking_control_unpark(Len(queue[x]) > 1) BY Zenon, <1>13, <2>4 DEF UnparkOne, TypeOK
    <3>3. Tail(queue[x]) # <<>> => Len(queue[x]) > 1 BY <1>q, <2>4
    <3> QED BY Zenon, <3>1, <3>2, <3>3 DEF mutex_parking_control_unpark, ParkedBit
  <2> QED BY Zenon, <2>2, <2>3, <2>4
<1>14. CASE ParkWaiter(t)
  <2>1. control[t][1] # x /\ ~UnparkOne(t) BY Zenon, <1>14, <1>q DEF ParkWaiter, LocalsOK, LocalOK, UnparkOne
  <2>2. queue' = queue \/ queue' = [queue EXCEPT ![control[t][1]] = Append(queue[control[t][1]], t)]
    BY Zenon, <1>14 DEF ParkWaiter, Enqueue
  <2> QED BY Zenon, <1>k, <1>q, <2>1, <2>2
<1>15. CASE SignalOne(t)
  <2>1. control[t][1] # x /\ ~UnparkOne(t) BY Zenon, <1>15, <1>q DEF SignalOne, LocalsOK, LocalOK, Notifying, UnparkOne
  <2>2. queue' = queue \/ queue' = [queue EXCEPT ![control[t][1]] = Tail(queue[control[t][1]])]
    BY Zenon, <1>15 DEF SignalOne
  <2> QED BY Zenon, <1>k, <1>q, <2>1, <2>2
<1>16. CASE LockFirst(t) BY Zenon, <1>16, <1>k DEF LockFirst, UnparkOne
<1>17. CASE LockSecond(t) BY Zenon, <1>17, <1>k DEF LockSecond, UnparkOne
<1>18. CASE Validate(t) BY Zenon, <1>18, <1>k DEF Validate, UnparkOne
<1>19. CASE MakeParkedIfLocked(t) BY Zenon, <1>19, <1>k DEF MakeParkedIfLocked, UnparkOne
<1>20. CASE Requeue(t)
  <2> DEFINE c == control[t][1]
             m == control[t][2]
  <2>1. /\ c \in Conds /\ c \in Addresses /\ queue[c] \in Seq(Threads) /\ c # x
        /\ m \in Mutexes /\ m \in Addresses /\ queue[m] \in Seq(Threads) /\ c # m
    BY Zenon, <1>20, <1>q, RequeuePair
  <2>2. Moved(t) \in Seq(Threads) BY <2>1 DEF Moved, Wakes
  <2>3. queue' = [queue EXCEPT ![c] = <<>>, ![m] = @ \o Moved(t)] BY Zenon, <1>20, RequeuePair
  <2>4. ~UnparkOne(t) BY Zenon, <1>20 DEF Requeue, UnparkOne
  <2>5. CASE x # m
    <3> HIDE DEF c, m
    <3>1. queue'[x] = queue[x] BY Zenon, <1>q, <2>1, <2>3, <2>5
    <3> QED BY Zenon, <1>k, <2>4, <3>1
  <2>6. CASE x = m
    <3>1. queue'[x] = queue[x] \o Moved(t)
      <4> HIDE DEF c
      <4> QED BY Zenon, <1>q, <2>1, <2>3, <2>6
    <3>2. queue'[x] # <<>> => queue[x] # <<>> \/ Moved(t) # <<>>
      BY <1>q, <2>2, <3>1
    <3>3. CASE queue[x] # <<>> BY Zenon, <1>p, <2>4, <3>3
    <3>4. CASE Moved(t) # <<>> /\ unpark_one[t]
      <4>1. requeue_callback(t, Moved(t) # <<>>) BY Zenon, <3>4 DEF requeue_callback
      <4>2. state' = [state EXCEPT ![m] = @ \cup {"parked"}] BY Zenon, <1>20, <4>1 DEF Requeue
      <4> QED BY Zenon, <2>1, <2>6, <4>2 DEF ParkedBit, TypeOK
    <3>5. CASE ~unpark_one[t]
      <4>1. ParkedBit(x) BY Zenon, <1>20, <2>6, <3>5 DEF Requeue, PairHeld, HasPair
      <4> QED BY Zenon, <1>p, <2>4, <4>1
    <3> QED BY Zenon, <3>2, <3>3, <3>4, <3>5
  <2> QED BY Zenon, <2>5, <2>6
<1>21. CASE \E m \in Mutexes : Lock(t, m) BY Zenon, <1>21, <1>k DEF Lock, UnparkOne
<1>22. CASE \E c \in Conds : Wait(t, c) BY Zenon, <1>22, <1>k DEF Wait, UnparkOne
<1>23. CASE \E c \in Conds : Signal(t, c) BY Zenon, <1>23, <1>k DEF Signal, Notify, UnparkOne
<1>24. CASE \E c \in Conds : Broadcast(t, c) BY Zenon, <1>24, <1>k DEF Broadcast, Notify, UnparkOne
<1> QED
  BY ZenonT(30), <1>1, <1>2, <1>3, <1>4, <1>5, <1>6, <1>7, <1>8, <1>9, <1>10, <1>11, <1>12, <1>13, <1>14, <1>15,
     <1>16, <1>17, <1>18, <1>19, <1>20, <1>21, <1>22, <1>23, <1>24 DEF Step, StepOf

\* Threads queued for a condition are announced by its word, unless a broadcast is
\* moving them.
LEMMA CondWakesStep ==
  ASSUME TypeOK, LocalsOK, PairHeld, NEW t \in Threads, StepOf(t), NEW x \in Conds, CondWakes(x)
  PROVE  CondWakes(x)'
<1>a. Alone(t) BY Zenon, AloneStep
<1>q. /\ queue \in [Addresses -> Seq(Threads)] /\ x \in Addresses /\ queue[x] \in Seq(Threads)
      /\ cond \in [Conds -> Mutexes \cup {NULL}] /\ pc \in [Threads -> PC] /\ NULL \notin Threads \cup Mutexes
  BY Zenon, SyncAssumption DEF TypeOK, Addresses
<1>k. ASSUME queue'[x] = queue[x], cond'[x] = cond[x],
             pc[t] \in {"make_parked", "requeue"} => pc'[t] \in {"make_parked", "requeue"} /\ control'[t] = control[t]
      PROVE  CondWakes(x)'
  BY <1>k, <1>a, ZenonT(30) DEF Alone, CondWakes
<1>f. ASSUME Free(x), queue[x] # <<>> PROVE cond[x] # NULL
  BY ZenonT(30), <1>f, SyncAssumption DEF CondWakes, PairHeld, HasPair, Free, HashFrom
<1>1. CASE FastLock(t) BY Zenon, <1>1, <1>k DEF FastLock
<1>2. CASE LoadState(t) BY Zenon, <1>2, <1>k DEF LoadState
<1>3. CASE Retry(t) BY Zenon, <1>3, <1>k DEF Retry
<1>4. CASE GrabLock(t) BY Zenon, <1>4, <1>k DEF GrabLock
<1>5. CASE MarkParked(t) BY Zenon, <1>5, <1>k DEF MarkParked
<1>6. CASE AlreadyParked(t) BY Zenon, <1>6, <1>k DEF AlreadyParked
<1>7. CASE Park(t)
  <2>1. mutex[t] # x BY Zenon, <1>7, SyncAssumption DEF Park, LocalsOK, LocalOK, Notifying
  <2>2. queue' = queue \/ queue' = [queue EXCEPT ![mutex[t]] = Append(queue[mutex[t]], t)]
    BY Zenon, <1>7 DEF Park, Enqueue
  <2>3. queue'[x] = queue[x] BY Zenon, <1>q, <2>1, <2>2
  <2>4. cond' = cond /\ pc[t] = "park" BY Zenon, <1>7 DEF Park
  <2> QED BY Zenon, <1>k, <2>3, <2>4
<1>8. CASE Resume(t) BY Zenon, <1>8, <1>k DEF Resume
<1>9. CASE Unpark(t) BY Zenon, <1>9, <1>k DEF Unpark
<1>10. CASE Unlock(t) BY Zenon, <1>10, <1>k DEF Unlock
<1>11. CASE FastUnlock(t) BY Zenon, <1>11, <1>k DEF FastUnlock
<1>12. CASE UnlockFull(t) BY Zenon, <1>12, <1>k DEF UnlockFull
<1>13. CASE UnparkOne(t)
  <2>1. mutex[t] # x BY Zenon, <1>13, SyncAssumption DEF UnparkOne, LocalsOK, LocalOK, Notifying
  <2>2. queue' = queue \/ queue' = [queue EXCEPT ![mutex[t]] = Tail(queue[mutex[t]])]
    BY Zenon, <1>13 DEF UnparkOne
  <2>3. queue'[x] = queue[x] BY Zenon, <1>q, <2>1, <2>2
  <2>4. cond' = cond /\ pc[t] = "unpark_one" BY Zenon, <1>13 DEF UnparkOne
  <2> QED BY Zenon, <1>k, <2>3, <2>4
<1>14. CASE ParkWaiter(t)
  <2>1. pc[t] = "wait" /\ mutex[t] \in Mutexes BY Zenon, <1>14 DEF ParkWaiter, LocalsOK, LocalOK, Notifying
  <2>2. CASE queue' = queue /\ cond' = cond BY Zenon, <1>k, <2>1, <2>2
  <2>3. CASE /\ queue' = [queue EXCEPT ![control[t][1]] = Append(queue[control[t][1]], t)]
             /\ cond' = [cond EXCEPT ![control[t][1]] = mutex[t]]
    <3>1. CASE x = control[t][1] BY Zenon, <1>q, <2>1, <2>3, <3>1 DEF CondWakes
    <3>2. CASE x # control[t][1]
      <4>1. queue'[x] = queue[x] /\ cond'[x] = cond[x] BY Zenon, <1>q, <2>3, <3>2
      <4> QED BY Zenon, <1>k, <2>1, <4>1
    <3> QED BY Zenon, <3>1, <3>2
  <2> QED BY Zenon, <1>14, <2>2, <2>3 DEF ParkWaiter, Enqueue
<1>15. CASE SignalOne(t)
  <2>1. pc[t] = "signal" /\ Free(control[t][1]) BY Zenon, <1>15 DEF SignalOne
  <2>2. queue' = queue \/ queue' = [queue EXCEPT ![control[t][1]] = Tail(queue[control[t][1]])]
    BY Zenon, <1>15 DEF SignalOne
  <2>3. cond' = [cond EXCEPT ![control[t][1]] = signal_parking_control_unpark(control[t][1], Len(queue[control[t][1]]) > 1)]
    BY Zenon, <1>15 DEF SignalOne
  <2>4. CASE x # control[t][1]
    <3>1. queue'[x] = queue[x] /\ cond'[x] = cond[x] BY Zenon, <1>q, <2>2, <2>3, <2>4
    <3> QED BY Zenon, <1>k, <2>1, <3>1
  <2>5. CASE x = control[t][1] /\ queue[x] = <<>>
    <3>1. queue'[x] = <<>> BY Zenon, <1>15, <2>5 DEF SignalOne
    <3> QED BY Zenon, <3>1 DEF CondWakes
  <2>6. CASE x = control[t][1] /\ queue[x] # <<>>
    <3>1. queue'[x] = Tail(queue[x]) BY Zenon, <1>15, <1>q, <2>6 DEF SignalOne
    <3>2. Tail(queue[x]) # <<>> => Len(queue[x]) > 1 BY <1>q, <2>6
    <3>3. cond[x] # NULL BY Zenon, <1>f, <2>1, <2>6
    <3>4. Len(queue[x]) > 1 => cond'[x] = cond[x] BY Zenon, <1>q, <2>3, <2>6 DEF signal_parking_control_unpark
    <3> QED BY Zenon, <3>1, <3>2, <3>3, <3>4 DEF CondWakes
  <2> QED BY Zenon, <2>4, <2>5, <2>6
<1>16. CASE LockFirst(t) BY Zenon, <1>16, <1>k DEF LockFirst
<1>17. CASE LockSecond(t) BY Zenon, <1>17, <1>k DEF LockSecond
<1>18. CASE Validate(t)
  <2>1. pc[t] = "validate" /\ queue' = queue /\ control' = control BY Zenon, <1>18 DEF Validate
  <2>2. CASE cond' = cond BY Zenon, <1>k, <2>1, <2>2
  <2>3. CASE cond' = [cond EXCEPT ![control[t][1]] = NULL] /\ pc' = [pc EXCEPT ![t] = "make_parked"]
    <3>1. CASE x = control[t][1]
      <4>1. pc'[t] = "make_parked" /\ control'[t][1] = x BY Zenon, <1>q, <2>1, <2>3, <3>1
      <4> QED BY Zenon, <4>1 DEF CondWakes
    <3>2. CASE x # control[t][1]
      <4>1. cond'[x] = cond[x] BY Zenon, <1>q, <2>3, <3>2
      <4> QED BY Zenon, <1>k, <2>1, <4>1
    <3> QED BY Zenon, <3>1, <3>2
  <2> QED BY Zenon, <1>18, <2>2, <2>3 DEF Validate
<1>19. CASE MakeParkedIfLocked(t)
  <2>1. queue' = queue /\ cond' = cond /\ control' = control BY Zenon, <1>19 DEF MakeParkedIfLocked
  <2>2. pc'[t] = "requeue" BY Zenon, <1>19, <1>q DEF MakeParkedIfLocked
  <2> QED BY Zenon, <1>k, <2>1, <2>2
<1>20. CASE Requeue(t)
  <2> DEFINE c == control[t][1]
             m == control[t][2]
  <2>1. c \in Addresses /\ m \in Mutexes /\ c # m /\ x # m
    BY Zenon, <1>20, RequeuePair, SyncAssumption
  <2>2. queue' = [queue EXCEPT ![c] = <<>>, ![m] = @ \o Moved(t)] BY Zenon, <1>20, RequeuePair
  <2>3. cond' = cond BY Zenon, <1>20, RequeuePair
  <2>4. CASE x = c
    <3> HIDE DEF m
    <3>1. queue'[x] = <<>> BY Zenon, <1>q, <2>1, <2>2, <2>4
    <3> QED BY Zenon, <3>1 DEF CondWakes
  <2>5. CASE x # c
    <3> HIDE DEF m
    <3>1. queue'[x] = queue[x] BY Zenon, <1>q, <2>1, <2>2, <2>5
    <3> QED BY Zenon, <1>a, <2>3, <2>5, <3>1 DEF Alone, CondWakes
  <2> QED BY Zenon, <2>4, <2>5
<1>21. CASE \E m \in Mutexes : Lock(t, m) BY Zenon, <1>21, <1>k DEF Lock
<1>22. CASE \E c \in Conds : Wait(t, c) BY Zenon, <1>22, <1>k DEF Wait
<1>23. CASE \E c \in Conds : Signal(t, c) BY Zenon, <1>23, <1>k DEF Signal, Notify
<1>24. CASE \E c \in Conds : Broadcast(t, c) BY Zenon, <1>24, <1>k DEF Broadcast, Notify
<1> QED
  BY Zenon, <1>1, <1>2, <1>3, <1>4, <1>5, <1>6, <1>7, <1>8, <1>9, <1>10, <1>11, <1>12, <1>13, <1>14, <1>15,
     <1>16, <1>17, <1>18, <1>19, <1>20, <1>21, <1>22, <1>23, <1>24 DEF Step, StepOf


-----------------------------------------------------------------------------
(* A thread is queued once, and unparked once *)

\* Every step keeps the queues disjoint and those in them asleep.
LEMMA QueueStep ==
  ASSUME TypeOK, LocalsOK, QueueInv, NEW t \in Threads, StepOf(t)
  PROVE  QueueInv'
<1>a. Alone(t) BY Zenon, AloneStep
<1>q. /\ queue \in [Addresses -> Seq(Threads)] /\ pc \in [Threads -> PC]
      /\ back \in [Threads -> {"in", "out", "parked"}] /\ resume \in [Threads -> {"load", "lock"}]
      /\ target \in [Threads -> Threads \cup {NULL}] /\ should_park \in [Threads -> BOOLEAN]
  BY Zenon DEF TypeOK
<1>k. ASSUME queue' = queue, should_park' = should_park, StaysAsleep(t),
             pc'[t] = "unpark" => pc[t] = "unpark" /\ target'[t] = target[t]
      PROVE  QueueInv'
  BY Zenon, <1>a, <1>k, QueuesKept
<1>1. CASE FastLock(t) BY Zenon, <1>1, <1>q, <1>k DEF FastLock, StaysAsleep, Asleep
<1>2. CASE LoadState(t) BY Zenon, <1>2, <1>q, <1>k DEF LoadState, StaysAsleep, Asleep
<1>3. CASE Retry(t) BY Zenon, <1>3, <1>q, <1>k DEF Retry, StaysAsleep, Asleep
<1>4. CASE GrabLock(t) BY Zenon, <1>4, <1>q, <1>k DEF GrabLock, StaysAsleep, Asleep
<1>5. CASE MarkParked(t) BY Zenon, <1>5, <1>q, <1>k DEF MarkParked, StaysAsleep, Asleep
<1>6. CASE AlreadyParked(t) BY Zenon, <1>6, <1>q, <1>k DEF AlreadyParked, StaysAsleep, Asleep
<1>7. CASE Park(t)
  <2>1. CASE ~mutex_parking_control_validate(mutex[t])
    <3>1. queue' = queue /\ should_park' = should_park /\ pc[t] = "park" /\ pc'[t] = "load"
      BY Zenon, <1>7, <1>q, <2>1 DEF Park
    <3> QED BY Zenon, <1>k, <3>1 DEF StaysAsleep, Asleep
  <2>2. CASE mutex_parking_control_validate(mutex[t])
    <3>1. PICK a \in Addresses : a = mutex[t] BY Zenon, <1>7 DEF Park, LocalsOK, LocalOK, Notifying, Addresses
    <3>2. /\ queue' = [queue EXCEPT ![a] = Append(queue[a], t)] /\ should_park' = [should_park EXCEPT ![t] = TRUE]
          /\ pc[t] = "park" /\ pc'[t] = "parked"
      BY Zenon, <1>7, <1>q, <2>2, <3>1 DEF Park, Enqueue
    <3>3. ~Asleep(t) /\ Asleep(t)' BY Zenon, <3>2 DEF Asleep
    <3> QED BY <1>a, <3>2, <3>3, QueuePut, Zenon
  <2> QED BY Zenon, <2>1, <2>2
<1>8. CASE Resume(t) BY Zenon, <1>8, <1>q, <1>k DEF Resume, StaysAsleep, Asleep
<1>9. CASE Unpark(t)
  BY Zenon, <1>9, <1>a, QueueUnparked
<1>10. CASE Unlock(t) BY Zenon, <1>10, <1>q, <1>k DEF Unlock, StaysAsleep, Asleep
<1>11. CASE FastUnlock(t) BY Zenon, <1>11, <1>q, <1>k DEF FastUnlock, StaysAsleep, Asleep
<1>12. CASE UnlockFull(t) BY Zenon, <1>12, <1>q, <1>k DEF UnlockFull, StaysAsleep, Asleep
<1>13. CASE UnparkOne(t)
  <2>1. PICK a \in Addresses : a = mutex[t] BY Zenon, <1>13 DEF UnparkOne, LocalsOK, LocalOK, Notifying, Addresses
  <2>2. should_park' = should_park /\ pc[t] = "unpark_one" /\ back' = back BY Zenon, <1>13 DEF UnparkOne
  <2>3. CASE queue[a] = <<>>
    <3>1. queue' = queue /\ pc'[t] = back[t] BY Zenon, <1>13, <1>q, <2>1, <2>3 DEF UnparkOne
    <3> QED BY Zenon, <1>q, <1>k, <2>2, <3>1 DEF StaysAsleep, Asleep
  <2>4. CASE queue[a] # <<>>
    <3>1. /\ queue' = [queue EXCEPT ![a] = Tail(queue[a])] /\ target'[t] = Head(queue[a]) /\ pc'[t] = "unpark"
      BY Zenon, <1>13, <1>q, <2>1, <2>4 DEF UnparkOne
    <3>2. StaysAsleep(t) BY Zenon, <2>2, <3>1 DEF StaysAsleep, Asleep
    <3> QED BY <1>a, <2>2, <2>4, <3>1, <3>2, QueueTaken, Zenon
  <2> QED BY Zenon, <2>3, <2>4
<1>14. CASE ParkWaiter(t)
  <2>1. CASE cond[control[t][1]] \notin {NULL, mutex[t]}
    <3>1. queue' = queue /\ should_park' = should_park /\ pc[t] = "wait" /\ pc'[t] = "in"
      BY Zenon, <1>14, <1>q, <2>1 DEF ParkWaiter
    <3> QED BY Zenon, <1>k, <3>1 DEF StaysAsleep, Asleep
  <2>2. CASE cond[control[t][1]] \in {NULL, mutex[t]}
    <3>1. PICK a \in Addresses : a = control[t][1] BY Zenon, <1>14 DEF ParkWaiter, LocalsOK, LocalOK, Addresses
    <3>2. /\ queue' = [queue EXCEPT ![a] = Append(queue[a], t)] /\ should_park' = [should_park EXCEPT ![t] = TRUE]
          /\ pc[t] = "wait" /\ pc'[t] = "unlock" /\ back'[t] = "parked"
      BY Zenon, <1>14, <1>q, <2>2, <3>1 DEF ParkWaiter, Enqueue
    <3>3. ~Asleep(t) /\ Asleep(t)' BY Zenon, <3>2 DEF Asleep
    <3> QED BY <1>a, <3>2, <3>3, QueuePut, Zenon
  <2> QED BY Zenon, <2>1, <2>2
<1>15. CASE SignalOne(t)
  <2>1. PICK a \in Addresses : a = control[t][1] BY Zenon, <1>15 DEF SignalOne, LocalsOK, LocalOK, Notifying, Addresses
  <2>2. should_park' = should_park /\ pc[t] = "signal" /\ StaysAsleep(t) BY Zenon, <1>15 DEF SignalOne, StaysAsleep, Asleep
  <2>3. CASE queue[a] = <<>>
    <3>1. queue' = queue /\ pc'[t] = back[t] BY Zenon, <1>15, <1>q, <2>1, <2>3 DEF SignalOne
    <3> QED BY Zenon, <1>q, <1>k, <2>2, <3>1
  <2>4. CASE queue[a] # <<>>
    <3>1. /\ queue' = [queue EXCEPT ![a] = Tail(queue[a])] /\ target'[t] = Head(queue[a]) /\ pc'[t] = "unpark"
      BY Zenon, <1>15, <1>q, <2>1, <2>4 DEF SignalOne
    <3> QED BY <1>a, <2>2, <2>4, <3>1, QueueTaken, Zenon
  <2> QED BY Zenon, <2>3, <2>4
<1>16. CASE LockFirst(t) BY Zenon, <1>16, <1>q, <1>k DEF LockFirst, StaysAsleep, Asleep
<1>17. CASE LockSecond(t) BY Zenon, <1>17, <1>q, <1>k DEF LockSecond, StaysAsleep, Asleep
<1>18. CASE Validate(t) BY Zenon, <1>18, <1>q, <1>k DEF Validate, StaysAsleep, Asleep
<1>19. CASE MakeParkedIfLocked(t) BY Zenon, <1>19, <1>q, <1>k DEF MakeParkedIfLocked, StaysAsleep, Asleep
<1>20. CASE Requeue(t)
  <2>1. PICK c \in Addresses : c = control[t][1] BY Zenon, <1>20, RequeuePair
  <2>2. PICK m \in Addresses : m = control[t][2] BY Zenon, <1>20, RequeuePair
  <2>3. c # m BY Zenon, <1>20, <2>1, <2>2, RequeuePair
  <2>4. should_park' = should_park /\ pc[t] = "requeue" /\ StaysAsleep(t) BY Zenon, <1>20 DEF Requeue, StaysAsleep, Asleep
  <2>5. CASE Wakes(t)
    <3>1. target'[t] = Head(queue[c]) BY Zenon, <1>20, <1>q, <2>1, <2>5 DEF Requeue
    <3>2. queue[c] \in Seq(Threads) /\ queue[c] # <<>> BY Zenon, <1>q, <2>1, <2>5 DEF Wakes
    <3>3. Tail(queue[c]) \in Seq(Threads) BY <3>2
    <3>4. PICK s \in Seq(Threads) : s = Tail(queue[c]) BY <3>3, Zenon
    <3>5. s = Moved(t) BY Zenon, <2>1, <2>5, <3>4 DEF Moved
    <3>6. queue' = [queue EXCEPT ![c] = <<>>, ![m] = @ \o s] BY Zenon, <1>20, <2>1, <2>2, <3>5, RequeuePair
    <3>7. queue' = [queue EXCEPT ![c] = <<>>, ![m] = queue[m] \o s] BY Zenon, <1>q, <2>3, <3>6
    <3> QED BY <1>a, <2>3, <2>4, <3>1, <3>2, <3>4, <3>7, QueueMoved, Zenon
  <2>6. CASE ~Wakes(t)
    <3>1. pc'[t] = back[t] BY Zenon, <1>20, <1>q, <2>6 DEF Requeue
    <3>2. pc'[t] # "unpark" BY <1>q, <3>1, Zenon
    <3>3. PICK s \in Seq(Threads) : s = queue[c] BY Zenon, <1>q
    <3>4. s = Moved(t) BY Zenon, <2>1, <2>6, <3>3 DEF Moved
    <3>5. queue' = [queue EXCEPT ![c] = <<>>, ![m] = @ \o s] BY Zenon, <1>20, <2>1, <2>2, <3>4, RequeuePair
    <3>6. queue' = [queue EXCEPT ![c] = <<>>, ![m] = queue[m] \o s] BY Zenon, <1>q, <2>3, <3>5
    <3> QED BY <1>a, <2>3, <2>4, <3>2, <3>3, <3>6, QueueMoved, Zenon
  <2> QED BY Zenon, <2>5, <2>6
<1>21. CASE \E m \in Mutexes : Lock(t, m) BY Zenon, <1>21, <1>q, <1>k DEF Lock, StaysAsleep, Asleep
<1>22. CASE \E c \in Conds : Wait(t, c) BY Zenon, <1>22, <1>q, <1>k DEF Wait, StaysAsleep, Asleep
<1>23. CASE \E c \in Conds : Signal(t, c) BY Zenon, <1>23, <1>q, <1>k DEF Signal, Notify, StaysAsleep, Asleep
<1>24. CASE \E c \in Conds : Broadcast(t, c) BY Zenon, <1>24, <1>q, <1>k DEF Broadcast, Notify, StaysAsleep, Asleep
<1> QED
  BY Zenon, <1>1, <1>2, <1>3, <1>4, <1>5, <1>6, <1>7, <1>8, <1>9, <1>10, <1>11, <1>12, <1>13, <1>14, <1>15,
     <1>16, <1>17, <1>18, <1>19, <1>20, <1>21, <1>22, <1>23, <1>24 DEF Step, StepOf

-----------------------------------------------------------------------------
(* The inductive invariant *)

\* The wake-up invariant, one address at a time.
LEMMA WakeupsSplit ==
  NoMissedWakeup <=> /\ \A m \in Mutexes : queue[m] # <<>> => ParkedBit(m)
                     /\ \A c \in Conds : CondWakes(c)
BY Zenon DEF NoMissedWakeup, ParkedBit, CondWakes

\* A step of any thread keeps IInv.
LEMMA StepInv ==
  ASSUME IInv, NEW t \in Threads, StepOf(t)
  PROVE  IInv'
<1>0. TypeOK /\ LocalsOK /\ MutualExclusion /\ PairHeld /\ NoMissedWakeup /\ QueueInv BY Zenon DEF IInv
<1>1. TypeOK' BY Zenon, <1>0, TypeStep
<1>2. LocalsOK' BY Zenon, <1>0, LocalsStep
<1>3. MutualExclusion'
  <2>1. Alone(t) BY Zenon, <1>0, AloneStep
  <2> QED BY Zenon, <1>0, <2>1, OwnerStep, OwnerKept, OwnerTaken, OwnerGiven
<1>4. PairHeld' BY Zenon, <1>0, PairStep
<1>5. NoMissedWakeup'
  <2>1. \A m \in Mutexes : queue'[m] # <<>> => ParkedBit(m)' BY Zenon, <1>0, WakeupsSplit, MutexWakesStep
  <2>2. \A c \in Conds : CondWakes(c)' BY Zenon, <1>0, WakeupsSplit, CondWakesStep
  <2> QED BY Zenon, <2>1, <2>2 DEF NoMissedWakeup, ParkedBit, CondWakes
<1>6. QueueInv' BY Zenon, <1>0, QueueStep
<1> QED BY Zenon, <1>1, <1>2, <1>3, <1>4, <1>5, <1>6 DEF IInv

\* At the start nobody is anywhere.
LEMMA InitInv == Init => IInv
<1> SUFFICES ASSUME Init PROVE IInv OBVIOUS
<1>q. \A a \in Addresses : queue[a] = <<>> BY Zenon DEF Init
<1>p. \A t \in Threads : pc[t] = "out" BY Zenon DEF Init
<1>1. TypeOK
  <2>1. BucketOf \in [Addresses -> Buckets] BY Zenon, SyncAssumption DEF Init
  <2>2. queue \in [Addresses -> Seq(Threads)]
    <3>1. <<>> \in Seq(Threads) OBVIOUS
    <3> QED BY Zenon, <3>1 DEF Init
  <2>3. pc \in [Threads -> PC] BY Zenon DEF Init, PC
  <2> QED BY Zenon, <2>1, <2>2, <2>3 DEF Init, TypeOK
<1>2. LocalsOK BY <1>p, Zenon DEF LocalsOK, LocalOK, Notifying
<1>3. MutualExclusion
  <2>1. \A t \in Threads, m \in Mutexes : ~Owns(t, m) BY Zenon, <1>p DEF Owns, Owning, Notifying
  <2>2. \A m \in Mutexes : "lock" \notin state[m] BY Zenon DEF Init
  <2> QED BY Zenon, <2>1, <2>2 DEF MutualExclusion
<1>4. PairHeld BY <1>p, Zenon DEF PairHeld, HasPair
<1>5. NoMissedWakeup BY Zenon, <1>q DEF NoMissedWakeup, Addresses
<1>6. QueueInv
  <2>1. Distinct(<<>>) /\ \A t \in Threads : ~Holds(<<>>, t) BY DEF Distinct, Holds
  <2>2. QueuesDisjoint BY Zenon, <1>q, <2>1 DEF QueuesDisjoint
  <2>3. QueuedAsleep BY Zenon, <1>p, <1>q, <2>1 DEF QueuedAsleep
  <2> QED BY Zenon, <2>2, <2>3 DEF QueueInv
<1> QED BY Zenon, <1>1, <1>2, <1>3, <1>4, <1>5, <1>6 DEF IInv

\* A step that changes nothing keeps IInv.
LEMMA StutterInv == IInv /\ UNCHANGED vars => IInv'
<1> SUFFICES ASSUME IInv, UNCHANGED vars PROVE IInv' OBVIOUS
<1> USE DEF vars
<1>1. TypeOK' BY Zenon DEF IInv, TypeOK
<1>2. LocalsOK' BY Zenon DEF IInv, LocalsOK, LocalOK
<1>3. MutualExclusion' BY DEF IInv, MutualExclusion, Owns, Owning
<1>4. PairHeld' BY Zenon DEF IInv, PairHeld, HasPair, FirstBucket, BucketOrder, HashFrom, HashTo, ParkedBit
<1>5. NoMissedWakeup' BY Zenon DEF IInv, NoMissedWakeup
<1>6. QueueInv' BY Zenon DEF IInv, QueueInv, QueuesDisjoint, QueuedAsleep, Asleep
<1> QED BY Zenon, <1>1, <1>2, <1>3, <1>4, <1>5, <1>6 DEF IInv

\* IInv holds in every state of the primitives, with any number of threads, mutexes,
\* conditions and buckets, any hash and whatever the threads call.
THEOREM Inductive == Spec => []IInv
<1>1. IInv /\ [Next]_vars => IInv'
  BY Zenon, StepInv, StutterInv DEF Next, StepOf
<1> QED BY <1>1, InitInv, PTL DEF Spec

\* Every variable of the primitives keeps its type.
THEOREM TypeCorrect == Spec => []TypeOK
<1>1. IInv => TypeOK BY Zenon DEF IInv
<1> QED BY <1>1, Inductive, PTL

\* The lock bit of a fast_mutex is set exactly while one thread owns it: between the
\* compare-and-swap of lock or lock_full and the store of unlock.
THEOREM MutexCorrect == Spec => []MutualExclusion
<1>1. IInv => MutualExclusion BY Zenon DEF IInv
<1> QED BY <1>1, Inductive, PTL

\* While a thread is in a queue, the word that unlock, signal and broadcast look at
\* first says so: the fast paths cannot leave a waiter asleep.
THEOREM WakeupsCorrect == Spec => []NoMissedWakeup
<1>1. IInv => NoMissedWakeup BY Zenon DEF IInv
<1> QED BY <1>1, Inductive, PTL

\* unpark_one, signal and unpark_requeue call unpark once for each thread they take
\* off a queue, and that thread has not left park() by then.
THEOREM UnparkCorrect == Spec => []UnparkedOnce
<1>1. IInv => UnparkedOnce
  <2> SUFFICES ASSUME IInv PROVE UnparkedOnce OBVIOUS
  <2>1. \A t \in Threads : \A a \in Addresses : InQueue(t, a) <=> Holds(queue[a], t) BY Zenon DEF InQueue, Holds
  <2>2. ASSUME NEW a \in Addresses, NEW i \in 1..Len(queue[a]) PROVE should_park[queue[a][i]]
    <3>1. queue[a] \in Seq(Threads) BY Zenon DEF IInv, TypeOK
    <3>2. queue[a][i] \in Threads BY <3>1
    <3>3. PICK t \in Threads : t = queue[a][i] BY Zenon, <3>2
    <3>4. Holds(queue[a], t) BY Zenon, <3>3 DEF Holds
    <3> QED BY Zenon, <3>3, <3>4 DEF IInv, QueueInv, QueuedAsleep
  <2>3. \A t \in Threads : pc[t] = "unpark" => target[t] \in Threads BY Zenon DEF IInv, LocalsOK, LocalOK
  <2> QED BY Zenon, <2>1, <2>2, <2>3 DEF IInv, QueueInv, QueuedAsleep, UnparkedOnce
<1> QED BY <1>1, Inductive, PTL

-----------------------------------------------------------------------------
(* The primitives implement Monitor *)

\* The refinement mapping: the owner of a mutex is the one thread that owns it.
OwnerFacts ==
  /\ owner \in [Mutexes -> Threads \cup {NULL}]
  /\ \A m \in Mutexes, t \in Threads : owner[m] = t <=> Owns(t, m)

\* owner names the one owner, where there is one.
LEMMA OwnerValue == MutualExclusion => OwnerFacts
<1> SUFFICES ASSUME MutualExclusion PROVE OwnerFacts OBVIOUS
<1>1. ASSUME NEW m \in Mutexes
      PROVE  owner[m] \in Threads \cup {NULL} /\ \A t \in Threads : owner[m] = t <=> Owns(t, m)
  <2>1. CASE \E t \in Threads : Owns(t, m)
    <3>1. owner[m] = CHOOSE t \in Threads : Owns(t, m) BY Zenon, <2>1 DEF owner
    <3>2. owner[m] \in Threads /\ Owns(owner[m], m) BY Zenon, <2>1, <3>1
    <3> QED BY Zenon, <3>2 DEF MutualExclusion
  <2>2. CASE ~\E t \in Threads : Owns(t, m)
    <3>1. owner[m] = NULL BY Zenon, <2>2 DEF owner
    <3> QED BY Zenon, <2>2, <3>1, SyncAssumption
  <2> QED BY Zenon, <2>1, <2>2
<1>2. owner = [m \in Mutexes |-> owner[m]] BY Zenon DEF owner
<1> QED BY Zenon, <1>1, <1>2 DEF OwnerFacts

\* The same after a step.
LEMMA OwnerValueNext == MutualExclusion' => OwnerFacts'
BY OwnerValue, PTL

\* What a step does to the waiters of the conditions.
Sleeps(t) == \E c \in Conds, m \in Mutexes : Owns(t, m) /\ waiting' = [waiting EXCEPT ![c] = waiting[c] \cup {t}]
Signals == \E c \in Conds : \E u \in waiting[c] : waiting' = [waiting EXCEPT ![c] = waiting[c] \ {u}]
Broadcasts == \E c \in Conds : waiting' = [waiting EXCEPT ![c] = {}]

\* Where the queue of one condition changes, so do its waiters.
LEMMA WaitingSet ==
  ASSUME NEW c \in Conds, NEW S, \A b \in Conds \ {c} : queue'[b] = queue[b],
         S \subseteq Threads, \A u \in Threads : Holds(queue'[c], u) <=> u \in S
  PROVE  waiting' = [waiting EXCEPT ![c] = S]
<1>1. waiting' = [b \in Conds |-> {u \in Threads : Holds(queue'[b], u)}] BY Zenon DEF waiting, InQueue, Holds
<1>2. waiting = [b \in Conds |-> {u \in Threads : Holds(queue[b], u)}] BY Zenon DEF waiting, InQueue, Holds
<1>3. {u \in Threads : Holds(queue'[c], u)} = S OBVIOUS
<1>4. \A b \in Conds \ {c} : {u \in Threads : Holds(queue'[b], u)} = {u \in Threads : Holds(queue[b], u)} OBVIOUS
<1> QED BY <1>1, <1>2, <1>3, <1>4, Zenon

\* Where no condition's queue changes, the waiters stay.
LEMMA WaitingSame ==
  ASSUME \A b \in Conds : queue'[b] = queue[b]
  PROVE  waiting' = waiting
<1>1. waiting' = [b \in Conds |-> {u \in Threads : Holds(queue'[b], u)}] BY Zenon DEF waiting, InQueue, Holds
<1>2. waiting = [b \in Conds |-> {u \in Threads : Holds(queue[b], u)}] BY Zenon DEF waiting, InQueue, Holds
<1> QED BY Zenon, <1>1, <1>2

\* The waiters change when one sleeps, with its mutex, or when some are woken.
LEMMA WaitingStep ==
  ASSUME TypeOK, LocalsOK, QueueInv, NEW t \in Threads, StepOf(t)
  PROVE  waiting' = waiting \/ Sleeps(t) \/ Signals \/ Broadcasts
<1>q. queue \in [Addresses -> Seq(Threads)] /\ Conds \subseteq Addresses /\ Mutexes \cap Conds = {}
  BY Zenon, SyncAssumption DEF TypeOK, Addresses
<1>k. (\A b \in Conds : queue'[b] = queue[b]) => waiting' = waiting BY Zenon, WaitingSame
<1>1. CASE FastLock(t) BY Zenon, <1>1, <1>k DEF FastLock
<1>2. CASE LoadState(t) BY Zenon, <1>2, <1>k DEF LoadState
<1>3. CASE Retry(t) BY Zenon, <1>3, <1>k DEF Retry
<1>4. CASE GrabLock(t) BY Zenon, <1>4, <1>k DEF GrabLock
<1>5. CASE MarkParked(t) BY Zenon, <1>5, <1>k DEF MarkParked
<1>6. CASE AlreadyParked(t) BY Zenon, <1>6, <1>k DEF AlreadyParked
<1>7. CASE Park(t)
  <2>1. mutex[t] \in Mutexes BY Zenon, <1>7 DEF Park, LocalsOK, LocalOK, Notifying
  <2>2. queue' = queue \/ queue' = [queue EXCEPT ![mutex[t]] = Append(queue[mutex[t]], t)] BY Zenon, <1>7 DEF Park, Enqueue
  <2>3. \A b \in Conds : queue'[b] = queue[b] BY Zenon, <1>q, <2>1, <2>2
  <2> QED BY Zenon, <1>k, <2>3
<1>8. CASE Resume(t) BY Zenon, <1>8, <1>k DEF Resume
<1>9. CASE Unpark(t) BY Zenon, <1>9, <1>k DEF Unpark
<1>10. CASE Unlock(t) BY Zenon, <1>10, <1>k DEF Unlock
<1>11. CASE FastUnlock(t) BY Zenon, <1>11, <1>k DEF FastUnlock
<1>12. CASE UnlockFull(t) BY Zenon, <1>12, <1>k DEF UnlockFull
<1>13. CASE UnparkOne(t)
  <2>1. mutex[t] \in Mutexes BY Zenon, <1>13 DEF UnparkOne, LocalsOK, LocalOK, Notifying
  <2>2. queue' = queue \/ queue' = [queue EXCEPT ![mutex[t]] = Tail(queue[mutex[t]])] BY Zenon, <1>13 DEF UnparkOne
  <2>3. \A b \in Conds : queue'[b] = queue[b] BY Zenon, <1>q, <2>1, <2>2
  <2> QED BY Zenon, <1>k, <2>3
<1>14. CASE ParkWaiter(t)
  <2>1. PICK c \in Conds : c = control[t][1] BY Zenon, <1>14 DEF ParkWaiter, LocalsOK, LocalOK
  <2>2. PICK m \in Mutexes : m = mutex[t] BY Zenon, <1>14 DEF ParkWaiter, LocalsOK, LocalOK, Notifying
  <2>3. CASE queue' = queue BY Zenon, <1>k, <2>3
  <2>4. CASE queue' = [queue EXCEPT ![c] = Append(queue[c], t)]
    <3>1. pc[t] = "wait" BY Zenon, <1>14 DEF ParkWaiter
    <3>2. Owns(t, m) /\ ~Holds(queue[c], t)
      BY Zenon, <1>q, <2>2, <3>1 DEF Owns, Owning, QueueInv, QueuedAsleep, Asleep
    <3>3. queue[c] \in Seq(Threads) /\ Distinct(queue[c]) BY Zenon, <1>q DEF QueueInv, QueuesDisjoint
    <3>4. \A u \in Threads : Holds(Append(queue[c], t), u) <=> Holds(queue[c], u) \/ u = t
      BY Zenon, <3>2, <3>3, AppendQueue
    <3>5. queue'[c] = Append(queue[c], t) /\ \A b \in Conds \ {c} : queue'[b] = queue[b] BY Zenon, <1>q, <2>4
    <3>6. \A u \in Threads : Holds(queue[c], u) <=> u \in waiting[c] BY Zenon DEF waiting, InQueue, Holds
    <3>7. PICK S : S = waiting[c] \cup {t} BY Zenon
    <3>8. S \subseteq Threads /\ \A u \in Threads : Holds(queue'[c], u) <=> u \in S
      BY Zenon, <3>4, <3>5, <3>6, <3>7 DEF waiting
    <3>9. waiting' = [waiting EXCEPT ![c] = S] BY <3>5, <3>8, WaitingSet, Zenon
    <3> QED BY <3>2, <3>7, <3>9, Zenon DEF Sleeps
  <2> QED BY Zenon, <1>14, <2>1, <2>3, <2>4 DEF ParkWaiter, Enqueue
<1>15. CASE SignalOne(t)
  <2>1. PICK c \in Conds : c = control[t][1] BY Zenon, <1>15 DEF SignalOne, LocalsOK, LocalOK, Notifying
  <2>2. CASE queue' = queue BY Zenon, <1>k, <2>2
  <2>3. CASE queue[c] # <<>> /\ queue' = [queue EXCEPT ![c] = Tail(queue[c])]
    <3>1. queue[c] \in Seq(Threads) /\ Distinct(queue[c]) BY Zenon, <1>q DEF QueueInv, QueuesDisjoint
    <3>2. /\ Head(queue[c]) \in Threads /\ Holds(queue[c], Head(queue[c]))
          /\ \A u \in Threads : Holds(Tail(queue[c]), u) <=> Holds(queue[c], u) /\ u # Head(queue[c])
      BY Zenon, <2>3, <3>1, TailQueue
    <3>3. PICK h \in Threads : h = Head(queue[c]) BY Zenon, <3>2
    <3>4. queue'[c] = Tail(queue[c]) /\ \A b \in Conds \ {c} : queue'[b] = queue[b] BY Zenon, <1>q, <2>3
    <3>5. \A u \in Threads : Holds(queue[c], u) <=> u \in waiting[c] BY Zenon DEF waiting, InQueue, Holds
    <3>6. PICK S : S = waiting[c] \ {h} BY Zenon
    <3>7. S \subseteq Threads /\ \A u \in Threads : Holds(queue'[c], u) <=> u \in S
      BY Zenon, <3>2, <3>3, <3>4, <3>5, <3>6 DEF waiting
    <3>8. waiting' = [waiting EXCEPT ![c] = S] BY Zenon, <3>4, <3>7, WaitingSet
    <3>9. h \in waiting[c] BY Zenon, <3>2, <3>3, <3>5
    <3> QED BY <3>6, <3>8, <3>9, Zenon DEF Signals
  <2> QED BY Zenon, <1>15, <2>1, <2>2, <2>3 DEF SignalOne
<1>16. CASE LockFirst(t) BY Zenon, <1>16, <1>k DEF LockFirst
<1>17. CASE LockSecond(t) BY Zenon, <1>17, <1>k DEF LockSecond
<1>18. CASE Validate(t) BY Zenon, <1>18, <1>k DEF Validate
<1>19. CASE MakeParkedIfLocked(t) BY Zenon, <1>19, <1>k DEF MakeParkedIfLocked
<1>20. CASE Requeue(t)
  <2> DEFINE m == control[t][2]
  <2>1. PICK c \in Conds : c = control[t][1] BY Zenon, <1>20, RequeuePair
  <2>2. m \in Mutexes BY Zenon, <1>20, RequeuePair
  <2>3. queue' = [queue EXCEPT ![c] = <<>>, ![m] = @ \o Moved(t)] BY Zenon, <1>20, <2>1, RequeuePair
  <2> HIDE DEF m
  <2>4. queue'[c] = <<>> /\ \A b \in Conds \ {c} : queue'[b] = queue[b] BY Zenon, <1>q, <2>2, <2>3
  <2>5. \A u \in Threads : Holds(queue'[c], u) <=> u \in {} BY <2>4 DEF Holds
  <2>6. waiting' = [waiting EXCEPT ![c] = {}] BY <2>4, <2>5, WaitingSet, Zenon
  <2> QED BY <2>6, Zenon DEF Broadcasts
<1>21. CASE \E m \in Mutexes : Lock(t, m) BY Zenon, <1>21, <1>k DEF Lock
<1>22. CASE \E c \in Conds : Wait(t, c) BY Zenon, <1>22, <1>k DEF Wait
<1>23. CASE \E c \in Conds : Signal(t, c) BY Zenon, <1>23, <1>k DEF Signal, Notify
<1>24. CASE \E c \in Conds : Broadcast(t, c) BY Zenon, <1>24, <1>k DEF Broadcast, Notify
<1> QED
  BY ZenonT(30), <1>1, <1>2, <1>3, <1>4, <1>5, <1>6, <1>7, <1>8, <1>9, <1>10, <1>11, <1>12, <1>13, <1>14, <1>15,
     <1>16, <1>17, <1>18, <1>19, <1>20, <1>21, <1>22, <1>23, <1>24 DEF Step, StepOf

\* Every step of the primitives is a step of Monitor, or changes nothing there.
LEMMA MonitorStep ==
  ASSUME IInv, NEW t \in Threads, StepOf(t)
  PROVE  M!Next \/ UNCHANGED M!vars
<1>0. /\ TypeOK /\ LocalsOK /\ MutualExclusion /\ QueueInv /\ MutualExclusion'
  <2>1. IInv' BY Zenon, StepInv
  <2> QED BY Zenon, <2>1 DEF IInv
<1>1. OwnerFacts /\ OwnerFacts' BY Zenon, <1>0, OwnerValue, OwnerValueNext
<1>2. Alone(t) BY Zenon, <1>0, AloneStep
<1>f. /\ owner \in [Mutexes -> Threads \cup {NULL}] /\ owner' \in [Mutexes -> Threads \cup {NULL}]
      /\ \A m \in Mutexes, u \in Threads : (owner[m] = u <=> Owns(u, m)) /\ (owner'[m] = u <=> Owns(u, m)')
      /\ NULL \notin Threads
  BY Zenon, <1>1, SyncAssumption DEF OwnerFacts
<1>3. CASE Kept(t)
  <2>1. \A u \in Threads, m \in Mutexes : Owns(u, m)' <=> Owns(u, m) BY Zenon, <1>0, <1>2, <1>3, OwnerKept
  <2>2. \A m \in Mutexes : owner'[m] = owner[m] BY Zenon, <1>f, <2>1
  <2>3. owner' = owner BY <1>f, <2>2
  <2>4. CASE waiting' = waiting BY Zenon, <2>3, <2>4 DEF M!vars
  <2>5. CASE Sleeps(t)
    <3>1. PICK c \in Conds, m \in Mutexes : Owns(t, m) /\ waiting' = [waiting EXCEPT ![c] = waiting[c] \cup {t}]
      BY <2>5, Zenon DEF Sleeps
    <3>2. M!Sleep(t, m, c) BY Zenon, <1>f, <2>3, <3>1 DEF M!Sleep
    <3> QED BY Zenon, <3>2 DEF M!Next
  <2>6. CASE Signals BY <2>3, <2>6, Zenon DEF Signals, M!Signal, M!Next
  <2>7. CASE Broadcasts BY <2>3, <2>7, Zenon DEF Broadcasts, M!Broadcast, M!Next
  <2> QED BY Zenon, <1>0, <2>4, <2>5, <2>6, <2>7, WaitingStep
<1>4. CASE Taken(t) /\ ~Asleep(t) /\ queue' = queue
  <2>1. \A u \in Threads, m \in Mutexes : Owns(u, m)' <=> Owns(u, m) \/ (u = t /\ m = mutex[t])
    BY Zenon, <1>0, <1>2, <1>4, OwnerTaken
  <2>2. PICK m \in Mutexes : m = mutex[t] /\ ~LockBit(m) BY Zenon, <1>4 DEF Taken
  <2>3. \A u \in Threads : ~Owns(u, m) BY Zenon, <1>0, <2>2 DEF MutualExclusion, LockBit
  <2>4. owner[m] = NULL BY Zenon, <1>f, <2>3
  <2>5. owner'[m] = t /\ \A x \in Mutexes \ {m} : owner'[x] = owner[x] BY <1>f, <2>1, <2>2
  <2>6. owner' = [owner EXCEPT ![m] = t] BY Zenon, <1>f, <2>5
  <2>7. waiting' = waiting BY Zenon, <1>4, WaitingSame
  <2>8. \A c \in Conds : t \notin waiting[c]
    BY Zenon, <1>0, <1>4 DEF waiting, InQueue, QueueInv, QueuedAsleep, Holds, Addresses
  <2>9. M!Lock(t, m) BY Zenon, <2>4, <2>6, <2>7, <2>8 DEF M!Lock
  <2> QED BY Zenon, <2>9 DEF M!Next
<1>5. CASE Given(t) /\ \A c \in Conds : queue'[c] = queue[c]
  <2>1. \A u \in Threads, m \in Mutexes : Owns(u, m)' <=> Owns(u, m) /\ u # t
    BY Zenon, <1>0, <1>2, <1>5, OwnerGiven
  <2>2. PICK m \in Mutexes : m = mutex[t] BY Zenon, <1>5 DEF Given
  <2>3. Owns(t, m) /\ \A x \in Mutexes \ {m} : ~Owns(t, x) BY Zenon, <1>5, <2>2 DEF Given, Owns
  <2>4. \A u \in Threads : ~Owns(u, m)' BY Zenon, <1>0, <2>1, <2>3 DEF MutualExclusion
  <2>5. owner[m] = t /\ owner'[m] = NULL BY Zenon, <1>f, <2>3, <2>4
  <2>6. \A x \in Mutexes \ {m} : owner'[x] = owner[x] BY ZenonT(30), <1>f, <2>1, <2>3
  <2>7. owner' = [owner EXCEPT ![m] = NULL] BY Zenon, <1>f, <2>5, <2>6
  <2>8. waiting' = waiting BY Zenon, <1>5, WaitingSame
  <2>9. M!Unlock(t, m) BY Zenon, <2>5, <2>7, <2>8 DEF M!Unlock
  <2> QED BY Zenon, <2>9 DEF M!Next
<1> QED BY Zenon, <1>0, <1>3, <1>4, <1>5, OwnerStep

\* fast_mutex and fast_cond implement Monitor: lock, unlock, wait, signal and broadcast
\* behave as a mutex with conditions whatever the queues and buckets do.
THEOREM MonitorImplemented == Spec => ImplementsMonitor
<1>1. Init => M!Init
  <2> SUFFICES ASSUME Init PROVE M!Init OBVIOUS
  <2>1. \A t \in Threads, m \in Mutexes : ~Owns(t, m) BY Zenon DEF Init, Owns, Owning, Notifying
  <2>2. owner = [m \in Mutexes |-> NULL] BY Zenon, <2>1 DEF owner
  <2>3. \A t \in Threads, c \in Conds : ~InQueue(t, c)
    <3>1. \A c \in Conds : queue[c] = <<>> BY Zenon DEF Init, Addresses
    <3> QED BY <3>1 DEF InQueue
  <2>4. waiting = [c \in Conds |-> {}] BY Zenon, <2>3 DEF waiting
  <2> QED BY Zenon, <2>2, <2>4 DEF M!Init
<1>2. IInv /\ [Next]_vars => [M!Next]_M!vars
  <2>1. ASSUME IInv, Next PROVE [M!Next]_M!vars
    <3>1. PICK t \in Threads : StepOf(t) BY Zenon, <2>1 DEF Next, StepOf
    <3> QED BY Zenon, <2>1, <3>1, MonitorStep
  <2>2. ASSUME UNCHANGED vars PROVE UNCHANGED M!vars
    <3>1. queue' = queue /\ pc' = pc /\ back' = back /\ mutex' = mutex BY Zenon, <2>2 DEF vars
    <3>2. waiting' = waiting BY Zenon, <3>1, WaitingSame
    <3>3. owner' = owner BY ZenonT(30), <3>1 DEF owner, Owns, Owning
    <3> QED BY Zenon, <3>2, <3>3 DEF M!vars
  <2> QED BY Zenon, <2>1, <2>2
<1> QED BY <1>1, <1>2, Inductive, PTL DEF Spec, ImplementsMonitor, M!Spec
=============================================================================
