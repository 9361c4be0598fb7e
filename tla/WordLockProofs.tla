--------------------------- MODULE WordLockProofs ---------------------------
(***************************************************************************)
(* word_lock for any number of threads: it excludes, as a Monitor does,    *)
(* and its list of waiters never leads to a node whose thread has gone.    *)
(*                                                                         *)
(* The invariant describes the list through a sequence q of threads, from  *)
(* the newest waiter q[lo] to the oldest q[hi].  The list is not of one    *)
(* piece: p is the place whose tail field an earlier walk has set, so the  *)
(* nodes from p on have their prev fields; e is the head the walker (if    *)
(* any) set out from, and c how far it has come.  What was pushed since is *)
(* before e and has neither.                                               *)
(***************************************************************************)
EXTENDS WordLock, TLAPS

\* What a pointer of a node or of the word may hold, and the values of the word.
Nodes == Threads \cup {NULL}
Words == [lock : BOOLEAN, queue_lock : BOOLEAN, head : Nodes]
Labels == {"out", "lock", "load", "full", "parked", "in", "unlock_full", "lock_queue",
           "walk", "decide", "unpark"}
\* The types of the state.
TypeOK ==
  /\ state \in Words
  /\ next \in [Threads -> Nodes]
  /\ prev \in [Threads -> Nodes]
  /\ tail \in [Threads -> Nodes]
  /\ should_park \in [Threads -> BOOLEAN]
  /\ pc \in [Threads -> Labels]
  /\ expected \in [Threads -> Words]
  /\ current \in [Threads -> Nodes]

\* t holds the lock; t holds the queue lock.
Inside(t) == pc[t] = "in"
Walking(t) == pc[t] \in {"walk", "decide"}

\* The two bits of the word say whether somebody holds what they stand for, and at
\* most one thread does.
LockInv ==
  /\ state.lock <=> \E t \in Threads : Inside(t)
  /\ \A t, u \in Threads : Inside(t) /\ Inside(u) => t = u
QueueLockInv ==
  /\ state.queue_lock <=> \E t \in Threads : Walking(t)
  /\ \A t, u \in Threads : Walking(t) /\ Walking(u) => t = u

\* The list from the head of the word, in which every thread is parked and occurs once.
Queue(q, lo, hi) ==
  /\ state.head = IF lo <= hi THEN q[lo] ELSE NULL
  /\ \A i \in lo..hi : q[i] \in Threads /\ Asleep(q[i])
  /\ \A i, j \in lo..hi : q[i] = q[j] => i = j
  /\ \A i \in lo..hi - 1 : next[q[i]] = q[i + 1]
\* The tail and prev fields, before, during and after a walk.
Processed(q, lo, hi, p, e, c) ==
  lo <= hi =>
  /\ p \in lo..hi /\ e \in lo..p /\ c \in e..p
  /\ \A i \in lo..p - 1 : tail[q[i]] = NULL
  /\ tail[q[p]] = q[hi]
  /\ \A i \in lo..e : prev[q[i]] = NULL
  /\ \A i \in e + 1..c : prev[q[i]] = q[i - 1]
  /\ \A i \in p + 1..hi : prev[q[i]] = q[i - 1]
\* Where the thread that holds the queue lock is in the list.
WalkInv(q, lo, hi, p, e, c) ==
  /\ \A t \in Threads : Walking(t) => lo <= hi /\ expected[t].head = q[e]
  /\ \A t \in Threads : At(t, "walk") => current[t] = q[c]
  /\ \A t \in Threads : At(t, "decide") => e = p /\ current[t] = q[hi]
  /\ ~state.queue_lock => e = p
\* The list and the walk through it.
ListInv(q, lo, hi, p, e, c) ==
  Queue(q, lo, hi) /\ Processed(q, lo, hi, p, e, c) /\ WalkInv(q, lo, hi, p, e, c)
\* A thread that is about to be unparked sleeps, is out of the list, and is one
\* thread's alone to unpark.
UnparkInv(q, lo, hi) ==
  \A t \in Threads : At(t, "unpark") =>
    /\ current[t] \in Threads /\ Asleep(current[t])
    /\ \A i \in lo..hi : q[i] # current[t]
    /\ \A u \in Threads : At(u, "unpark") /\ current[u] = current[t] => u = t
\* There is such a list.
QueueInv ==
  \E q \in [Int -> Nodes], lo, hi, p, e, c \in Int :
    ListInv(q, lo, hi, p, e, c) /\ UnparkInv(q, lo, hi)
\* The inductive invariant.
Inv == TypeOK /\ LockInv /\ QueueLockInv /\ QueueInv

-----------------------------------------------------------------------------
(* Steps of a thread that has no part in the list *)

\* The invariant holds at the start: the list is empty.
LEMMA InitInv == Init => Inv
<1> SUFFICES ASSUME Init PROVE Inv OBVIOUS
<1>1. TypeOK
  BY NullNotThread DEF Init, TypeOK, Words, Nodes, Labels, Unlocked, Word
<1>2. \A t \in Threads : pc[t] = "out"
  BY DEF Init
<1>3. LockInv /\ QueueLockInv
  BY <1>2 DEF Init, LockInv, QueueLockInv, Inside, Walking, Unlocked, Word
<1>4. [i \in Int |-> NULL] \in [Int -> Nodes]
  BY DEF Nodes
<1>5. ListInv([i \in Int |-> NULL], 1, 0, 0, 0, 0)
  BY <1>2 DEF Init, ListInv, Queue, Processed, WalkInv, Walking, At, Unlocked, Word
<1>6. UnparkInv([i \in Int |-> NULL], 1, 0)
  BY <1>2 DEF UnparkInv, At
<1> QED BY <1>1, <1>3, <1>4, <1>5, <1>6 DEF Inv, QueueInv

\* A thread that is not parked, or was told to go on, is in no list; at one of these
\* labels it walks none and has nobody to unpark.
Idle == {"out", "lock", "load", "full", "in", "unlock_full", "lock_queue", "parked"}

\* Such a thread's steps leave the list as it is, and who walks it.
LEMMA QueueFrame ==
  ASSUME Inv, NEW t \in Threads, pc[t] \in Idle, ~Asleep(t),
         pc' \in [Threads -> Labels], pc'[t] \in Idle \ {"parked"},
         state'.head = state.head, state'.queue_lock = state.queue_lock,
         UNCHANGED <<nodes, should_park, current>>,
         \A u \in Threads \ {t} : pc'[u] = pc[u] /\ expected'[u] = expected[u]
  PROVE  QueueInv' /\ \A u \in Threads : Walking(u)' <=> Walking(u)
<1>1. UNCHANGED <<next, prev, tail>>
  BY DEF nodes
<1>3. \A u \in Threads : \A l \in Labels \ Idle : pc'[u] = l <=> pc[u] = l
  BY DEF Idle
<1>4. \A u \in Threads : (Walking(u)' <=> Walking(u)) /\ (Asleep(u)' <=> Asleep(u))
  BY <1>3 DEF Walking, Asleep, Labels, Idle
<1>5. \A u \in Threads : (At(u, "walk")' <=> At(u, "walk")) /\ (At(u, "decide")' <=> At(u, "decide"))
                        /\ (At(u, "unpark")' <=> At(u, "unpark"))
  BY <1>3 DEF At, Labels, Idle
<1>6. \A u \in Threads : Walking(u) => expected'[u] = expected[u]
  BY DEF Walking, Idle
<1>8. PICK q \in [Int -> Nodes], lo \in Int, hi \in Int, p \in Int, e \in Int, c \in Int :
         ListInv(q, lo, hi, p, e, c) /\ UnparkInv(q, lo, hi)
  BY DEF Inv, QueueInv
<1>9. Queue(q, lo, hi)'
  BY <1>1, <1>4, <1>8 DEF ListInv, Queue
<1>10. Processed(q, lo, hi, p, e, c)'
  BY <1>1, <1>8 DEF ListInv, Processed
<1>11. WalkInv(q, lo, hi, p, e, c)'
  BY <1>4, <1>5, <1>6, <1>8 DEF ListInv, WalkInv
<1>12. UnparkInv(q, lo, hi)'
  BY <1>4, <1>5, <1>8 DEF UnparkInv
<1> QED BY <1>4, <1>9, <1>10, <1>11, <1>12 DEF QueueInv, ListInv

\* A step to another label, with neither bit of the word changed, keeps the invariant.
LEMMA IdleStep ==
  ASSUME Inv, NEW t \in Threads, pc[t] \in Idle \ {"in"}, ~Asleep(t),
         NEW l \in Idle \ {"in", "parked"}, Goto(t, l),
         expected' = expected \/ Load(t), UNCHANGED <<state, nodes, should_park, current>>
  PROVE  Inv'
<1>1. TypeOK'
  BY DEF Inv, TypeOK, Goto, Load, nodes, Labels, Idle
<1>2. \A u \in Threads \ {t} : pc'[u] = pc[u] /\ expected'[u] = expected[u]
  BY DEF Inv, TypeOK, Goto, Load
<1>3. pc'[t] = l
  BY DEF Inv, TypeOK, Goto
<1>4. QueueInv' /\ \A u \in Threads : Walking(u)' <=> Walking(u)
  BY <1>1, <1>2, <1>3, QueueFrame DEF TypeOK
<1>5. \A u \in Threads : Inside(u)' <=> Inside(u)
  BY <1>2, <1>3 DEF Inside, Idle
<1> QED BY <1>1, <1>4, <1>5 DEF Inv, LockInv, QueueLockInv

\* So does taking the lock when its bit is not set.
LEMMA TakeLock ==
  ASSUME Inv, NEW t \in Threads, pc[t] \in Idle, ~Asleep(t), ~state.lock, Goto(t, "in"), state' \in Words,
         state'.lock, state'.head = state.head, state'.queue_lock = state.queue_lock,
         UNCHANGED <<nodes, should_park, expected, current>>
  PROVE  Inv'
<1>1. TypeOK'
  BY DEF Inv, TypeOK, Goto, nodes, Labels
<1>2. \A u \in Threads \ {t} : pc'[u] = pc[u] /\ expected'[u] = expected[u]
  BY DEF Inv, TypeOK, Goto
<1>3. pc'[t] = "in"
  BY DEF Inv, TypeOK, Goto
<1>5. QueueInv' /\ \A u \in Threads : Walking(u)' <=> Walking(u)
  BY <1>1, <1>2, <1>3, QueueFrame DEF TypeOK, Idle, Asleep
<1>6. \A u \in Threads : Inside(u)' <=> u = t
  BY <1>2, <1>3 DEF Inside, Inv, LockInv
<1> QED BY <1>1, <1>5, <1>6 DEF Inv, LockInv, QueueLockInv

\* unlock clears the lock bit and leaves the list alone.
LEMMA UnlockInv == ASSUME Inv, NEW t \in Threads, Unlock(t) PROVE Inv'
<1> DEFINE l == IF NeedsWakeup(state) THEN "unlock_full" ELSE "out"
<1>0. pc[t] = "in" /\ pc' = [pc EXCEPT ![t] = l] /\ l \in {"unlock_full", "out"}
      /\ state' = [state EXCEPT !.lock = FALSE] /\ UNCHANGED <<nodes, should_park, expected, current>>
  BY DEF Unlock, At, Goto
<1> HIDE DEF l
<1>1. TypeOK'
  BY <1>0 DEF Inv, TypeOK, nodes, Labels, Words
<1>2. \A u \in Threads \ {t} : pc'[u] = pc[u] /\ expected'[u] = expected[u]
  BY <1>0 DEF Inv, TypeOK
<1>3. pc'[t] = l
  BY <1>0 DEF Inv, TypeOK
<1>4. ~state'.lock /\ state'.head = state.head /\ state'.queue_lock = state.queue_lock
  BY <1>0 DEF Inv, TypeOK, Words
<1>5. QueueInv' /\ \A u \in Threads : Walking(u)' <=> Walking(u)
  BY <1>0, <1>1, <1>2, <1>3, <1>4, QueueFrame DEF TypeOK, Idle, Asleep
<1>6. \A u \in Threads : ~Inside(u)'
  BY <1>0, <1>2, <1>3 DEF Inside, Inv, LockInv
<1> QED BY <1>1, <1>4, <1>5, <1>6 DEF Inv, LockInv, QueueLockInv

\* The steps of lock, lock_full and unlock that do not touch the list.
LEMMA IdleStepsInv ==
  ASSUME Inv, NEW t \in Threads,
         Lock(t) \/ FastLock(t) \/ LoadForLock(t) \/ Retry(t) \/ GrabLock(t) \/ LoadForUnlock(t)
         \/ Resume(t)
  PROVE  Inv'
<1>1. CASE Lock(t)
  BY <1>1, IdleStep DEF Lock, At, Idle, Asleep
<1>2. CASE FastLock(t)
  <2>1. CASE state = Unlocked /\ state' = Word(TRUE, FALSE, NULL) /\ Goto(t, "in")
    <3>1. /\ ~state.lock /\ state' \in Words /\ state'.lock
          /\ state'.head = state.head /\ state'.queue_lock = state.queue_lock
      BY <2>1 DEF Unlocked, Word, Words, Nodes
    <3> QED BY <1>2, <2>1, <3>1, TakeLock DEF FastLock, At, Idle, Asleep
  <2>2. CASE Goto(t, "load") /\ UNCHANGED state
    BY <1>2, <2>2, IdleStep DEF FastLock, At, Idle, Asleep
  <2> QED BY <1>2, <2>1, <2>2 DEF FastLock
<1>3. CASE LoadForLock(t)
  BY <1>3, IdleStep DEF LoadForLock, At, Idle, Asleep
<1>4. CASE Retry(t)
  <2>1. Goto(t, "full")
    BY <1>4 DEF Retry, At, Goto, Inv, TypeOK
  <2> QED BY <1>4, <2>1, IdleStep DEF Retry, At, Idle, Asleep
<1>5. CASE GrabLock(t)
  <2>1. /\ ~state.lock /\ state' \in Words /\ state'.lock
        /\ state'.head = state.head /\ state'.queue_lock = state.queue_lock
    BY <1>5 DEF GrabLock, Inv, TypeOK, Words
  <2> QED BY <1>5, <2>1, TakeLock DEF GrabLock, At, Idle, Asleep
<1>6. CASE LoadForUnlock(t)
  BY <1>6, IdleStep DEF LoadForUnlock, At, Idle, Asleep
<1>7. CASE Resume(t)
  BY <1>7, IdleStep DEF Resume, At, Idle, Asleep
<1> QED BY <1>1, <1>2, <1>3, <1>4, <1>5, <1>6, <1>7

-----------------------------------------------------------------------------
(* The list of waiters *)

\* lock_full's push: the new node is the list's head, and its own tail if it is alone.
LEMMA PushNodeInv == ASSUME Inv, NEW t \in Threads, PushNode(t) PROVE Inv'
<1> DEFINE head == state.head
<1>0. /\ pc[t] = "full" /\ state.lock /\ pc' = [pc EXCEPT ![t] = "parked"]
      /\ next' = [next EXCEPT ![t] = head] /\ prev' = [prev EXCEPT ![t] = NULL]
      /\ tail' = [tail EXCEPT ![t] = TailOfNew(t, head)]
      /\ should_park' = [should_park EXCEPT ![t] = TRUE]
      /\ UNCHANGED <<expected, current>>
  BY DEF PushNode, At, Goto
<1>1. /\ state' \in Words /\ state'.lock = state.lock /\ state'.queue_lock = state.queue_lock
      /\ state'.head = t /\ head \in Nodes
  BY DEF PushNode, Inv, TypeOK, Words, Nodes
<1> HIDE DEF head
<1>2. TypeOK'
  BY <1>0, <1>1 DEF Inv, TypeOK, Labels, TailOfNew, Nodes
<1>3. \A u \in Threads \ {t} : /\ pc'[u] = pc[u] /\ next'[u] = next[u] /\ prev'[u] = prev[u]
                               /\ tail'[u] = tail[u] /\ should_park'[u] = should_park[u]
  BY <1>0 DEF Inv, TypeOK
<1>4. /\ pc'[t] = "parked" /\ next'[t] = head /\ prev'[t] = NULL /\ should_park'[t]
      /\ tail'[t] = TailOfNew(t, head)
  BY <1>0 DEF Inv, TypeOK
<1>5. \A u \in Threads : (Inside(u)' <=> Inside(u)) /\ (Walking(u)' <=> Walking(u))
  BY <1>0, <1>3, <1>4 DEF Inside, Walking
<1>6. LockInv' /\ QueueLockInv'
  BY <1>1, <1>5 DEF Inv, LockInv, QueueLockInv
<1>7. \A u \in Threads : (At(u, "walk")' <=> At(u, "walk")) /\ (At(u, "decide")' <=> At(u, "decide"))
                        /\ (At(u, "unpark")' <=> At(u, "unpark"))
  BY <1>0, <1>3, <1>4 DEF At
<1>8. Asleep(t)' /\ ~Asleep(t) /\ \A u \in Threads : Asleep(u) => Asleep(u)'
  BY <1>0, <1>3, <1>4 DEF Asleep
<1>9. PICK q \in [Int -> Nodes], lo \in Int, hi \in Int, p \in Int, e \in Int, c \in Int :
         ListInv(q, lo, hi, p, e, c) /\ UnparkInv(q, lo, hi)
  BY DEF Inv, QueueInv
<1>10. \A i \in lo..hi : q[i] \in Threads /\ q[i] # t
  BY <1>8, <1>9 DEF ListInv, Queue
<1>11. CASE lo > hi
  <2> DEFINE r == [q EXCEPT ![0] = t]
  <2>0. r \in [Int -> Nodes] /\ r[0] = t
    BY DEF Nodes
  <2>1. head = NULL /\ \A u \in Threads : ~Walking(u)
    BY <1>9, <1>11 DEF ListInv, Queue, WalkInv, head
  <2>2. TailOfNew(t, head) = t
    BY <2>1 DEF TailOfNew
  <2> HIDE DEF r
  <2>3. Queue(r, 0, 0)'
    BY <1>1, <1>8, <2>0 DEF Queue
  <2>4. Processed(r, 0, 0, 0, 0, 0)'
    BY <1>4, <2>0, <2>2 DEF Processed
  <2>5. WalkInv(r, 0, 0, 0, 0, 0)'
    BY <1>5, <2>1 DEF WalkInv, Walking, At
  <2>6. UnparkInv(r, 0, 0)'
    BY <1>0, <1>7, <1>8, <1>9, <2>0 DEF UnparkInv
  <2> QED BY <1>2, <1>6, <2>0, <2>3, <2>4, <2>5, <2>6 DEF Inv, QueueInv, ListInv
<1>12. CASE lo <= hi
  <2> DEFINE r == [q EXCEPT ![lo - 1] = t]
  <2>0. r \in [Int -> Nodes] /\ r[lo - 1] = t /\ \A i \in lo..hi : r[i] = q[i]
    BY DEF Nodes
  <2>1. head = q[lo] /\ head # NULL
    BY <1>9, <1>10, <1>12, NullNotThread DEF ListInv, Queue, head
  <2>2. TailOfNew(t, head) = NULL
    BY <2>1 DEF TailOfNew
  <2> HIDE DEF r
  <2>3. Queue(r, lo - 1, hi)'
    <3>1. \A i \in lo - 1..hi : i = lo - 1 \/ i \in lo..hi
      BY <1>12
    <3>2. (state'.head = IF lo - 1 <= hi THEN r[lo - 1] ELSE NULL)
      BY <1>1, <1>12, <2>0
    <3>3. \A i \in lo - 1..hi : r[i] \in Threads /\ Asleep(r[i])'
      BY <1>8, <1>9, <1>10, <2>0, <3>1 DEF ListInv, Queue
    <3>4. \A i, j \in lo - 1..hi : r[i] = r[j] => i = j
      BY <1>9, <1>10, <2>0, <3>1 DEF ListInv, Queue
    <3>5. \A i \in lo - 1..hi - 1 : next'[r[i]] = r[i + 1]
      <4>1. \A i \in lo..hi - 1 : next'[r[i]] = r[i + 1]
        BY <1>3, <1>9, <1>10, <2>0 DEF ListInv, Queue
      <4>2. next'[r[lo - 1]] = r[lo]
        BY <1>4, <1>12, <2>0, <2>1
      <4> QED BY <4>1, <4>2
    <3> QED BY <3>2, <3>3, <3>4, <3>5 DEF Queue
  <2>4. Processed(r, lo - 1, hi, p, e, c)'
    <3>1. p \in lo..hi /\ e \in lo..p /\ c \in e..p
      BY <1>9, <1>12 DEF ListInv, Processed
    <3>2. \A i \in lo - 1..p - 1 : tail'[r[i]] = NULL
      <4>1. \A i \in lo..p - 1 : tail'[r[i]] = NULL
        BY <1>3, <1>9, <1>10, <1>12, <2>0, <3>1 DEF ListInv, Processed
      <4>2. tail'[r[lo - 1]] = NULL
        BY <1>4, <2>0, <2>2
      <4> QED BY <4>1, <4>2
    <3>3. tail'[r[p]] = r[hi]
      BY <1>3, <1>9, <1>10, <1>12, <2>0, <3>1 DEF ListInv, Processed
    <3>4. \A i \in lo - 1..e : prev'[r[i]] = NULL
      <4>1. \A i \in lo..e : prev'[r[i]] = NULL
        BY <1>3, <1>9, <1>10, <1>12, <2>0, <3>1 DEF ListInv, Processed
      <4>2. prev'[r[lo - 1]] = NULL
        BY <1>4, <2>0
      <4> QED BY <4>1, <4>2
    <3>5. \A i \in e + 1..c : prev'[r[i]] = r[i - 1]
      BY <1>3, <1>9, <1>10, <1>12, <2>0, <3>1 DEF ListInv, Processed
    <3>6. \A i \in p + 1..hi : prev'[r[i]] = r[i - 1]
      BY <1>3, <1>9, <1>10, <1>12, <2>0, <3>1 DEF ListInv, Processed
    <3> QED BY <3>1, <3>2, <3>3, <3>4, <3>5, <3>6 DEF Processed
  <2>5. WalkInv(r, lo - 1, hi, p, e, c)'
    BY <1>0, <1>1, <1>5, <1>7, <1>9, <1>12, <2>0 DEF ListInv, Processed, WalkInv
  <2>6. UnparkInv(r, lo - 1, hi)'
    BY <1>0, <1>7, <1>8, <1>9, <2>0 DEF UnparkInv
  <2> QED BY <1>2, <1>6, <2>0, <2>3, <2>4, <2>5, <2>6 DEF Inv, QueueInv, ListInv
<1> QED BY <1>11, <1>12

\* unlock_full takes the queue lock, and starts from the head it read.
LEMMA LockQueueInv == ASSUME Inv, NEW t \in Threads, LockQueue(t) PROVE Inv'
<1>0. pc[t] = "lock_queue" /\ UNCHANGED <<nodes, should_park, next, prev, tail>>
  BY DEF LockQueue, At, nodes
<1>1. CASE ~NeedsWakeup(expected[t]) /\ Goto(t, "out") /\ UNCHANGED <<state, expected, current>>
  BY <1>0, <1>1, IdleStep DEF Idle, Asleep
<1>2. CASE NeedsWakeup(expected[t]) /\ state # expected[t] /\ Load(t)
           /\ UNCHANGED <<state, pc, current>>
  <2>1. Goto(t, "lock_queue")
    BY <1>0, <1>2 DEF Goto, Inv, TypeOK
  <2> QED BY <1>0, <1>2, <2>1, IdleStep DEF Idle, Asleep
<1>3. CASE /\ NeedsWakeup(expected[t]) /\ state = expected[t]
           /\ state' = [state EXCEPT !.queue_lock = TRUE]
           /\ current' = [current EXCEPT ![t] = expected[t].head]
           /\ Goto(t, "walk") /\ UNCHANGED expected
  <2>1. /\ state' \in Words /\ state'.lock = state.lock /\ state'.queue_lock
        /\ state'.head = state.head /\ state.head # NULL /\ ~state.queue_lock
    BY <1>3 DEF Inv, TypeOK, Words, NeedsWakeup
  <2>2. TypeOK'
    BY <1>0, <1>3, <2>1 DEF Inv, TypeOK, Goto, Labels, Words
  <2>3. \A u \in Threads \ {t} : pc'[u] = pc[u] /\ current'[u] = current[u]
    BY <1>3 DEF Inv, TypeOK, Goto
  <2>4. pc'[t] = "walk" /\ current'[t] = state.head /\ expected[t].head = state.head
    BY <1>3 DEF Inv, TypeOK, Goto
  <2>5. \A u \in Threads : ~Walking(u) /\ (Walking(u)' <=> u = t)
    BY <2>1, <2>3, <2>4 DEF Inv, QueueLockInv, Walking
  <2>6. \A u \in Threads : (Inside(u)' <=> Inside(u)) /\ (Asleep(u)' <=> Asleep(u))
    BY <1>0, <2>3, <2>4 DEF Inside, Asleep
  <2>7. LockInv' /\ QueueLockInv'
    BY <2>1, <2>5, <2>6 DEF Inv, LockInv, QueueLockInv
  <2>8. PICK q \in [Int -> Nodes], lo \in Int, hi \in Int, p \in Int, e \in Int, c \in Int :
           ListInv(q, lo, hi, p, e, c) /\ UnparkInv(q, lo, hi)
    BY DEF Inv, QueueInv
  <2>9. lo <= hi /\ state.head = q[lo]
    BY <2>1, <2>8 DEF ListInv, Queue
  <2>10. Queue(q, lo, hi)'
    BY <1>0, <2>1, <2>6, <2>8 DEF ListInv, Queue
  <2>11. Processed(q, lo, hi, p, lo, lo)'
    <3>1. e = p
      BY <2>1, <2>8 DEF ListInv, WalkInv
    <3> QED BY <1>0, <2>8, <2>9, <3>1 DEF ListInv, Processed
  <2>12. WalkInv(q, lo, hi, p, lo, lo)'
    <3>1. \A u \in Threads : ~At(u, "decide")' /\ (At(u, "walk")' <=> u = t)
      BY <2>4, <2>5 DEF Walking, At
    <3> QED BY <1>3, <2>1, <2>4, <2>5, <2>9, <3>1 DEF WalkInv
  <2>13. UnparkInv(q, lo, hi)'
    BY <1>0, <2>3, <2>4, <2>6, <2>8 DEF UnparkInv, At
  <2> QED BY <2>2, <2>7, <2>8, <2>10, <2>11, <2>12, <2>13 DEF Inv, QueueInv, ListInv
<1> QED BY <1>1, <1>2, <1>3 DEF LockQueue

\* One step of the walk: it sets a prev field, or finds a tail and copies it to the head.
LEMMA WalkStepInv == ASSUME Inv, NEW t \in Threads, Walk(t) PROVE Inv'
<1> DEFINE node == current[t]
<1>0. pc[t] = "walk" /\ UNCHANGED <<state, next, should_park, expected>>
  BY DEF Walk, At
<1>1. PICK q \in [Int -> Nodes], lo \in Int, hi \in Int, p \in Int, e \in Int, c \in Int :
         ListInv(q, lo, hi, p, e, c) /\ UnparkInv(q, lo, hi)
  BY DEF Inv, QueueInv
<1>2. /\ lo <= hi /\ p \in lo..hi /\ e \in lo..p /\ c \in e..p
      /\ node = q[c] /\ expected[t].head = q[e]
  BY <1>0, <1>1 DEF ListInv, Processed, WalkInv, Walking, At
<1>3. \A i \in lo..hi : q[i] \in Threads /\ q[i] # NULL
  BY <1>1, NullNotThread DEF ListInv, Queue
<1>4. \A u \in Threads : Walking(u) => u = t
  BY <1>0 DEF Inv, QueueLockInv, Walking
<1> HIDE DEF node
<1>5. CASE tail[node] = NULL
  <2>0. /\ prev' = [prev EXCEPT ![next[node]] = node] /\ current' = [current EXCEPT ![t] = next[node]]
        /\ UNCHANGED <<tail, pc>>
    BY <1>5 DEF Walk, node
  <2>1. c < p
    BY <1>1, <1>2, <1>3, <1>5 DEF ListInv, Processed
  <2>2. next[node] = q[c + 1] /\ q[c + 1] \in Threads
    BY <1>1, <1>2, <1>3, <2>1 DEF ListInv, Queue
  <2>3. current'[t] = q[c + 1] /\ \A u \in Threads \ {t} : current'[u] = current[u]
    BY <2>0, <2>2 DEF Inv, TypeOK
  <2>4. prev'[q[c + 1]] = q[c] /\ \A u \in Threads : u # q[c + 1] => prev'[u] = prev[u]
    BY <1>2, <2>0, <2>2 DEF Inv, TypeOK
  <2>5. TypeOK'
    BY <1>0, <1>2, <1>3, <2>0, <2>2 DEF Inv, TypeOK, Nodes
  <2>6. LockInv' /\ QueueLockInv'
    BY <1>0, <2>0 DEF Inv, LockInv, QueueLockInv, Inside, Walking
  <2>7. Queue(q, lo, hi)'
    BY <1>0, <1>1, <2>0 DEF ListInv, Queue, Asleep
  <2>8. \A i \in lo..hi : i # c + 1 => prev'[q[i]] = prev[q[i]]
    BY <1>1, <1>2, <1>3, <2>1, <2>4 DEF ListInv, Queue
  <2>9. Processed(q, lo, hi, p, e, c + 1)'
    <3>1. c + 1 \in e..p
      BY <1>2, <2>1
    <3>2. \A i \in lo..e : prev'[q[i]] = NULL
      BY <1>1, <1>2, <2>8 DEF ListInv, Processed
    <3>3. \A i \in e + 1..c + 1 : prev'[q[i]] = q[i - 1]
      BY <1>1, <1>2, <2>1, <2>4, <2>8 DEF ListInv, Processed
    <3>4. \A i \in p + 1..hi : prev'[q[i]] = q[i - 1]
      BY <1>1, <1>2, <2>1, <2>8 DEF ListInv, Processed
    <3> QED BY <1>1, <1>2, <2>0, <3>1, <3>2, <3>3, <3>4 DEF ListInv, Processed
  <2>10. WalkInv(q, lo, hi, p, e, c + 1)'
    BY <1>0, <1>1, <1>4, <2>0, <2>3 DEF ListInv, WalkInv, Walking, At
  <2>11. UnparkInv(q, lo, hi)'
    BY <1>0, <1>1, <2>0, <2>3 DEF UnparkInv, At, Asleep
  <2> QED BY <1>1, <2>5, <2>6, <2>7, <2>9, <2>10, <2>11 DEF Inv, QueueInv, ListInv
<1>6. CASE tail[node] # NULL
  <2>0. /\ tail' = [tail EXCEPT ![expected[t].head] = tail[node]]
        /\ current' = [current EXCEPT ![t] = tail[node]]
        /\ pc' = [pc EXCEPT ![t] = "decide"] /\ UNCHANGED prev
    BY <1>6 DEF Walk, node, Goto
  <2>1. c = p /\ tail[node] = q[hi] /\ q[hi] \in Threads
    BY <1>1, <1>2, <1>3, <1>6 DEF ListInv, Processed
  <2>2. current'[t] = q[hi] /\ \A u \in Threads \ {t} : current'[u] = current[u]
    BY <2>0, <2>1 DEF Inv, TypeOK
  <2>3. tail'[q[e]] = q[hi] /\ \A u \in Threads : u # q[e] => tail'[u] = tail[u]
    BY <1>2, <1>3, <2>0, <2>1 DEF Inv, TypeOK
  <2>4. pc'[t] = "decide" /\ \A u \in Threads \ {t} : pc'[u] = pc[u]
    BY <2>0 DEF Inv, TypeOK
  <2>5. TypeOK'
    BY <1>0, <2>0, <2>1 DEF Inv, TypeOK, Nodes, Labels
  <2>6. \A u \in Threads : /\ (Inside(u)' <=> Inside(u)) /\ (Walking(u)' <=> Walking(u))
                           /\ (Asleep(u)' <=> Asleep(u))
    BY <1>0, <2>4 DEF Inside, Walking, Asleep
  <2>7. LockInv' /\ QueueLockInv'
    BY <1>0, <2>6 DEF Inv, LockInv, QueueLockInv
  <2>8. Queue(q, lo, hi)'
    BY <1>0, <1>1, <2>6 DEF ListInv, Queue
  <2>9. Processed(q, lo, hi, e, e, e)'
    <3>1. \A i \in lo..e - 1 : tail'[q[i]] = NULL
      <4>1. \A i \in lo..e - 1 : q[i] # q[e]
        BY <1>1, <1>2 DEF ListInv, Queue
      <4> QED BY <1>1, <1>2, <1>3, <2>3, <4>1 DEF ListInv, Processed
    <3>2. \A i \in e + 1..hi : prev'[q[i]] = q[i - 1]
      BY <1>1, <1>2, <2>0, <2>1 DEF ListInv, Processed
    <3> QED BY <1>1, <1>2, <2>0, <2>3, <3>1, <3>2 DEF ListInv, Processed
  <2>10. WalkInv(q, lo, hi, e, e, e)'
    <3>1. \A u \in Threads : At(u, "walk")' => FALSE
      BY <1>4, <2>4 DEF Walking, At
    <3> QED BY <1>0, <1>2, <1>4, <2>2, <2>4, <2>6, <3>1 DEF WalkInv, Walking, At
  <2>11. UnparkInv(q, lo, hi)'
    BY <1>0, <1>1, <2>2, <2>4, <2>6 DEF UnparkInv, At
  <2> QED BY <1>1, <2>5, <2>7, <2>8, <2>9, <2>10, <2>11 DEF Inv, QueueInv, ListInv
<1> QED BY <1>5, <1>6

\* What a thread that has just found the oldest waiter knows of the list.
LEMMA Found ==
  ASSUME Inv, NEW t \in Threads, pc[t] = "decide"
  PROVE  \E q \in [Int -> Nodes], lo, hi, p \in Int :
           /\ ListInv(q, lo, hi, p, p, p) /\ UnparkInv(q, lo, hi)
           /\ lo <= hi /\ p \in lo..hi /\ state.head = q[lo]
           /\ expected[t].head = q[p] /\ current[t] = q[hi] /\ state.queue_lock
           /\ \A i \in lo..hi : q[i] \in Threads /\ q[i] # NULL
           /\ \A u \in Threads : Walking(u) <=> u = t
<1>1. PICK q \in [Int -> Nodes], lo \in Int, hi \in Int, p \in Int, e \in Int, c \in Int :
         ListInv(q, lo, hi, p, e, c) /\ UnparkInv(q, lo, hi)
  BY DEF Inv, QueueInv
<1>2. lo <= hi /\ e = p /\ expected[t].head = q[p] /\ current[t] = q[hi]
  BY <1>1 DEF ListInv, WalkInv, Walking, At
<1>3. p \in lo..hi /\ c = p
  BY <1>1, <1>2 DEF ListInv, Processed
<1>4. state.head = q[lo] /\ \A i \in lo..hi : q[i] \in Threads /\ q[i] # NULL
  BY <1>1, <1>2, NullNotThread DEF ListInv, Queue
<1>5. state.queue_lock /\ \A u \in Threads : Walking(u) <=> u = t
  BY DEF Inv, QueueLockInv, Walking
<1> QED BY <1>1, <1>2, <1>3, <1>4, <1>5

\* A compare-and-swap that fails after the walk: the walker starts again from the
\* new head, and what was pushed meanwhile is before the place it had reached.
LEMMA WalkAgainInv ==
  ASSUME Inv, NEW t \in Threads, pc[t] = "decide", WalkAgain(t), UNCHANGED <<next, prev, should_park>>
  PROVE  Inv'
<1>1. PICK q \in [Int -> Nodes], lo \in Int, hi \in Int, p \in Int :
           /\ ListInv(q, lo, hi, p, p, p) /\ UnparkInv(q, lo, hi)
           /\ lo <= hi /\ p \in lo..hi /\ state.head = q[lo]
           /\ \A u \in Threads : Walking(u) <=> u = t
  BY Found
<1>2. /\ expected' = [expected EXCEPT ![t] = state] /\ current' = [current EXCEPT ![t] = state.head]
      /\ pc' = [pc EXCEPT ![t] = "walk"] /\ UNCHANGED <<state, tail>>
  BY DEF WalkAgain, Goto
<1>3. TypeOK'
  BY <1>2 DEF Inv, TypeOK, Labels, Words
<1>4. pc'[t] = "walk" /\ current'[t] = q[lo] /\ expected'[t].head = q[lo]
  BY <1>1, <1>2 DEF Inv, TypeOK
<1>5. \A u \in Threads \ {t} : pc'[u] = pc[u] /\ current'[u] = current[u] /\ expected'[u] = expected[u]
  BY <1>2 DEF Inv, TypeOK
<1>6. \A u \in Threads : /\ (Inside(u)' <=> Inside(u)) /\ (Walking(u)' <=> Walking(u))
                         /\ (Asleep(u)' <=> Asleep(u))
  BY <1>4, <1>5 DEF Inside, Walking, Asleep
<1>7. LockInv' /\ QueueLockInv'
  BY <1>2, <1>6 DEF Inv, LockInv, QueueLockInv
<1>8. Queue(q, lo, hi)'
  BY <1>1, <1>2, <1>6 DEF ListInv, Queue
<1>9. Processed(q, lo, hi, p, lo, lo)'
  BY <1>1, <1>2, SMTT(30) DEF ListInv, Processed
<1>10. WalkInv(q, lo, hi, p, lo, lo)'
  <2>1. \A u \in Threads : ~At(u, "decide")' /\ (At(u, "walk")' <=> u = t)
    BY <1>1, <1>4, <1>6 DEF Walking, At
  <2>2. state'.queue_lock
    BY <1>1, <1>2 DEF Inv, QueueLockInv
  <2> QED BY <1>1, <1>4, <1>6, <2>1, <2>2 DEF WalkInv
<1>11. UnparkInv(q, lo, hi)'
  BY <1>1, <1>4, <1>5, <1>6, SMTT(30) DEF UnparkInv, At
<1> QED BY <1>3, <1>7, <1>8, <1>9, <1>10, <1>11 DEF Inv, QueueInv, ListInv

\* What releasing the queue lock does to the two bits.
LEMMA ReleaseQueueLock ==
  ASSUME Inv, NEW t \in Threads, pc[t] = "decide", NEW l \in {"out", "unpark"}, Goto(t, l),
         state' \in Words, state'.lock = state.lock, ~state'.queue_lock, UNCHANGED should_park
  PROVE  /\ LockInv' /\ QueueLockInv' /\ pc' \in [Threads -> Labels]
         /\ pc'[t] = l /\ \A u \in Threads \ {t} : pc'[u] = pc[u]
         /\ \A u \in Threads : ~Walking(u)' /\ (Asleep(u)' <=> Asleep(u))
<1>1. pc' \in [Threads -> Labels] /\ pc'[t] = l /\ \A u \in Threads \ {t} : pc'[u] = pc[u]
  BY DEF Inv, TypeOK, Goto, Labels
<1>2. \A u \in Threads : (Inside(u)' <=> Inside(u)) /\ (Asleep(u)' <=> Asleep(u))
  BY <1>1 DEF Inside, Asleep
<1>3. \A u \in Threads : Walking(u) => u = t
  BY DEF Inv, QueueLockInv, Walking
<1>4. \A u \in Threads : ~Walking(u)'
  BY <1>1, <1>3 DEF Walking
<1> QED BY <1>1, <1>2, <1>4 DEF Inv, LockInv, QueueLockInv

\* The lock is taken: the walker leaves the waiters to its holder.
LEMMA LeaveToHolderInv == ASSUME Inv, NEW t \in Threads, LeaveToHolder(t) PROVE Inv'
<1>0. pc[t] = "decide" /\ UNCHANGED <<next, prev, should_park>>
  BY DEF LeaveToHolder, At
<1>1. CASE state # expected[t]
  BY <1>0, <1>1, WalkAgainInv DEF LeaveToHolder
<1>2. CASE state = expected[t]
  <2>0. /\ state' = [state EXCEPT !.queue_lock = FALSE] /\ current' = [current EXCEPT ![t] = NULL]
        /\ Goto(t, "out") /\ UNCHANGED <<expected, tail>>
    BY <1>2 DEF LeaveToHolder
  <2>1. /\ state' \in Words /\ state'.lock = state.lock /\ ~state'.queue_lock
        /\ state'.head = state.head
    BY <2>0 DEF Inv, TypeOK, Words
  <2>2. PICK q \in [Int -> Nodes], lo \in Int, hi \in Int, p \in Int :
             ListInv(q, lo, hi, p, p, p) /\ UnparkInv(q, lo, hi)
    BY <1>0, Found
  <2>3. /\ LockInv' /\ QueueLockInv' /\ pc' \in [Threads -> Labels]
        /\ pc'[t] = "out" /\ \A u \in Threads \ {t} : pc'[u] = pc[u]
        /\ \A u \in Threads : ~Walking(u)' /\ (Asleep(u)' <=> Asleep(u))
    BY <1>0, <2>0, <2>1, ReleaseQueueLock
  <2>4. TypeOK'
    BY <1>0, <2>0, <2>1, <2>3 DEF Inv, TypeOK, Nodes
  <2>5. Queue(q, lo, hi)'
    BY <1>0, <2>1, <2>2, <2>3 DEF ListInv, Queue
  <2>6. Processed(q, lo, hi, p, p, p)'
    BY <1>0, <2>0, <2>2, SMTT(30) DEF ListInv, Processed
  <2>7. WalkInv(q, lo, hi, p, p, p)'
    BY <2>3 DEF WalkInv, Walking, At
  <2>8. \A u \in Threads \ {t} : current'[u] = current[u]
    BY <2>0 DEF Inv, TypeOK
  <2>9. UnparkInv(q, lo, hi)'
    BY <2>2, <2>3, <2>8 DEF UnparkInv, At
  <2> QED BY <2>3, <2>4, <2>5, <2>6, <2>7, <2>9 DEF Inv, QueueInv, ListInv
<1> QED BY <1>1, <1>2

\* The only waiter is taken, and the list is empty.
LEMMA TakeLastInv == ASSUME Inv, NEW t \in Threads, TakeLast(t) PROVE Inv'
<1>0. pc[t] = "decide" /\ prev[current[t]] = NULL /\ UNCHANGED <<next, prev, should_park>>
  BY DEF TakeLast, At
<1>1. CASE state # expected[t]
  BY <1>0, <1>1, WalkAgainInv DEF TakeLast
<1>2. CASE state = expected[t]
  <2>0. /\ state' = Word(state.lock, FALSE, NULL)
        /\ Goto(t, "unpark") /\ UNCHANGED <<expected, current, tail>>
    BY <1>2 DEF TakeLast
  <2>1. state' \in Words /\ state'.lock = state.lock /\ ~state'.queue_lock /\ state'.head = NULL
    BY <2>0 DEF Inv, TypeOK, Words, Word, Nodes
  <2>2. PICK q \in [Int -> Nodes], lo \in Int, hi \in Int, p \in Int :
           /\ ListInv(q, lo, hi, p, p, p) /\ UnparkInv(q, lo, hi)
           /\ lo <= hi /\ current[t] = q[hi]
           /\ \A i \in lo..hi : q[i] \in Threads /\ q[i] # NULL
    BY <1>0, Found, SMTT(30)
  <2>3. /\ LockInv' /\ QueueLockInv' /\ pc' \in [Threads -> Labels]
        /\ pc'[t] = "unpark" /\ \A u \in Threads \ {t} : pc'[u] = pc[u]
        /\ \A u \in Threads : ~Walking(u)' /\ (Asleep(u)' <=> Asleep(u))
    BY <1>0, <2>0, <2>1, ReleaseQueueLock
  <2>4. TypeOK'
    BY <1>0, <2>0, <2>1, <2>3 DEF Inv, TypeOK
  <2>5. Queue(q, 1, 0)'
    BY <2>1 DEF Queue
  <2>6. Processed(q, 1, 0, 0, 0, 0)'
    BY DEF Processed
  <2>7. WalkInv(q, 1, 0, 0, 0, 0)'
    BY <2>3 DEF WalkInv, Walking, At
  <2>8. UnparkInv(q, 1, 0)'
    <3>1. current[t] \in Threads /\ Asleep(current[t])
      BY <2>2 DEF ListInv, Queue
    <3>2. \A u \in Threads : At(u, "unpark") => current[u] # current[t]
      BY <2>2 DEF UnparkInv
    <3> QED BY <1>0, <2>0, <2>2, <2>3, <3>1, <3>2 DEF UnparkInv, At
  <2> QED BY <2>3, <2>4, <2>5, <2>6, <2>7, <2>8 DEF Inv, QueueInv, ListInv
<1> QED BY <1>1, <1>2

\* The oldest waiter is taken off the end: the head's tail is now the one before it.
LEMMA TakeOldestInv == ASSUME Inv, NEW t \in Threads, TakeOldest(t) PROVE Inv'
<1>0. /\ pc[t] = "decide" /\ prev[current[t]] # NULL /\ Goto(t, "unpark")
      /\ tail' = [tail EXCEPT ![expected[t].head] = prev[current[t]]]
      /\ state' = [state EXCEPT !.queue_lock = FALSE]
      /\ UNCHANGED <<next, prev, should_park, expected, current>>
  BY DEF TakeOldest, At, new_tail
<1>1. /\ state' \in Words /\ state'.lock = state.lock /\ ~state'.queue_lock
      /\ state'.head = state.head
  BY <1>0 DEF Inv, TypeOK, Words
<1>2. PICK q \in [Int -> Nodes], lo \in Int, hi \in Int, p \in Int :
         /\ ListInv(q, lo, hi, p, p, p) /\ UnparkInv(q, lo, hi)
         /\ lo <= hi /\ p \in lo..hi /\ state.head = q[lo]
         /\ expected[t].head = q[p] /\ current[t] = q[hi]
         /\ \A i \in lo..hi : q[i] \in Threads /\ q[i] # NULL
  BY <1>0, Found
<1>3. /\ LockInv' /\ QueueLockInv' /\ pc' \in [Threads -> Labels]
      /\ pc'[t] = "unpark" /\ \A u \in Threads \ {t} : pc'[u] = pc[u]
      /\ \A u \in Threads : ~Walking(u)' /\ (Asleep(u)' <=> Asleep(u))
  BY <1>0, <1>1, ReleaseQueueLock
<1>4. p < hi
  BY <1>0, <1>2 DEF ListInv, Processed
<1>5. prev[current[t]] = q[hi - 1] /\ q[hi - 1] \in Threads /\ q[hi] \in Threads /\ q[p] \in Threads
  BY <1>2, <1>4 DEF ListInv, Processed
<1>6. TypeOK'
  BY <1>0, <1>1, <1>3, <1>5 DEF Inv, TypeOK, Nodes
<1>7. tail'[q[p]] = q[hi - 1] /\ \A u \in Threads : u # q[p] => tail'[u] = tail[u]
  BY <1>0, <1>2, <1>5 DEF Inv, TypeOK
<1>8. Queue(q, lo, hi - 1)'
  <2>1. \A i \in lo..hi - 1 : q[i] \in Threads /\ Asleep(q[i])'
    BY <1>2, <1>3 DEF ListInv, Queue
  <2>2. \A i, j \in lo..hi - 1 : q[i] = q[j] => i = j
    BY <1>2 DEF ListInv, Queue
  <2>3. \A i \in lo..hi - 1 - 1 : next'[q[i]] = q[i + 1]
    BY <1>0, <1>2 DEF ListInv, Queue
  <2>4. state'.head = q[lo] /\ lo <= hi - 1
    BY <1>1, <1>2, <1>4
  <2> QED BY <2>1, <2>2, <2>3, <2>4 DEF Queue
<1>9. Processed(q, lo, hi - 1, p, p, p)'
  <2>1. \A i \in lo..p - 1 : tail'[q[i]] = NULL
    <3>1. \A i \in lo..p - 1 : q[i] # q[p]
      BY <1>2 DEF ListInv, Queue
    <3> QED BY <1>2, <1>7, <3>1 DEF ListInv, Processed
  <2>2. p \in lo..hi - 1
    BY <1>2, <1>4
  <2>3. /\ \A i \in lo..p : prev'[q[i]] = NULL
        /\ \A i \in p + 1..hi - 1 : prev'[q[i]] = q[i - 1]
    BY <1>0, <1>2 DEF ListInv, Processed
  <2> QED BY <1>2, <1>7, <2>1, <2>2, <2>3 DEF Processed
<1>10. WalkInv(q, lo, hi - 1, p, p, p)'
  BY <1>3 DEF WalkInv, Walking, At
<1>11. UnparkInv(q, lo, hi - 1)'
  <2>1. Asleep(q[hi]) /\ \A i \in lo..hi - 1 : q[i] # q[hi]
    BY <1>2 DEF ListInv, Queue
  <2>2. \A u \in Threads : At(u, "unpark") => current[u] # q[hi]
    BY <1>2 DEF UnparkInv
  <2> QED BY <1>0, <1>2, <1>3, <1>5, <2>1, <2>2 DEF UnparkInv, At
<1> QED BY <1>3, <1>6, <1>8, <1>9, <1>10, <1>11 DEF Inv, QueueInv, ListInv

\* The thread that was taken off the list goes on.
LEMMA UnparkStepInv == ASSUME Inv, NEW t \in Threads, Unpark(t) PROVE Inv'
<1>0. /\ pc[t] = "unpark" /\ should_park' = [should_park EXCEPT ![current[t]] = FALSE]
      /\ current' = [current EXCEPT ![t] = NULL] /\ pc' = [pc EXCEPT ![t] = "out"]
      /\ UNCHANGED <<state, next, prev, tail, expected>>
  BY DEF Unpark, At, Goto, nodes
<1>1. PICK q \in [Int -> Nodes], lo \in Int, hi \in Int, p \in Int, e \in Int, c \in Int :
         ListInv(q, lo, hi, p, e, c) /\ UnparkInv(q, lo, hi)
  BY DEF Inv, QueueInv
<1>2. TypeOK'
  BY <1>0 DEF Inv, TypeOK, Nodes, Labels
<1>3. pc'[t] = "out" /\ \A u \in Threads \ {t} : pc'[u] = pc[u] /\ current'[u] = current[u]
  BY <1>0 DEF Inv, TypeOK
<1>4. \A u \in Threads : u # current[t] => should_park'[u] = should_park[u]
  BY <1>0 DEF Inv, TypeOK
<1>5. \A u \in Threads : u # current[t] /\ Asleep(u) => Asleep(u)'
  BY <1>0, <1>3, <1>4 DEF Asleep
<1>6. \A u \in Threads : (Inside(u)' <=> Inside(u)) /\ (Walking(u)' <=> Walking(u))
  BY <1>0, <1>3 DEF Inside, Walking
<1>7. LockInv' /\ QueueLockInv'
  BY <1>0, <1>6 DEF Inv, LockInv, QueueLockInv
<1>8. Queue(q, lo, hi)'
  <2>1. \A i \in lo..hi : q[i] # current[t]
    BY <1>0, <1>1 DEF UnparkInv, At
  <2> QED BY <1>0, <1>1, <1>5, <2>1 DEF ListInv, Queue
<1>9. Processed(q, lo, hi, p, e, c)'
  BY <1>0, <1>1 DEF ListInv, Processed
<1>10. WalkInv(q, lo, hi, p, e, c)'
  BY <1>0, <1>1, <1>3, <1>6 DEF ListInv, WalkInv, At
<1>11. UnparkInv(q, lo, hi)'
  <2>1. \A u \in Threads : At(u, "unpark")' => u # t /\ At(u, "unpark") /\ current'[u] = current[u]
    BY <1>3 DEF At
  <2>2. \A u \in Threads : At(u, "unpark") /\ u # t => current[u] # current[t]
    BY <1>0, <1>1 DEF UnparkInv, At
  <2> QED BY <1>1, <1>5, <2>1, <2>2 DEF UnparkInv
<1> QED BY <1>1, <1>2, <1>7, <1>8, <1>9, <1>10, <1>11 DEF Inv, QueueInv, ListInv

\* Every step keeps the invariant.
LEMMA InvStep == Inv /\ [Next]_vars => Inv'
<1> SUFFICES ASSUME Inv, [Next]_vars PROVE Inv'
  OBVIOUS
<1>1. ASSUME NEW t \in Threads, Lock(t) \/ Step(t) PROVE Inv'
  BY <1>1, IdleStepsInv, PushNodeInv, UnlockInv, LockQueueInv, WalkStepInv, LeaveToHolderInv,
     TakeLastInv, TakeOldestInv, UnparkStepInv DEF Step
<1>2. CASE UNCHANGED vars
  <2>1. UNCHANGED <<state, next, prev, tail, should_park, pc, expected, current>>
    BY <1>2 DEF vars, nodes
  <2>2. TypeOK' /\ LockInv' /\ QueueLockInv'
    BY <2>1 DEF Inv, TypeOK, LockInv, QueueLockInv, Inside, Walking
  <2>3. PICK q \in [Int -> Nodes], lo \in Int, hi \in Int, p \in Int, e \in Int, c \in Int :
           ListInv(q, lo, hi, p, e, c) /\ UnparkInv(q, lo, hi)
    BY DEF Inv, QueueInv
  <2>4. ListInv(q, lo, hi, p, e, c)'
    BY <2>1, <2>3 DEF ListInv, Queue, Processed, WalkInv, Asleep, Walking, At
  <2>5. UnparkInv(q, lo, hi)'
    BY <2>1, <2>3 DEF UnparkInv, Asleep, At
  <2> QED BY <2>2, <2>4, <2>5 DEF Inv, QueueInv
<1> QED BY <1>1, <1>2 DEF Next

\* The invariant holds in every reachable state.
LEMMA InvHolds == Spec => []Inv
BY InitInv, InvStep, PTL DEF Spec

-----------------------------------------------------------------------------
(* What the invariant gives *)

\* Every node the list, a walker or an unparker will touch is there.
LEMMA AliveNow == ASSUME Inv PROVE NodesAlive
<1>1. PICK q \in [Int -> Nodes], lo \in Int, hi \in Int, p \in Int, e \in Int, c \in Int :
         ListInv(q, lo, hi, p, e, c) /\ UnparkInv(q, lo, hi)
  BY DEF Inv, QueueInv
<1>2. \A i \in lo..hi : q[i] # NULL /\ Asleep(q[i])
  BY <1>1, NullNotThread DEF ListInv, Queue
<1>3. ASSUME NEW t \in Threads, Walking(t)
      PROVE  /\ state.queue_lock /\ expected[t].head = q[e]
             /\ lo <= hi /\ p \in lo..hi /\ e \in lo..p /\ c \in e..p
  BY <1>1, <1>3 DEF Inv, QueueLockInv, ListInv, WalkInv, Processed
<1>4. ASSUME NEW t \in Threads, pc[t] = "walk"
      PROVE  Asleep(current[t]) /\ (tail[current[t]] = NULL => Asleep(next[current[t]]))
  <2>1. current[t] = q[c] /\ lo <= hi /\ p \in lo..hi /\ c \in lo..p
    BY <1>1, <1>3, <1>4 DEF ListInv, WalkInv, Walking, At
  <2>2. Asleep(current[t])
    BY <1>2, <2>1
  <2>3. ASSUME tail[current[t]] = NULL PROVE Asleep(next[current[t]])
    <3>1. c # p
      BY <1>1, <1>2, <2>1, <2>3 DEF ListInv, Processed
    <3>2. next[q[c]] = q[c + 1] /\ c + 1 \in lo..hi
      BY <1>1, <2>1, <3>1 DEF ListInv, Queue
    <3> QED BY <1>2, <2>1, <3>2
  <2> QED BY <2>2, <2>3
<1>5. ASSUME NEW t \in Threads, pc[t] = "decide"
      PROVE  Asleep(current[t]) /\ (prev[current[t]] # NULL => Asleep(prev[current[t]]))
  <2>1. current[t] = q[hi] /\ e = p /\ lo <= hi /\ p \in lo..hi
    BY <1>1, <1>3, <1>5 DEF ListInv, WalkInv, Walking, At
  <2>2. Asleep(current[t])
    BY <1>2, <2>1
  <2>3. ASSUME prev[current[t]] # NULL PROVE Asleep(prev[current[t]])
    <3>1. hi # p
      BY <1>1, <2>1, <2>3 DEF ListInv, Processed
    <3>2. prev[q[hi]] = q[hi - 1] /\ hi - 1 \in lo..hi
      BY <1>1, <2>1, <3>1 DEF ListInv, Processed
    <3> QED BY <1>2, <2>1, <3>2
  <2> QED BY <2>2, <2>3
<1>6. ASSUME NEW t \in Threads, pc[t] = "unpark"
      PROVE  /\ Asleep(current[t])
             /\ \A u \in Threads : pc[u] = "unpark" /\ current[u] = current[t] => u = t
  BY <1>1, <1>6 DEF UnparkInv, At
<1>7. ASSUME NEW t \in Threads, Walking(t) PROVE state.queue_lock /\ Asleep(expected[t].head)
  BY <1>2, <1>3, <1>7
<1> QED BY <1>4, <1>5, <1>6, <1>7 DEF NodesAlive, Walking

\* word_lock never follows a pointer to the node of a thread that has left
\* lock_full, whatever the number of threads and whichever of them push while one
\* walks (lock_full, unlock_full).
THEOREM NodesStayAlive == Spec => []NodesAlive
BY InvHolds, AliveNow, PTL

-----------------------------------------------------------------------------
(* Refinement *)

\* The owner of the abstract lock is the thread inside.
OwnerIsInside ==
  /\ state.lock <=> owner["word"] # NULL
  /\ \A t \in Threads : Inside(t) <=> owner["word"] = t
  /\ owner["word"] \in Nodes

\* The refinement mapping names the thread inside, if there is one.
LEMMA OwnerInside == Inv => OwnerIsInside
<1> SUFFICES ASSUME Inv PROVE OwnerIsInside
  OBVIOUS
<1>1. CASE \E t \in Threads : Inside(t)
  <2>1. PICK t \in Threads : Inside(t)
    BY <1>1
  <2>2. (CHOOSE u \in Threads : At(u, "in")) = t
    BY <2>1 DEF Inv, LockInv, Inside, At
  <2>3. owner["word"] = t
    BY <2>1, <2>2 DEF owner, Inside, At
  <2> QED BY <2>1, <2>3, NullNotThread DEF Inv, LockInv, OwnerIsInside, Nodes
<1>2. CASE ~\E t \in Threads : Inside(t)
  <2>1. owner["word"] = NULL
    BY <1>2 DEF owner, Inside, At
  <2> QED BY <1>2, <2>1, NullNotThread DEF Inv, LockInv, OwnerIsInside, Nodes
<1> QED BY <1>1, <1>2

\* The same after a step.
LEMMA OwnerInsideNext == Inv' => OwnerIsInside'
BY OwnerInside, PTL

\* Every step of word_lock is one of Monitor, or changes nothing it shows.
LEMMA MonitorStep == ASSUME Inv, Inv', [Next]_vars PROVE [M!Next]_(M!vars)
<1>0. waiting' = waiting
  BY DEF waiting
<1>1. OwnerIsInside /\ OwnerIsInside' /\ LockInv
  BY OwnerInside, OwnerInsideNext DEF Inv
<1>2. owner = [w \in {"word"} |-> owner["word"]] /\ owner' = [w \in {"word"} |-> owner'["word"]]
  BY DEF owner
<1>3. ASSUME \A u \in Threads : Inside(u)' <=> Inside(u) PROVE UNCHANGED M!vars
  <2>1. owner'["word"] = owner["word"]
    BY <1>1, <1>3, NullNotThread DEF OwnerIsInside, Nodes
  <2> QED BY <1>0, <1>2, <2>1 DEF M!vars
<1>4. ASSUME NEW t \in Threads, ~state.lock, pc' = [pc EXCEPT ![t] = "in"] PROVE M!Lock(t, "word")
  <2>1. Inside(t)'
    BY <1>4 DEF Inv, TypeOK, Inside
  <2>2. owner["word"] = NULL /\ owner'["word"] = t
    BY <1>1, <1>4, <2>1 DEF OwnerIsInside
  <2> QED BY <1>0, <1>2, <2>2 DEF M!Lock
<1>5. ASSUME NEW t \in Threads, pc[t] = "in", ~state'.lock PROVE M!Unlock(t, "word")
  <2>1. owner["word"] = t /\ owner'["word"] = NULL
    BY <1>1, <1>5 DEF OwnerIsInside, Inside
  <2> QED BY <1>0, <1>2, <2>1 DEF M!Unlock
<1>6. ASSUME NEW t \in Threads, Lock(t) \/ Step(t) PROVE [M!Next]_(M!vars)
  <2>1. CASE Unlock(t)
    <3>1. pc[t] = "in" /\ ~state'.lock
      BY <2>1 DEF Unlock, At, Inv, TypeOK, Words
    <3> QED BY <1>5, <3>1 DEF M!Next
  <2>2. CASE pc[t] # "in" /\ \E l \in Labels \ {"in"} : pc' = [pc EXCEPT ![t] = l]
    BY <1>3, <2>2 DEF Inside, Inv, TypeOK
  <2>3. CASE ~state.lock /\ pc' = [pc EXCEPT ![t] = "in"]
    BY <1>4, <2>3 DEF M!Next
  <2>4. CASE pc' = pc
    BY <1>3, <2>4 DEF Inside
  <2>5. CASE FastLock(t)
    BY <2>2, <2>3, <2>5 DEF FastLock, At, Goto, Unlocked, Word, Labels
  <2>6. CASE GrabLock(t)
    BY <2>3, <2>6 DEF GrabLock, Goto
  <2>7. CASE Lock(t) \/ LoadForLock(t) \/ Retry(t) \/ PushNode(t) \/ Resume(t) \/ LoadForUnlock(t)
    BY <2>2, <2>4, <2>7 DEF Lock, LoadForLock, Retry, PushNode, Resume, LoadForUnlock, At, Goto, Labels
  <2>8. CASE LockQueue(t) \/ Walk(t) \/ Unpark(t)
    BY <2>2, <2>4, <2>8 DEF LockQueue, Walk, Unpark, At, Goto, Labels
  <2>9. CASE LeaveToHolder(t) \/ TakeLast(t) \/ TakeOldest(t)
    BY <2>2, <2>4, <2>9 DEF LeaveToHolder, TakeLast, TakeOldest, WalkAgain, At, Goto, Labels
  <2> QED BY <1>6, <2>1, <2>5, <2>6, <2>7, <2>8, <2>9 DEF Step
<1>7. CASE UNCHANGED vars
  BY <1>3, <1>7 DEF vars, Inside
<1> QED BY <1>6, <1>7 DEF Next

\* word_lock implements a mutual exclusion lock: a thread enters only when no thread
\* is inside, and only the thread inside leaves (lock, lock_full, unlock).
THEOREM WordLockImplementsMonitor == Spec => ImplementsMonitor
<1>1. Init => M!Init
  <2> SUFFICES ASSUME Init PROVE M!Init
    OBVIOUS
  <2>1. \A t \in Threads : ~At(t, "in")
    BY DEF Init, At
  <2> QED BY <2>1 DEF M!Init, owner, waiting
<1>2. Inv => (state.lock <=> owner["word"] # NULL)
  BY OwnerInside DEF OwnerIsInside
<1>3. Inv /\ Inv' /\ [Next]_vars => [M!Next]_(M!vars)
  BY MonitorStep
<1> QED BY <1>1, <1>2, <1>3, InvHolds, PTL DEF Spec, ImplementsMonitor, M!Spec
=============================================================================
