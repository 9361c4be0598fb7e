------------------------------ MODULE WordLock ------------------------------
(***************************************************************************)
(* word_lock (src/runtime/synchronization_common.h): the one-word lock of  *)
(* a hash bucket.  The word holds a lock bit, a queue lock bit and the     *)
(* address of the newest waiter.  A waiter's word_lock_queue_data is on    *)
(* its own stack, so a node is named by its thread and is only there while *)
(* the thread is parked.                                                   *)
(***************************************************************************)
EXTENDS Integers

CONSTANTS
  Threads, NULL,
  Quotas   \* bound: how often each thread takes the lock, one function per program

\* No node has the address 0, which stands for the empty list.
ASSUME NullNotThread == NULL \notin Threads

VARIABLES
  state,             \* word_lock::state
  next, prev, tail,  \* the fields of each thread's node
  should_park,       \* the node's thread_parker
  pc,
  expected,          \* the local of lock_full and unlock_full
  current,           \* the local of unlock_full, then the thread to unpark
  remaining          \* how often each thread will still take the lock
nodes == <<next, prev, tail>>
vars == <<state, nodes, should_park, pc, expected, current, remaining>>

Word(lock, queue_lock, head) == [lock |-> lock, queue_lock |-> queue_lock, head |-> head]
Unlocked == Word(FALSE, FALSE, NULL)

Init ==
  /\ state = Unlocked
  /\ next = [t \in Threads |-> NULL]
  /\ prev = [t \in Threads |-> NULL]
  /\ tail = [t \in Threads |-> NULL]
  /\ should_park = [t \in Threads |-> FALSE]
  /\ pc = [t \in Threads |-> "out"]
  /\ expected = [t \in Threads |-> Unlocked]
  /\ current = [t \in Threads |-> NULL]
  /\ remaining \in Quotas

At(t, l) == pc[t] = l
Goto(t, l) == pc' = [pc EXCEPT ![t] = l]
Load(t) == expected' = [expected EXCEPT ![t] = state]

-----------------------------------------------------------------------------
(* lock and lock_full *)

Lock(t) ==
  /\ At(t, "out") /\ remaining[t] > 0
  /\ remaining' = [remaining EXCEPT ![t] = @ - 1]
  /\ Goto(t, "lock")
  /\ UNCHANGED <<state, nodes, should_park, expected, current>>

\* A weak compare-and-swap may fail for no reason.
FastLock(t) ==
  /\ At(t, "lock")
  /\ \/ state = Unlocked /\ state' = Word(TRUE, FALSE, NULL) /\ Goto(t, "in")
     \/ Goto(t, "load") /\ UNCHANGED state
  /\ UNCHANGED <<nodes, should_park, expected, current, remaining>>

LoadForLock(t) ==
  /\ At(t, "load")
  /\ Load(t) /\ Goto(t, "full")
  /\ UNCHANGED <<state, nodes, should_park, current, remaining>>

Retry(t) ==
  /\ At(t, "full") /\ state # expected[t]
  /\ Load(t)
  /\ UNCHANGED <<state, nodes, should_park, pc, current, remaining>>

MutGrabUnchecked(t) ==
  /\ At(t, "full") /\ ~expected[t].lock
  /\ state' = [state EXCEPT !.lock = TRUE]
  /\ Goto(t, "in")
  /\ UNCHANGED <<nodes, should_park, expected, current, remaining>>
GrabLock(t) ==
  /\ At(t, "full") /\ state = expected[t] /\ ~expected[t].lock
  /\ state' = [expected[t] EXCEPT !.lock = TRUE]
  /\ Goto(t, "in")
  /\ UNCHANGED <<nodes, should_park, expected, current, remaining>>

\* The node is initialised and becomes the head of the list.
TailOfNew(t, head) == IF head = NULL THEN t ELSE NULL

PushNode(t) ==
  LET head == expected[t].head
  IN /\ At(t, "full") /\ state = expected[t] /\ expected[t].lock
     /\ state' = [expected[t] EXCEPT !.head = t]
     /\ next' = [next EXCEPT ![t] = head]
     /\ prev' = [prev EXCEPT ![t] = NULL]
     /\ tail' = [tail EXCEPT ![t] = TailOfNew(t, head)]
     /\ should_park' = [should_park EXCEPT ![t] = TRUE]
     /\ Goto(t, "parked")
     /\ UNCHANGED <<expected, current, remaining>>

Resume(t) ==
  /\ At(t, "parked") /\ ~should_park[t]
  /\ Goto(t, "load")
  /\ UNCHANGED <<state, nodes, should_park, expected, current, remaining>>

-----------------------------------------------------------------------------
(* unlock and unlock_full *)

\* unlock_full is needed when threads are queued and none of them, nor an earlier
\* unlocker, is seeing to it.
MutWakesWhileLocked(word) == ~word.queue_lock /\ word.head # NULL /\ word.lock
NeedsWakeup(word) == ~word.queue_lock /\ word.head # NULL

Unlock(t) ==
  /\ At(t, "in")
  /\ state' = [state EXCEPT !.lock = FALSE]
  /\ Goto(t, IF NeedsWakeup(state) THEN "unlock_full" ELSE "out")
  /\ UNCHANGED <<nodes, should_park, expected, current, remaining>>

LoadForUnlock(t) ==
  /\ At(t, "unlock_full")
  /\ Load(t) /\ Goto(t, "lock_queue")
  /\ UNCHANGED <<state, nodes, should_park, current, remaining>>

\* On success expected keeps the word without the queue lock bit, so the first
\* compare-and-swap of the loop below always fails.
LockQueue(t) ==
  /\ At(t, "lock_queue")
  /\ \/ ~NeedsWakeup(expected[t]) /\ Goto(t, "out") /\ UNCHANGED <<state, expected, current>>
     \/ /\ NeedsWakeup(expected[t]) /\ state = expected[t]
        /\ state' = [state EXCEPT !.queue_lock = TRUE]
        /\ current' = [current EXCEPT ![t] = expected[t].head]
        /\ Goto(t, "walk") /\ UNCHANGED expected
     \/ NeedsWakeup(expected[t]) /\ state # expected[t] /\ Load(t) /\ UNCHANGED <<state, pc, current>>
  /\ UNCHANGED <<nodes, should_park, remaining>>

\* One step of the walk to the first node whose tail is set.
Walk(t) ==
  LET node == current[t]
  IN /\ At(t, "walk")
     /\ IF tail[node] = NULL
        THEN /\ prev' = [prev EXCEPT ![next[node]] = node]
             /\ current' = [current EXCEPT ![t] = next[node]]
             /\ UNCHANGED <<tail, pc>>
        ELSE /\ tail' = [tail EXCEPT ![expected[t].head] = tail[node]]
             /\ current' = [current EXCEPT ![t] = tail[node]]
             /\ Goto(t, "decide")
             /\ UNCHANGED prev
     /\ UNCHANGED <<state, next, should_park, expected, remaining>>

\* The compare-and-swap failed.  Below it does so only when the word has changed: a
\* failure for no reason leads here too, with expected and the list as they were.
WalkAgain(t) ==
  /\ expected' = [expected EXCEPT ![t] = state]
  /\ current' = [current EXCEPT ![t] = state.head]
  /\ Goto(t, "walk")
  /\ UNCHANGED <<state, tail>>

\* The lock is taken again: its holder will do the wakeup.
LeaveToHolder(t) ==
  /\ At(t, "decide") /\ expected[t].lock
  /\ IF state = expected[t]
     THEN /\ state' = [state EXCEPT !.queue_lock = FALSE]
          /\ current' = [current EXCEPT ![t] = NULL]
          /\ Goto(t, "out")
          /\ UNCHANGED <<expected, tail>>
     ELSE WalkAgain(t)
  /\ UNCHANGED <<next, prev, should_park, remaining>>

\* The oldest waiter is the only one.
TakeLast(t) ==
  /\ At(t, "decide") /\ ~expected[t].lock /\ prev[current[t]] = NULL
  /\ IF state = expected[t]
     THEN /\ state' = Word(expected[t].lock, FALSE, NULL)
          /\ Goto(t, "unpark")
          /\ UNCHANGED <<expected, current, tail>>
     ELSE WalkAgain(t)
  /\ UNCHANGED <<next, prev, should_park, remaining>>

\* The oldest waiter leaves the list.
MutTailKept(t) == current[t]
new_tail(t) == prev[current[t]]

TakeOldest(t) ==
  /\ At(t, "decide") /\ ~expected[t].lock /\ prev[current[t]] # NULL
  /\ tail' = [tail EXCEPT ![expected[t].head] = new_tail(t)]
  /\ state' = [state EXCEPT !.queue_lock = FALSE]
  /\ Goto(t, "unpark")
  /\ UNCHANGED <<next, prev, should_park, expected, current, remaining>>

Unpark(t) ==
  /\ At(t, "unpark")
  /\ should_park' = [should_park EXCEPT ![current[t]] = FALSE]
  /\ current' = [current EXCEPT ![t] = NULL]
  /\ Goto(t, "out")
  /\ UNCHANGED <<state, nodes, expected, remaining>>

-----------------------------------------------------------------------------
Step(t) ==
  \/ FastLock(t) \/ LoadForLock(t) \/ Retry(t) \/ GrabLock(t) \/ PushNode(t) \/ Resume(t)
  \/ Unlock(t) \/ LoadForUnlock(t) \/ LockQueue(t) \/ Walk(t)
  \/ LeaveToHolder(t) \/ TakeLast(t) \/ TakeOldest(t) \/ Unpark(t)

Next == \E t \in Threads : Lock(t) \/ Step(t)

Spec == Init /\ [][Next]_vars
\* Threads run on, and the sections under a bucket lock end.
FairSpec == Spec /\ \A t \in Threads : WF_vars(Step(t))

-----------------------------------------------------------------------------
(* Properties *)

\* word_lock implements a mutex of Monitor: one thread at a time is between the
\* compare-and-swap that sets the lock bit and the fetch-and that clears it.
owner == [w \in {"word"} |-> IF \E t \in Threads : At(t, "in")
                             THEN CHOOSE t \in Threads : At(t, "in") ELSE NULL]
waiting == [c \in {} |-> {}]
M == INSTANCE Monitor WITH Mutexes <- {"word"}, Conds <- {}
ImplementsMonitor == M!Spec /\ [](state.lock <=> owner["word"] # NULL)

\* unlock_full follows pointers into the stacks of other threads: every node it
\* reads or writes belongs to a thread that is parked and that nobody else has
\* been told to wake.
Asleep(t) == pc[t] = "parked" /\ should_park[t]
NodesAlive ==
  \A t \in Threads :
    /\ pc[t] \in {"walk", "decide"} =>
         /\ state.queue_lock /\ Asleep(expected[t].head) /\ Asleep(current[t])
         /\ pc[t] = "walk" /\ tail[current[t]] = NULL => Asleep(next[current[t]])
         /\ pc[t] = "decide" /\ prev[current[t]] # NULL => Asleep(prev[current[t]])
    /\ pc[t] = "unpark" =>
         /\ Asleep(current[t])
         /\ \A u \in Threads : pc[u] = "unpark" /\ current[u] = current[t] => u = t

\* Every lock and every unlock returns: whoever queues is woken in the end.
CallsReturn == \A t \in Threads : pc[t] \notin {"in", "out"} ~> pc[t] \in {"in", "out"}
=============================================================================
