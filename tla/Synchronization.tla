--------------------------- MODULE Synchronization ---------------------------
(***************************************************************************)
(* fast_mutex, fast_cond and the parking lot under them                    *)
(* (src/runtime/synchronization_common.h), with the thread_parker of       *)
(* src/runtime/posix_threads.cpp.                                          *)
(*                                                                         *)
(* A mutex is a word of two bits that is changed by compare-and-swap and   *)
(* by plain stores; a condition is a word that names the mutex its waiters *)
(* hold.  Blocked threads sit in the queue of their sleep_address.  The    *)
(* list of a hash bucket is represented by one queue per address: every    *)
(* traversal skips the entries of other addresses.  Buckets matter for     *)
(* their lock, which BucketOf maps addresses to; a section that needs one  *)
(* bucket and touches one word outside of it is a single action, enabled   *)
(* when the bucket is free, and unpark_requeue holds its two buckets over  *)
(* several actions.                                                        *)
(***************************************************************************)
EXTENDS Integers, Sequences

CONSTANTS
  Threads, Mutexes, Conds, NULL,
  Buckets,  \* the indices of the hash table
  Clients   \* the programs considered: the hash of each address, and for each thread
            \* the calls <<operation, address, n>> that it makes, in any order

Addresses == Mutexes \cup Conds

ASSUME SyncAssumption ==
  /\ NULL \notin Threads \cup Mutexes
  /\ Mutexes \cap Conds = {}
  /\ Buckets \subseteq Nat
  /\ \A client \in Clients : client.bucket \in [Addresses -> Buckets]

VARIABLES
  BucketOf,      \* addr_hash, fixed at the start
  pending,       \* the calls that a thread has still to make
  state,         \* fast_mutex::state, as the set of its bits
  cond,          \* fast_cond::state
  queue,         \* the queue_data of each sleep_address, by their threads
  held,          \* hash_bucket::mutex, while a bucket pair is locked
  should_park,   \* thread_parker::should_park
  pc,
  mutex,         \* the mutex a thread is locking, holding or releasing
  expected,      \* the local of lock_full
  resume,        \* where park() returns to: lock_full or fast_cond::wait
  back,          \* what follows the current unlock, signal or broadcast
  control,       \* the condition of a signal or broadcast, and its mutex
  unpark_one,    \* validate_action::unpark_one
  target         \* the thread taken off a queue to be unparked

lockVars == <<mutex, expected, resume>>
wakeVars == <<control, unpark_one, target>>
vars == <<BucketOf, pending, state, cond, queue, held, should_park, pc, lockVars, back, wakeVars>>

Init ==
  /\ \E client \in Clients : BucketOf = client.bucket /\ pending = client.calls
  /\ state = [m \in Mutexes |-> {}]
  /\ cond = [c \in Conds |-> NULL]
  /\ queue = [a \in Addresses |-> <<>>]
  /\ held = [b \in Buckets |-> NULL]
  /\ should_park = [t \in Threads |-> FALSE]
  /\ pc = [t \in Threads |-> "out"]
  /\ mutex = [t \in Threads |-> NULL]
  /\ expected = [t \in Threads |-> {}]
  /\ resume = [t \in Threads |-> "load"]
  /\ back = [t \in Threads |-> "out"]
  /\ control = [t \in Threads |-> <<NULL, NULL>>]
  /\ unpark_one = [t \in Threads |-> FALSE]
  /\ target = [t \in Threads |-> NULL]

At(t, l) == pc[t] = l
Goto(t, l) == pc' = [pc EXCEPT ![t] = l]
Call(t, operation, a) ==
  \E call \in pending[t] : /\ call[1] = operation /\ call[2] = a
                           /\ pending' = [pending EXCEPT ![t] = @ \ {call}]

-----------------------------------------------------------------------------
(* fast_mutex::lock *)

Lock(t, m) ==
  /\ At(t, "out") /\ Call(t, "Lock", m)
  /\ mutex' = [mutex EXCEPT ![t] = m]
  /\ Goto(t, "lock")
  /\ UNCHANGED <<BucketOf, state, cond, queue, held, should_park, expected, resume, back, wakeVars>>

\* The fast path; a weak compare-and-swap may also fail for no reason.
FastLock(t) ==
  /\ At(t, "lock")
  /\ \/ /\ state[mutex[t]] = {}
        /\ state' = [state EXCEPT ![mutex[t]] = {"lock"}]
        /\ Goto(t, "in")
     \/ Goto(t, "load") /\ UNCHANGED state
  /\ UNCHANGED <<BucketOf, pending, cond, queue, held, should_park, lockVars, back, wakeVars>>

LoadState(t) ==
  /\ At(t, "load")
  /\ expected' = [expected EXCEPT ![t] = state[mutex[t]]]
  /\ Goto(t, "full")
  /\ UNCHANGED <<BucketOf, pending, state, cond, queue, held, should_park, mutex, resume, back, wakeVars>>

\* A compare-and-swap that fails, or a turn of the spin loop, loads the word anew.
\* How long a thread spins is left open.
Retry(t) ==
  /\ At(t, "full") /\ expected[t] # {"lock", "parked"} /\ state[mutex[t]] # expected[t]
  /\ expected' = [expected EXCEPT ![t] = state[mutex[t]]]
  /\ UNCHANGED <<BucketOf, pending, state, cond, queue, held, should_park, pc, mutex, resume, back, wakeVars>>

MutGrabUnchecked(t) ==
  /\ At(t, "full") /\ "lock" \notin expected[t]
  /\ state' = [state EXCEPT ![mutex[t]] = @ \cup {"lock"}]
  /\ expected' = [expected EXCEPT ![t] = {}]
  /\ Goto(t, "in")
  /\ UNCHANGED <<BucketOf, pending, cond, queue, held, should_park, mutex, resume, back, wakeVars>>
GrabLock(t) ==
  /\ At(t, "full") /\ "lock" \notin expected[t] /\ state[mutex[t]] = expected[t]
  /\ state' = [state EXCEPT ![mutex[t]] = @ \cup {"lock"}]
  /\ expected' = [expected EXCEPT ![t] = {}]
  /\ Goto(t, "in")
  /\ UNCHANGED <<BucketOf, pending, cond, queue, held, should_park, mutex, resume, back, wakeVars>>

MarkParked(t) ==
  /\ At(t, "full") /\ expected[t] = {"lock"} /\ state[mutex[t]] = expected[t]
  /\ state' = [state EXCEPT ![mutex[t]] = @ \cup {"parked"}]
  /\ expected' = [expected EXCEPT ![t] = {}]
  /\ Goto(t, "park")
  /\ UNCHANGED <<BucketOf, pending, cond, queue, held, should_park, mutex, resume, back, wakeVars>>

AlreadyParked(t) ==
  /\ At(t, "full") /\ expected[t] = {"lock", "parked"}
  /\ expected' = [expected EXCEPT ![t] = {}]
  /\ Goto(t, "park")
  /\ UNCHANGED <<BucketOf, pending, state, cond, queue, held, should_park, mutex, resume, back, wakeVars>>

-----------------------------------------------------------------------------
(* The parking lot *)

Free(a) == held[BucketOf[a]] = NULL
Enqueue(t, a) ==
  /\ queue' = [queue EXCEPT ![a] = Append(@, t)]
  /\ should_park' = [should_park EXCEPT ![t] = TRUE]

\* park for a mutex: queue up only if the mutex is still locked with waiters.
MutLockedIsEnough(m) == "lock" \in state[m]
mutex_parking_control_validate(m) == state[m] = {"lock", "parked"}

Park(t) ==
  /\ At(t, "park") /\ Free(mutex[t])
  /\ IF mutex_parking_control_validate(mutex[t])
     THEN /\ Enqueue(t, mutex[t])
          /\ resume' = [resume EXCEPT ![t] = "load"]
          /\ Goto(t, "parked")
     ELSE /\ Goto(t, "load")
          /\ UNCHANGED <<queue, should_park, resume>>
  /\ UNCHANGED <<BucketOf, pending, state, cond, held, mutex, expected, back, wakeVars>>

MutResumeAnyway(t) ==
  /\ At(t, "parked")
  /\ Goto(t, resume[t])
  /\ UNCHANGED <<BucketOf, pending, state, cond, queue, held, should_park, lockVars, back, wakeVars>>
Resume(t) ==
  /\ At(t, "parked") /\ ~should_park[t]
  /\ Goto(t, resume[t])
  /\ UNCHANGED <<BucketOf, pending, state, cond, queue, held, should_park, lockVars, back, wakeVars>>

\* unpark, after the bucket has been unlocked.
Unpark(t) ==
  /\ At(t, "unpark")
  /\ should_park' = [should_park EXCEPT ![target[t]] = FALSE]
  /\ target' = [target EXCEPT ![t] = NULL]
  /\ Goto(t, back[t])
  /\ UNCHANGED <<BucketOf, pending, state, cond, queue, held, lockVars, back, control, unpark_one>>

-----------------------------------------------------------------------------
(* fast_mutex::unlock *)

Unlock(t) ==
  /\ At(t, "in")
  /\ back' = [back EXCEPT ![t] = "out"]
  /\ Goto(t, "unlock")
  /\ UNCHANGED <<BucketOf, pending, state, cond, queue, held, should_park, lockVars, wakeVars>>

FastUnlock(t) ==
  /\ At(t, "unlock")
  /\ \/ /\ state[mutex[t]] = {"lock"}
        /\ state' = [state EXCEPT ![mutex[t]] = {}]
        /\ Goto(t, back[t])
     \/ Goto(t, "unlock_full") /\ UNCHANGED state
  /\ UNCHANGED <<BucketOf, pending, cond, queue, held, should_park, lockVars, back, wakeVars>>

UnlockFull(t) ==
  /\ At(t, "unlock_full")
  /\ IF state[mutex[t]] = {"lock"}
     THEN state' = [state EXCEPT ![mutex[t]] = {}] /\ Goto(t, back[t])
     ELSE Goto(t, "unpark_one") /\ UNCHANGED state
  /\ UNCHANGED <<BucketOf, pending, cond, queue, held, should_park, lockVars, back, wakeVars>>

\* mutex_parking_control_unpark: release the mutex, remembering other waiters.
MutWaitersForgotten(more_waiters) == {}
mutex_parking_control_unpark(more_waiters) == IF more_waiters THEN {"parked"} ELSE {}

\* unpark_one for a mutex.
UnparkOne(t) ==
  LET m == mutex[t]
      q == queue[m]
  IN /\ At(t, "unpark_one") /\ Free(m)
     /\ state' = [state EXCEPT ![m] = mutex_parking_control_unpark(Len(q) > 1)]
     /\ IF q = <<>>
        THEN Goto(t, back[t]) /\ UNCHANGED <<queue, target>>
        ELSE /\ queue' = [queue EXCEPT ![m] = Tail(q)]
             /\ target' = [target EXCEPT ![t] = Head(q)]
             /\ Goto(t, "unpark")
     /\ UNCHANGED <<BucketOf, pending, cond, held, should_park, lockVars, back, control, unpark_one>>

-----------------------------------------------------------------------------
(* fast_cond::wait *)

Wait(t, c) ==
  /\ At(t, "in") /\ Call(t, "Wait", c)
  /\ control' = [control EXCEPT ![t] = <<c, mutex[t]>>]
  /\ Goto(t, "wait")
  /\ UNCHANGED <<BucketOf, state, cond, queue, held, should_park, lockVars, back, unpark_one, target>>

\* park for a condition, with wait_parking_control_validate; the mutex is released
\* by before_sleep, after the bucket has been unlocked.
ParkWaiter(t) ==
  LET c == control[t][1]
      m == mutex[t]
  IN /\ At(t, "wait") /\ Free(c)
     /\ IF cond[c] \in {NULL, m}
        THEN /\ cond' = [cond EXCEPT ![c] = m]
             /\ Enqueue(t, c)
             /\ resume' = [resume EXCEPT ![t] = "lock"]
             /\ back' = [back EXCEPT ![t] = "parked"]
             /\ Goto(t, "unlock")
        ELSE Goto(t, "in") /\ UNCHANGED <<cond, queue, should_park, resume, back>>
     /\ UNCHANGED <<BucketOf, pending, state, held, mutex, expected, wakeVars>>

-----------------------------------------------------------------------------
(* fast_cond::signal and fast_cond::broadcast, with the mutex or without *)

Notify(t, c, first_step) ==
  /\ pc[t] \in {"in", "out"}
  /\ IF cond[c] = NULL
     THEN UNCHANGED <<pc, back, control>>
     ELSE /\ back' = [back EXCEPT ![t] = pc[t]]
          /\ control' = [control EXCEPT ![t] = <<c, cond[c]>>]
          /\ Goto(t, first_step)
  /\ UNCHANGED <<BucketOf, state, cond, queue, held, should_park, lockVars, unpark_one, target>>
Signal(t, c) == Call(t, "Signal", c) /\ Notify(t, c, "signal")
Broadcast(t, c) == Call(t, "Broadcast", c) /\ Notify(t, c, "first")

\* signal_parking_control_unpark: the last waiter unties the condition.
signal_parking_control_unpark(c, more_waiters) == IF more_waiters THEN cond[c] ELSE NULL

SignalOne(t) ==
  LET c == control[t][1]
      q == queue[c]
  IN /\ At(t, "signal") /\ Free(c)
     /\ cond' = [cond EXCEPT ![c] = signal_parking_control_unpark(c, Len(q) > 1)]
     /\ IF q = <<>>
        THEN Goto(t, back[t]) /\ UNCHANGED <<queue, target>>
        ELSE /\ queue' = [queue EXCEPT ![c] = Tail(q)]
             /\ target' = [target EXCEPT ![t] = Head(q)]
             /\ Goto(t, "unpark")
     /\ UNCHANGED <<BucketOf, pending, state, held, should_park, lockVars, back, control, unpark_one>>

\* lock_bucket_pair: the bucket with the smaller hash is locked first.
HashFrom(t) == BucketOf[control[t][1]]
HashTo(t) == BucketOf[control[t][2]]
MutFromFirst(t) == <<HashFrom(t), HashTo(t)>>
BucketOrder(t) == IF HashFrom(t) < HashTo(t) THEN <<HashFrom(t), HashTo(t)>> ELSE <<HashTo(t), HashFrom(t)>>
FirstBucket(t) == BucketOrder(t)[1]
SecondBucket(t) == BucketOrder(t)[2]

LockFirst(t) ==
  /\ At(t, "first") /\ held[FirstBucket(t)] = NULL
  /\ held' = [held EXCEPT ![FirstBucket(t)] = t]
  /\ Goto(t, IF FirstBucket(t) = SecondBucket(t) THEN "validate" ELSE "second")
  /\ UNCHANGED <<BucketOf, pending, state, cond, queue, should_park, lockVars, back, wakeVars>>

LockSecond(t) ==
  /\ At(t, "second") /\ held[SecondBucket(t)] = NULL
  /\ held' = [held EXCEPT ![SecondBucket(t)] = t]
  /\ Goto(t, "validate")
  /\ UNCHANGED <<BucketOf, pending, state, cond, queue, should_park, lockVars, back, wakeVars>>

UnlockPair(t) == held' = [b \in Buckets |-> IF held[b] = t THEN NULL ELSE held[b]]

\* broadcast_parking_control_validate, up to the question to the mutex.
Validate(t) ==
  LET c == control[t][1]
      m == control[t][2]
  IN /\ At(t, "validate")
     /\ IF cond[c] # m
        THEN UnlockPair(t) /\ Goto(t, back[t]) /\ UNCHANGED cond
        ELSE /\ cond' = [cond EXCEPT ![c] = NULL]
             /\ Goto(t, "make_parked")
             /\ UNCHANGED held
     /\ UNCHANGED <<BucketOf, pending, state, queue, should_park, lockVars, back, wakeVars>>

\* make_parked_if_locked, by its answer.
MakeParkedIfLocked(t) ==
  LET m == control[t][2]
      locked == "lock" \in state[m]
  IN /\ At(t, "make_parked")
     /\ state' = [state EXCEPT ![m] = IF locked THEN @ \cup {"parked"} ELSE @]
     /\ unpark_one' = [unpark_one EXCEPT ![t] = ~locked]
     /\ Goto(t, "requeue")
     /\ UNCHANGED <<BucketOf, pending, cond, queue, held, should_park, lockVars, back, control, target>>

\* broadcast_parking_control_requeue_callback: make_parked when the mutex was free
\* and threads now wait for it.
requeue_callback(t, some_requeued) == unpark_one[t] /\ some_requeued

\* unpark_requeue: the waiters move to the mutex, all but the one to wake.
Wakes(t) == unpark_one[t] /\ queue[control[t][1]] # <<>>
Moved(t) == LET q == queue[control[t][1]] IN IF Wakes(t) THEN Tail(q) ELSE q
Requeue(t) ==
  LET c == control[t][1]
      m == control[t][2]
  IN /\ At(t, "requeue")
     /\ queue' = [queue EXCEPT ![c] = <<>>, ![m] = @ \o Moved(t)]
     /\ state' = [state EXCEPT ![m] = IF requeue_callback(t, Moved(t) # <<>>) THEN @ \cup {"parked"} ELSE @]
     /\ UnlockPair(t)
     /\ target' = [target EXCEPT ![t] = IF Wakes(t) THEN Head(queue[c]) ELSE NULL]
     /\ Goto(t, IF Wakes(t) THEN "unpark" ELSE back[t])
     /\ UNCHANGED <<BucketOf, pending, cond, should_park, lockVars, back, control, unpark_one>>

-----------------------------------------------------------------------------
\* The steps of a call in progress, and giving the mutex back.
Step(t) ==
  \/ FastLock(t) \/ LoadState(t) \/ Retry(t) \/ GrabLock(t) \/ MarkParked(t) \/ AlreadyParked(t)
  \/ Park(t) \/ Resume(t) \/ Unpark(t)
  \/ Unlock(t) \/ FastUnlock(t) \/ UnlockFull(t) \/ UnparkOne(t)
  \/ ParkWaiter(t) \/ SignalOne(t)
  \/ LockFirst(t) \/ LockSecond(t) \/ Validate(t) \/ MakeParkedIfLocked(t) \/ Requeue(t)

Next ==
  \E t \in Threads :
    \/ Step(t)
    \/ \E m \in Mutexes : Lock(t, m)
    \/ \E c \in Conds : Wait(t, c) \/ Signal(t, c) \/ Broadcast(t, c)

Spec == Init /\ [][Next]_vars
\* Threads run on, and give back a mutex they hold.
FairSpec == Spec /\ \A t \in Threads : WF_vars(Step(t))

-----------------------------------------------------------------------------
(* Properties *)

Notifying == {"signal", "first", "second", "validate", "make_parked", "requeue", "unpark"}
Owning(t) ==
  \/ pc[t] \in {"in", "wait", "unlock", "unlock_full", "unpark_one"}
  \/ pc[t] \in Notifying /\ back[t] = "in"
Owns(t, m) == mutex[t] = m /\ Owning(t)

PC == {"out", "lock", "load", "full", "park", "parked", "in", "unlock", "unlock_full", "unpark_one", "wait"}
      \cup Notifying

TypeOK ==
  /\ BucketOf \in [Addresses -> Buckets]
  /\ state \in [Mutexes -> SUBSET {"lock", "parked"}]
  /\ cond \in [Conds -> Mutexes \cup {NULL}]
  /\ queue \in [Addresses -> Seq(Threads)]
  /\ held \in [Buckets -> Threads \cup {NULL}]
  /\ should_park \in [Threads -> BOOLEAN]
  /\ pc \in [Threads -> PC]
  /\ mutex \in [Threads -> Mutexes \cup {NULL}]
  /\ expected \in [Threads -> SUBSET {"lock", "parked"}]
  /\ resume \in [Threads -> {"load", "lock"}]
  /\ back \in [Threads -> {"in", "out", "parked"}]
  /\ control \in [Threads -> (Conds \cup {NULL}) \X (Mutexes \cup {NULL})]
  /\ unpark_one \in [Threads -> BOOLEAN]
  /\ target \in [Threads -> Threads \cup {NULL}]

\* fast_mutex and fast_cond implement Monitor: the owner of a mutex is the thread
\* between the compare-and-swap that sets the lock bit and the store that clears
\* it, and the waiters of a condition are those in its queue.
owner == [m \in Mutexes |-> IF \E t \in Threads : Owns(t, m)
                            THEN CHOOSE t \in Threads : Owns(t, m) ELSE NULL]
InQueue(t, a) == \E i \in 1..Len(queue[a]) : queue[a][i] = t
waiting == [c \in Conds |-> {t \in Threads : InQueue(t, c)}]
M == INSTANCE Monitor
ImplementsMonitor == M!Spec

\* The lock bit is set exactly while some thread owns the mutex, and one does.
MutualExclusion ==
  \A m \in Mutexes : /\ "lock" \in state[m] <=> \E t \in Threads : Owns(t, m)
                     /\ \A t, u \in Threads : Owns(t, m) /\ Owns(u, m) => t = u

\* No wake-up can be missed.  While threads are queued for a mutex its parked bit
\* is set, so that the fast path of unlock fails (unlock_full wakes one); while
\* threads are queued for a condition its word names their mutex, so that signal
\* and broadcast do not return at once.  A broadcast that holds the buckets is
\* about to restore this.
NoMissedWakeup ==
  /\ \A m \in Mutexes : queue[m] # <<>> => "parked" \in state[m]
  /\ \A c \in Conds : queue[c] # <<>> =>
       cond[c] # NULL \/ \E t \in Threads : /\ pc[t] \in {"make_parked", "requeue"}
                                            /\ control[t][1] = c

\* A thread taken off a queue is unparked once, by the thread that took it off,
\* which therefore touches a queue_data that still exists: it lives on the stack
\* of park().
UnparkedOnce ==
  /\ \A t \in Threads : pc[t] = "unpark" =>
       /\ should_park[target[t]] /\ \A a \in Addresses : ~InQueue(target[t], a)
       /\ \A u \in Threads : pc[u] = "unpark" /\ target[u] = target[t] => u = t
  /\ \A a \in Addresses : \A i \in 1..Len(queue[a]) : should_park[queue[a][i]]

\* Every call returns, however the others run, unless it waits for a condition:
\* whoever asks for a mutex, for the first time or after a signal or a broadcast,
\* gets it, and broadcasts do not block one another with their bucket pairs.
CallsReturn ==
  \A t \in Threads :
    pc[t] \notin {"in", "out"} ~> (pc[t] \in {"in", "out"} \/ \E c \in Conds : InQueue(t, c))
=============================================================================
