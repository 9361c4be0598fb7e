------------------------------ MODULE Monitor -------------------------------
(***************************************************************************)
(* What halide_mutex and halide_cond promise their callers, and what the   *)
(* thread pool, the cache and the profiler rely on: mutual exclusion, and  *)
(* a thread that sleeps on a condition gets on only after a signal or a    *)
(* broadcast has taken it off the set of waiters.                          *)
(*                                                                         *)
(* Waiting is two steps, as in the code: a thread joins the waiters while  *)
(* it still owns the mutex, and then releases it.                          *)
(***************************************************************************)
CONSTANTS Threads, Mutexes, Conds, NULL

VARIABLES
  owner,    \* the thread that owns each mutex
  waiting   \* the threads that wait on each condition
vars == <<owner, waiting>>

Init ==
  /\ owner = [m \in Mutexes |-> NULL]
  /\ waiting = [c \in Conds |-> {}]

Lock(t, m) ==
  /\ owner[m] = NULL
  /\ \A c \in Conds : t \notin waiting[c]
  /\ owner' = [owner EXCEPT ![m] = t]
  /\ UNCHANGED waiting

Unlock(t, m) ==
  /\ owner[m] = t
  /\ owner' = [owner EXCEPT ![m] = NULL]
  /\ UNCHANGED waiting

Sleep(t, m, c) ==
  /\ owner[m] = t
  /\ waiting' = [waiting EXCEPT ![c] = @ \cup {t}]
  /\ UNCHANGED owner

Signal(c) ==
  /\ \E t \in waiting[c] : waiting' = [waiting EXCEPT ![c] = @ \ {t}]
  /\ UNCHANGED owner

Broadcast(c) ==
  /\ waiting' = [waiting EXCEPT ![c] = {}]
  /\ UNCHANGED owner

Next ==
  \/ \E t \in Threads, m \in Mutexes : Lock(t, m) \/ Unlock(t, m)
  \/ \E t \in Threads, m \in Mutexes, c \in Conds : Sleep(t, m, c)
  \/ \E c \in Conds : Signal(c) \/ Broadcast(c)

Spec == Init /\ [][Next]_vars
=============================================================================
