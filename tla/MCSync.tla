------------------------------- MODULE MCSync -------------------------------
(* Programs that bring out the cases of fast_mutex and fast_cond.          *)
EXTENDS Synchronization, TLC, FiniteSets

CONSTANTS t1, t2, t3, t4, m1, m2, c1, c2

Program(bucket, calls) == [bucket |-> bucket, calls |-> [t \in Threads |-> calls[t]]]
Hash(cb, mb, db, nb) == c1 :> cb @@ m1 :> mb @@ c2 :> db @@ m2 :> nb
Waiter(c, m) == {<<"Lock", m, 1>>, <<"Wait", c, 1>>}

\* Two waiters, and one thread that signals and broadcasts with or without the mutex.
TwoWaiters ==
  {Program(h, t1 :> Waiter(c1, m1) @@ t2 :> Waiter(c1, m1) @@ t4 :> {}
              @@ t3 :> {<<"Lock", m1, 1>>, <<"Signal", c1, 1>>, <<"Broadcast", c1, 1>>}) :
     h \in {Hash(0, 1, 0, 0), Hash(0, 0, 0, 0)}}

\* Two broadcasts that lock the same buckets, with conditions and mutexes crossed.
Crossed ==
  {Program(Hash(0, 1, 1, 0), t1 :> Waiter(c1, m1) @@ t2 :> Waiter(c2, m2)
                             @@ t3 :> {<<"Broadcast", c1, 1>>} @@ t4 :> {<<"Broadcast", c2, 1>>})}

\* One condition used with two mutexes.
TwoMutexes ==
  {Program(Hash(0, 1, 0, 0), t1 :> Waiter(c1, m1) @@ t2 :> Waiter(c1, m2) @@ t4 :> {}
                             @@ t3 :> {<<"Signal", c1, 1>>, <<"Broadcast", c1, 1>>})}

\* Contention for one mutex.
Contention ==
  {Program(Hash(0, 0, 0, 0), t1 :> {<<"Lock", m1, 1>>, <<"Lock", m1, 2>>} @@ t2 :> {<<"Lock", m1, 1>>}
                             @@ t3 :> {<<"Lock", m1, 1>>} @@ t4 :> {<<"Lock", m1, 1>>})}

MCClients == TwoWaiters \cup Crossed \cup TwoMutexes \cup Contention
=============================================================================
