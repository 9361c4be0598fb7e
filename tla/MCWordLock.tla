----------------------------- MODULE MCWordLock -----------------------------
EXTENDS WordLock, TLC

CONSTANTS t1, t2, t3, t4

\* Three threads that come back, or four at once: three can then be queued.
MCQuotas == {t1 :> 2 @@ t2 :> 2 @@ t3 :> 2 @@ t4 :> 0, [t \in Threads |-> 1]}
=============================================================================
