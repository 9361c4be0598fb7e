------------------------------ MODULE MCParFor ------------------------------
(* Two clients run a parallel loop each while the application changes the  *)
(* number of threads and shuts the pool down between pipelines.            *)
EXTENDS ThreadPool, TLC

CONSTANTS k1, k2, c1, c2, j1, j2

Par(n) == [extent |-> n, serial |-> FALSE, min_threads |-> 0, sems |-> <<>>, count |-> <<>>]
MCTask == j1 :> Par(2) @@ j2 :> Par(1)
MCCallOf == j1 :> c1 @@ j2 :> c2
MCCallJobs == c1 :> <<j1>> @@ c2 :> <<j2>>
MCCallParent == c1 :> NULL @@ c2 :> NULL
MCBody == j1 :> [i \in 0..1 |-> <<>>] @@ j2 :> [i \in 0..0 |-> <<>>]
Call(c) == [op |-> "call", call |-> c]
MCProgram == k1 :> <<Call(c1)>> @@ k2 :> <<Call(c2), Call(c2)>>
MCSemInit == <<>>
MCThreadRequests == {-1, 0, 9}
=============================================================================
