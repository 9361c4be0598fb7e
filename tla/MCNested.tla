------------------------------ MODULE MCNested ------------------------------
(* A serial loop that consumes an async producer; each of its iterations   *)
(* runs a parallel loop, one iteration of which forks an async producer    *)
(* and its consumer.  By MinThreads in CodeGen_LLVM.cpp the outer task     *)
(* needs two threads, the inner one thread and the innermost none.         *)
EXTENDS ThreadPool, TLC

CONSTANTS app, top, outer, ready, mid, inner, fork, prod, cons, made

MCTask ==
  LET Kind(n, m, serial, s) ==
        [extent |-> n, min_threads |-> m, serial |-> serial, sems |-> s,
         count |-> [x \in Sems |-> IF <<x>> = s THEN 1 ELSE 0]]
  IN outer :> Kind(2, 2, TRUE, <<ready>>) @@ inner :> Kind(2, 1, FALSE, <<>>)
     @@ prod :> Kind(1, 0, FALSE, <<>>) @@ cons :> Kind(1, 0, FALSE, <<made>>)
MCCallOf == outer :> top @@ inner :> mid @@ prod :> fork @@ cons :> fork
MCCallJobs == top :> <<outer>> @@ mid :> <<inner>> @@ fork :> <<prod, cons>>
MCCallParent == top :> NULL @@ mid :> outer @@ fork :> inner
MCBody ==
  LET Set(s, n) == [op |-> "init", sem |-> s, n |-> n]
      Call(x) == [op |-> "call", call |-> x]
      Release(s) == [op |-> "release", sem |-> s, n |-> 1]
  IN outer :> [i \in 0..1 |-> << Call(mid) >>]
     @@ inner :> [i \in 0..1 |-> IF i = 0 THEN << Set(made, 0), Call(fork) >> ELSE <<>>]
     @@ prod :> [i \in 0..0 |-> << Release(made) >>] @@ cons :> [i \in 0..0 |-> <<>>]
\* The producer of the outer loop has already run.
MCProgram == app :> << [op |-> "init", sem |-> ready, n |-> 2], [op |-> "call", call |-> top] >>
MCSemInit == [s \in Sems |-> 0]
=============================================================================
