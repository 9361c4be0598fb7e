---------------------------- MODULE MCOverCommit ----------------------------
(* Two nested parallel loops around an async producer and its consumer.    *)
(* By MinThreads in CodeGen_LLVM.cpp the inner task needs one thread and   *)
(* the outer task two.  The innermost forks are left out: the assertion is *)
(* reached before any of them is made.                                     *)
EXTENDS ThreadPool, TLC

CONSTANTS app, top, outer, d1, inner1, d2, inner2

MCTask ==
  LET Plain(n, m) == [extent |-> n, serial |-> FALSE, min_threads |-> m, sems |-> <<>>,
                      count |-> <<>>]
  IN outer :> Plain(2, 2) @@ inner1 :> Plain(4, 1) @@ inner2 :> Plain(1, 1)
MCCallOf == outer :> top @@ inner1 :> d1 @@ inner2 :> d2
MCCallJobs == top :> <<outer>> @@ d1 :> <<inner1>> @@ d2 :> <<inner2>>
MCCallParent == top :> NULL @@ d1 :> outer @@ d2 :> outer
MCBody ==
  LET Inner(x) == << [op |-> "call", call |-> x] >>
  IN outer :> [i \in 0..1 |-> IF i = 0 THEN Inner(d1) ELSE Inner(d2)]
     @@ inner1 :> [i \in 0..3 |-> <<>>] @@ inner2 :> [i \in 0..0 |-> <<>>]
MCProgram == app :> << [op |-> "call", call |-> top] >>
MCSemInit == <<>>
=============================================================================
