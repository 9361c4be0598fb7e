------------------------------ MODULE MCAsync -------------------------------
(* An async producer with folded storage, a second async producer, and     *)
(* their consumer: the producer acquires "fold" for a slot and releases    *)
(* "made", the other releases "more"; the consumer acquires one of "made"  *)
(* and two of "more", one after the other, and releases "fold" (the shape  *)
(* that AsyncProducers and StorageFolding generate; the two of "more" are  *)
(* released one by one, the case a comment in halide_default_semaphore_-   *)
(* release asks about).                                                    *)
EXTENDS ThreadPool, Functions, TLC

CONSTANTS app, fork, prod, side, cons, made, more, fold

Iters == 0..1
Slots == 1
Release(s) == [op |-> "release", sem |-> s, n |-> 1]
Acquired(s) == IF s = more THEN 2 ELSE 1
Stage(n, sems) == [extent |-> n, serial |-> TRUE, min_threads |-> 0, sems |-> sems,
                   count |-> [s \in Sems |-> IF s \in Range(sems) THEN Acquired(s) ELSE 0]]
MCTask == prod :> Stage(2, <<fold>>) @@ side :> Stage(4, <<>>) @@ cons :> Stage(2, <<made, more>>)
MCCallOf == [j \in Jobs |-> fork]
MCCallJobs == fork :> <<prod, side, cons>>
MCCallParent == fork :> NULL
MCBody == prod :> [i \in Iters |-> <<Release(made)>>]
       @@ side :> [i \in 0..3 |-> <<Release(more)>>]
       @@ cons :> [i \in Iters |-> <<Release(fold)>>]
MCProgram == app :> << [op |-> "init", sem |-> made, n |-> 0],
                     [op |-> "init", sem |-> more, n |-> 0],
                     [op |-> "init", sem |-> fold, n |-> Slots],
                     [op |-> "call", call |-> fork] >>
MCSemInit == [s \in Sems |-> 0]

-----------------------------------------------------------------------------
\* Iteration i of task j has made its first release.
Released(j, i) ==
  \/ <<j, i>> \in completed
  \/ \E f \in Loops : /\ cur[f] = j /\ pc[f] # "claim" /\ Iteration(f) = i
                      /\ pc[f] = "notify" \/ run[f].step > 1

\* The consumer never starts an iteration before the producer has released what
\* it reads, and the producer never starts to overwrite a slot of the folded
\* storage that the consumer has not released: halide_do_loop_task is given only
\* iterations whose semaphores make_runnable has acquired, also when a worker
\* claims several at once.
FoldedStorageRespected ==
  \A i \in Iters : /\ ran[cons][i] > 0 => Released(prod, i) /\ Released(side, 2 * i + 1)
                   /\ ran[prod][i] > 0 /\ i >= Slots => Released(cons, i - Slots)
=============================================================================
