-------------------------- MODULE ParallelTaskSetup --------------------------
(***************************************************************************)
(* The loop at the start of halide_default_do_parallel_tasks that copies   *)
(* the tasks it is given into work structures on the stack, before any     *)
(* lock is taken (src/runtime/thread_pool_common.h).  ThreadPool takes     *)
(* over where this loop ends, for calls whose tasks all have extents > 0.  *)
(***************************************************************************)
EXTENDS Integers, Sequences, SequencesExt

CONSTANTS MaxTasks,    \* bound: tasks of a call
          MaxExtent,   \* bound: size of an extent, which may be negative
          UNINIT       \* what __builtin_alloca leaves in an element of jobs

VARIABLES given,       \* the argument array: task k has id k
          tasks,       \* the pointer "tasks", as an index into given
          num_tasks, i,
          jobs         \* the alloca'd array, one element per task given

vars == <<given, tasks, num_tasks, i, jobs>>

Init ==
  /\ \E n \in 1..MaxTasks : \E e \in [1..n -> -MaxExtent..MaxExtent] :
       given = [k \in 1..n |-> [id |-> k, extent |-> e[k]]]
  /\ tasks = 1 /\ i = 1
  /\ num_tasks = Len(given)
  /\ jobs = [k \in 1..Len(given) |-> UNINIT]

InLoop == i <= num_tasks

\* "Skip extent zero jobs": the pointer stays where it is.
SkipZero ==
  /\ InLoop /\ given[tasks].extent <= 0
  /\ num_tasks' = num_tasks - 1
  /\ i' = i + 1
  /\ UNCHANGED <<given, tasks, jobs>>

NextTask == tasks + 1

CopyTask ==
  /\ InLoop /\ given[tasks].extent > 0
  /\ jobs' = [jobs EXCEPT ![i] = given[tasks]]
  /\ tasks' = NextTask
  /\ i' = i + 1
  /\ UNCHANGED <<given, num_tasks>>

\* The loop is left: return 0, or enqueue the first num_tasks elements of jobs.
Done == ~InLoop /\ UNCHANGED vars

Next == SkipZero \/ CopyTask \/ Done
Spec == Init /\ [][Next]_vars

-----------------------------------------------------------------------------
Nonempty(t) == t.extent > 0
Enqueued == SubSeq(jobs, 1, num_tasks)

\* Tasks without an iteration are skipped and every other task is enqueued, in order
\* (the comment "Skip extent zero jobs").
ZeroExtentSkipped == ~InLoop => Enqueued = SelectSeq(given, Nonempty)
=============================================================================
