----------------------------- MODULE ThreadPool -----------------------------
(***************************************************************************)
(* The default thread pool of the Halide runtime                           *)
(* (src/runtime/thread_pool_common.h).                                     *)
(*                                                                         *)
(* A frame is one activation on some thread's stack: a client running its  *)
(* program, a worker thread's loop (worker_thread_already_locked(NULL)),   *)
(* or the loop of the owner of a call of halide_do_par_for or              *)
(* halide_do_parallel_tasks (worker_thread_already_locked(jobs + i) for    *)
(* i = 0, 1, ...).  A call made by a task is a new frame; the frame that   *)
(* made it waits in pc "calling", so the call stack of a thread is the     *)
(* chain of callers and threads need no other identity.                    *)
(*                                                                         *)
(* What the tasks do is a parameter: Body and Program list the runtime     *)
(* calls they make.  Everything done with work_queue.mutex held happens in *)
(* actions of the frame that holds it; the semaphores are also changed by  *)
(* frames that do not.                                                     *)
(***************************************************************************)
EXTENDS Integers, Sequences, FiniteSets, Sums

CONSTANTS
  Clients,          \* threads of the application that call pipelines
  Calls,            \* invocations of do_par_for / do_parallel_tasks
  Jobs,             \* struct work, one per task of a call
  Sems,             \* halide_semaphore_t
  NULL,
  MAX_THREADS,      \* capacity of work_queue.threads
  DEFAULT_THREADS,  \* default_desired_num_threads()
  ThreadRequests,   \* arguments given to halide_set_num_threads
  MaxRequests,      \* bound: how often the number of threads is changed
  MaxShutdowns,     \* bound: how often the pool is shut down
  Task,             \* [Jobs -> halide_parallel_task_t]
  CallOf,           \* the call that allocates a job on its stack
  CallJobs,         \* the jobs array of a call
  CallParent,       \* the task_parent argument of a call
  Body,             \* Body[j][i]: runtime calls of iteration i of task j
  Program,          \* runtime calls of a client
  SemInit,          \* halide_semaphore_init values
  MayFail           \* tasks whose function may return nonzero

Workers == 1..MAX_THREADS
Loops == Workers \cup Calls
Frames == Clients \cup Loops

Steps == [op : {"init", "release"}, sem : Sems, n : Nat] \cup [op : {"call"}, call : Calls]

ASSUME FrameAssumption ==
  /\ MAX_THREADS \in Nat \ {0}
  /\ DEFAULT_THREADS \in Int
  /\ ThreadRequests \subseteq Int
  /\ MaxRequests \in Nat
  /\ MaxShutdowns \in Nat
  /\ IsFiniteSet(Clients) /\ IsFiniteSet(Calls)
  /\ Clients \cap Loops = {}
  /\ Calls \cap Workers = {}
  /\ NULL \notin Jobs \cup Frames

ASSUME TaskAssumption ==
  /\ Task \in [Jobs -> [extent : Nat \ {0}, serial : BOOLEAN, min_threads : Nat,
                        sems : Seq(Sems), count : [Sems -> Nat]]]
  /\ SemInit \in [Sems -> Nat]
  /\ MayFail \subseteq Jobs
  /\ \A j \in Jobs : /\ DOMAIN Body[j] = 0..(Task[j].extent - 1)
                     /\ \A i \in 0..(Task[j].extent - 1) : Body[j][i] \in Seq(Steps)
  /\ Program \in [Clients -> Seq(Steps)]

Holds(s, j) == \E i \in 1..Len(s) : s[i] = j
Distinct(s) == \A i, k \in 1..Len(s) : s[i] = s[k] => i = k

ASSUME CallAssumption ==
  /\ CallOf \in [Jobs -> Calls]
  /\ CallJobs \in [Calls -> Seq(Jobs)]
  /\ \A c \in Calls : CallJobs[c] # <<>>
  /\ \A c \in Calls : Distinct(CallJobs[c])
  /\ \A c \in Calls : \A j \in Jobs : CallOf[j] = c <=> Holds(CallJobs[c], j)
  /\ CallParent \in [Calls -> Jobs \cup {NULL}]

\* The code CodeGen_LLVM generates passes on the task it runs in (__task_parent).
ASSUME ParentAssumption ==
  /\ \A j \in Jobs : \A i \in DOMAIN Body[j] : \A k \in 1..Len(Body[j][i]) :
       Body[j][i][k].op = "call" => CallParent[Body[j][i][k].call] \in {NULL, j}
  /\ \A f \in Clients : \A k \in 1..Len(Program[f]) :
       Program[f][k].op = "call" => CallParent[Program[f][k].call] = NULL

VARIABLES
  \* struct work_queue_t
  mutex,                    \* the frame holding work_queue.mutex, or NULL
  jobs,                     \* the job stack, top first
  desired_threads_working, threads_created, threads_reserved,
  a_team_size, target_a_team_size,
  workers_sleeping, owners_sleeping,
  shutdown, initialized,
  \* struct work, by job
  extent, min, active_workers, exit_status, next_semaphore,
  owner_is_sleeping, job_reserved,
  \* halide_semaphore_impl_t
  value,
  \* frames
  pc,
  cursor,                   \* position of the scan in the job stack
  cur,                      \* the job whose task the frame runs, or NULL
  run,                      \* the locals of the frame's use of cur
  idx,                      \* which of its jobs the owner is joining
  caller,                   \* the frame that made a call
  status,                   \* exit_status of do_parallel_tasks
  \* the application and history
  requests, shutdowns,
  ran,                      \* how often each iteration has been started
  completed                 \* the iterations that ran to their end without error

queueVars == <<desired_threads_working, threads_created, a_team_size,
               target_a_team_size, shutdown, initialized>>
sleepVars == <<workers_sleeping, owners_sleeping, owner_is_sleeping>>
jobVars == <<extent, min, active_workers, exit_status, job_reserved, threads_reserved>>
semVars == <<value, next_semaphore>>
frameVars == <<cursor, cur, run, idx, caller, status>>
envVars == <<requests, shutdowns, ran, completed>>
vars == <<mutex, jobs, queueVars, sleepVars, jobVars, semVars, pc, frameVars, envVars>>

-----------------------------------------------------------------------------
(* Helpers.                                                                *)

\* (An operator whose name starts with Mut is the definition that follows it
\* with a slip of the code; it is used by no definition.)
MutNoUpperClamp(n) == IF n < 1 THEN 1 ELSE n
clamp_num_threads(n) ==
  IF n > MAX_THREADS THEN MAX_THREADS ELSE IF n < 1 THEN 1 ELSE n

MutRunningIgnoresWorkers(j) == extent[j] > 0
running(j) == extent[j] > 0 \/ active_workers[j] > 0

Serial(j) == Task[j].serial
Parent(j) == CallParent[CallOf[j]]
JobsOf(c) == {j \in Jobs : CallOf[j] = c}

OwnedJob(f) == IF f \in Calls THEN CallJobs[f][idx[f]] ELSE NULL

\* A job lives on the stack of its call from the enqueue to the return.
Live(j) == pc[CallOf[j]] # "idle"

\* The frame's list of runtime calls, and the one it is at.
Iteration(f) == run[f].min + run[f].total + run[f].done
StepsOf(f) == IF f \in Clients THEN Program[f] ELSE Body[cur[f]][Iteration(f)]
AtStep(f, op) == /\ pc[f] = "body"
                 /\ run[f].step <= Len(StepsOf(f))
                 /\ StepsOf(f)[run[f].step].op = op
AtEnd(f) == pc[f] = "body" /\ run[f].step > Len(StepsOf(f))

NewRun(m) == [min |-> m, total |-> 0, iters |-> 1, done |-> 0, step |-> 1, result |-> 0]
IterationDone(r) == [r EXCEPT !.done = @ + 1, !.step = 1]
SliceDone(r) == [r EXCEPT !.total = @ + r.iters, !.iters = 0, !.done = 0, !.step = 1]
SliceFailed(r) == [r EXCEPT !.total = @ + r.iters, !.result = 1]

RemoveJob(s, k) == [i \in 1..(Len(s) - 1) |-> IF i < k THEN s[i] ELSE s[i + 1]]

\* halide_cond_broadcast on the condition variables C: the frames that sleep on
\* them must take the mutex again before they return from halide_cond_wait.
Wake(C, f) ==
  CASE pc[f] = "sleepA" /\ "A" \in C         -> "wokenA"
    [] pc[f] = "sleepB" /\ "B" \in C         -> "wokenB"
    [] pc[f] = "sleepOwner" /\ "owner" \in C -> "wokenOwner"
    [] OTHER -> pc[f]
Broadcast(C) == [f \in Frames |-> Wake(C, f)]

\* work::make_runnable, which stops at acquire k (past the end: all acquired).
\* What it has acquired it keeps.  A task never lists a semaphore twice.
MutNextSemaphoreKept(j, k) == k
NextSemaphore(j, k) == IF k <= Len(Task[j].sems) THEN k ELSE 1

make_runnable(j, k) ==
  LET t == Task[j]
      n == next_semaphore[j]
  IN /\ k \in n..(Len(t.sems) + 1)
     /\ \A m \in n..(k - 1) : value[t.sems[m]] >= t.count[t.sems[m]]
     /\ k <= Len(t.sems) => value[t.sems[k]] < t.count[t.sems[k]]
     /\ value' = [s \in Sems |-> IF \E m \in n..(k - 1) : t.sems[m] = s
                                 THEN value[s] - t.count[s] ELSE value[s]]
     /\ next_semaphore' = [next_semaphore EXCEPT ![j] = NextSemaphore(j, k)]

Acquires(j) == Len(Task[j].sems)

-----------------------------------------------------------------------------
(* The conditions under which a frame may start a job it finds.            *)

threads_available(j) ==
  LET p == Parent(j)
  IN IF p = NULL THEN (threads_created + 1) - threads_reserved
     ELSE IF active_workers[p] = 0 THEN Task[p].min_threads - job_reserved[p]
     ELSE active_workers[p] * Task[p].min_threads - job_reserved[p]

enough_threads(j) == threads_available(j) >= Task[j].min_threads
can_use_this_thread_stack(f, j) == f \in Workers \/ CallOf[j] = f \/ Task[j].min_threads = 0
can_add_worker(j) == Serial(j) => active_workers[j] = 0

CanStart(f, j) ==
  enough_threads(j) /\ can_use_this_thread_stack(f, j) /\ can_add_worker(j)

MutReserveKept(j, d) ==
  LET p == Parent(j)
  IN IF p = NULL
     THEN /\ threads_reserved' = threads_reserved + (IF d = 1 THEN Task[j].min_threads ELSE 0)
          /\ UNCHANGED job_reserved
     ELSE /\ job_reserved' = [job_reserved EXCEPT ![p] = @ + (IF d = 1 THEN Task[j].min_threads ELSE 0)]
          /\ UNCHANGED threads_reserved

\* Reserve d * min_threads threads for a run of j on its parent or on the pool.
Reserve(j, d) ==
  LET p == Parent(j)
  IN IF p = NULL
     THEN /\ threads_reserved' = threads_reserved + d * Task[j].min_threads
          /\ UNCHANGED job_reserved
     ELSE /\ job_reserved' = [job_reserved EXCEPT ![p] = @ + d * Task[j].min_threads]
          /\ UNCHANGED threads_reserved

-----------------------------------------------------------------------------
(* worker_thread_already_locked.  The frame holds the mutex in pc "head"   *)
(* and "scan".                                                             *)

AtHead(f) == mutex = f /\ pc[f] = "head"

\* worker_thread: the new thread takes the mutex.
EnterWorker(w) ==
  /\ pc[w] = "enter" /\ mutex = NULL
  /\ mutex' = w
  /\ pc' = [pc EXCEPT ![w] = "head"]
  /\ UNCHANGED <<jobs, queueVars, sleepVars, jobVars, semVars, frameVars, envVars>>

\* The loop of a worker ends when the pool shuts down.
ExitWorker(w) ==
  /\ AtHead(w) /\ shutdown
  /\ mutex' = NULL
  /\ pc' = [pc EXCEPT ![w] = "exited"]
  /\ UNCHANGED <<jobs, queueVars, sleepVars, jobVars, semVars, frameVars, envVars>>

\* The loop of an owner ends when its job is done; it joins the next one.
MutJoinedWithoutStatus(c) == status[c]
Joined(c) == IF exit_status[OwnedJob(c)] # 0 THEN exit_status[OwnedJob(c)] ELSE status[c]

JoinNext(c) ==
  /\ AtHead(c) /\ ~running(OwnedJob(c)) /\ idx[c] < Len(CallJobs[c])
  /\ status' = [status EXCEPT ![c] = Joined(c)]
  /\ idx' = [idx EXCEPT ![c] = @ + 1]
  /\ UNCHANGED <<mutex, jobs, queueVars, sleepVars, jobVars, semVars, pc,
                 cursor, cur, run, caller, envVars>>

\* All jobs are joined: the call returns.  A task whose call failed returns
\* that error at once; a client goes on.
Return(c) ==
  LET f == caller[c]
      r == Joined(c)
  IN /\ AtHead(c) /\ ~running(OwnedJob(c)) /\ idx[c] = Len(CallJobs[c])
     /\ mutex' = NULL
     /\ status' = [status EXCEPT ![c] = r]
     /\ pc' = [pc EXCEPT ![c] = "idle", ![f] = IF f \in Loops /\ r # 0 THEN "failed" ELSE "body"]
     /\ run' = [run EXCEPT ![f].step = @ + 1]
     /\ UNCHANGED <<jobs, queueVars, sleepVars, jobVars, semVars,
                    cursor, cur, idx, caller, envVars>>

\* The owner takes its failed job, which nobody works on, off the stack.
DropFailed(c) ==
  LET j == OwnedJob(c)
  IN /\ AtHead(c) /\ running(j) /\ exit_status[j] # 0 /\ active_workers[j] = 0
     /\ \E k \in 1..Len(jobs) : jobs[k] = j /\ jobs' = RemoveJob(jobs, k)
     /\ extent' = [extent EXCEPT ![j] = 0]
     /\ UNCHANGED <<mutex, queueVars, sleepVars, min, active_workers, exit_status,
                    job_reserved, threads_reserved, semVars, pc, frameVars, envVars>>

\* The failure of the task that made this call is passed on to the owned job.
InheritFailure(c) ==
  LET j == OwnedJob(c)
      p == Parent(j)
  IN /\ AtHead(c) /\ running(j) /\ exit_status[j] = 0
     /\ p # NULL /\ exit_status[p] # 0
     /\ exit_status' = [exit_status EXCEPT ![j] = exit_status[p]]
     /\ pc' = Broadcast({"owner"})
     /\ UNCHANGED <<mutex, jobs, queueVars, sleepVars, extent, min, active_workers,
                    job_reserved, threads_reserved, semVars, frameVars, envVars>>

BeginScan(f) ==
  /\ AtHead(f)
  /\ IF f \in Workers THEN ~shutdown
     ELSE LET j == OwnedJob(f)
              p == Parent(j)
          IN /\ running(j)
             /\ exit_status[j] # 0 => active_workers[j] > 0
             /\ exit_status[j] = 0 /\ p # NULL => exit_status[p] = 0
  /\ cursor' = [cursor EXCEPT ![f] = 1]
  /\ pc' = [pc EXCEPT ![f] = "scan"]
  /\ UNCHANGED <<mutex, jobs, queueVars, sleepVars, jobVars, semVars,
                 cur, run, idx, caller, status, envVars>>

AtScan(f) == mutex = f /\ pc[f] = "scan" /\ cursor[f] <= Len(jobs)

\* The job at the cursor may not be started by this frame now.
SkipJob(f) ==
  /\ AtScan(f) /\ ~CanStart(f, jobs[cursor[f]])
  /\ cursor' = [cursor EXCEPT ![f] = @ + 1]
  /\ UNCHANGED <<mutex, jobs, queueVars, sleepVars, jobVars, semVars, pc,
                 cur, run, idx, caller, status, envVars>>

\* It could be, but one of its semaphores is not available.
BlockedJob(f) ==
  LET j == jobs[cursor[f]]
  IN /\ AtScan(f) /\ CanStart(f, j)
     /\ \E k \in 1..Acquires(j) : make_runnable(j, k)
     /\ cursor' = [cursor EXCEPT ![f] = @ + 1]
     /\ UNCHANGED <<mutex, jobs, queueVars, sleepVars, jobVars, pc,
                    cur, run, idx, caller, status, envVars>>

\* A serial job is taken off the stack while the frame works on it.
StartSerial(f) ==
  LET j == jobs[cursor[f]]
  IN /\ AtScan(f) /\ CanStart(f, j) /\ Serial(j)
     /\ make_runnable(j, Acquires(j) + 1)
     /\ active_workers' = [active_workers EXCEPT ![j] = @ + 1]
     /\ Reserve(j, 1)
     /\ jobs' = RemoveJob(jobs, cursor[f])
     /\ mutex' = NULL
     /\ cur' = [cur EXCEPT ![f] = j]
     /\ run' = [run EXCEPT ![f] = NewRun(min[j])]
     /\ pc' = [pc EXCEPT ![f] = "claim"]
     /\ UNCHANGED <<queueVars, sleepVars, extent, min, exit_status,
                    cursor, idx, caller, status, envVars>>

\* From any other job the frame claims one iteration; it removes the job from
\* the stack with the last one.
MutLastTooLate(j) == extent[j] = 0
LastIteration(j) == extent[j] = 1

StartParallel(f) ==
  LET j == jobs[cursor[f]]
  IN /\ AtScan(f) /\ CanStart(f, j) /\ ~Serial(j)
     /\ make_runnable(j, Acquires(j) + 1)
     /\ active_workers' = [active_workers EXCEPT ![j] = @ + 1]
     /\ Reserve(j, 1)
     /\ min' = [min EXCEPT ![j] = @ + 1]
     /\ extent' = [extent EXCEPT ![j] = @ - 1]
     /\ jobs' = IF LastIteration(j) THEN RemoveJob(jobs, cursor[f]) ELSE jobs
     /\ mutex' = NULL
     /\ cur' = [cur EXCEPT ![f] = j]
     /\ run' = [run EXCEPT ![f] = NewRun(min[j])]
     /\ pc' = [pc EXCEPT ![f] = "body"]
     /\ ran' = [ran EXCEPT ![j][min[j]] = @ + 1]
     /\ UNCHANGED <<queueVars, sleepVars, exit_status,
                    cursor, idx, caller, status, requests, shutdowns, completed>>

\* No job can be started: wait on a condition variable.
AtScanEnd(f) == mutex = f /\ pc[f] = "scan" /\ cursor[f] > Len(jobs)

SleepOwner(c) ==
  /\ AtScanEnd(c)
  /\ owners_sleeping' = owners_sleeping + 1
  /\ owner_is_sleeping' = [owner_is_sleeping EXCEPT ![OwnedJob(c)] = TRUE]
  /\ mutex' = NULL
  /\ pc' = [pc EXCEPT ![c] = "sleepOwner"]
  /\ UNCHANGED <<jobs, queueVars, workers_sleeping, jobVars, semVars, frameVars, envVars>>

SleepWorker(w) ==
  /\ AtScanEnd(w)
  /\ workers_sleeping' = workers_sleeping + 1
  /\ LET toB == a_team_size > target_a_team_size
     IN /\ a_team_size' = IF toB THEN a_team_size - 1 ELSE a_team_size
        /\ pc' = [pc EXCEPT ![w] = IF toB THEN "sleepB" ELSE "sleepA"]
  /\ mutex' = NULL
  /\ UNCHANGED <<jobs, desired_threads_working, threads_created, target_a_team_size,
                 shutdown, initialized, owners_sleeping, owner_is_sleeping,
                 jobVars, semVars, frameVars, envVars>>

\* halide_cond_wait returns with the mutex.
WakeOwner(c) ==
  /\ pc[c] = "wokenOwner" /\ mutex = NULL
  /\ mutex' = c
  /\ owners_sleeping' = owners_sleeping - 1
  /\ owner_is_sleeping' = [owner_is_sleeping EXCEPT ![OwnedJob(c)] = FALSE]
  /\ pc' = [pc EXCEPT ![c] = "head"]
  /\ UNCHANGED <<jobs, queueVars, workers_sleeping, jobVars, semVars, frameVars, envVars>>

MutRejoinForgotten(w) == a_team_size
TeamSizeAfterWait(w) == IF pc[w] = "wokenB" THEN a_team_size + 1 ELSE a_team_size

WakeWorker(w) ==
  /\ pc[w] \in {"wokenA", "wokenB"} /\ mutex = NULL
  /\ mutex' = w
  /\ workers_sleeping' = workers_sleeping - 1
  /\ a_team_size' = TeamSizeAfterWait(w)
  /\ pc' = [pc EXCEPT ![w] = "head"]
  /\ UNCHANGED <<jobs, desired_threads_working, threads_created, target_a_team_size,
                 shutdown, initialized, owners_sleeping, owner_is_sleeping,
                 jobVars, semVars, frameVars, envVars>>

-----------------------------------------------------------------------------
(* Running a job, without the mutex.                                       *)

\* A serial job: claim as many iterations as its semaphores allow.
ClaimMore(f) ==
  LET j == cur[f]
  IN /\ pc[f] = "claim" /\ extent[j] - run[f].total > run[f].iters
     /\ make_runnable(j, Acquires(j) + 1)
     /\ run' = [run EXCEPT ![f].iters = @ + 1]
     /\ UNCHANGED <<mutex, jobs, queueVars, sleepVars, jobVars, pc,
                    cursor, cur, idx, caller, status, envVars>>

\* No more can be claimed: do the claimed iterations, or stop if there are none.
ClaimDone(f) ==
  LET j == cur[f]
  IN /\ pc[f] = "claim"
     /\ IF extent[j] - run[f].total > run[f].iters
        THEN \E k \in 1..Acquires(j) : make_runnable(j, k)
        ELSE UNCHANGED semVars
     /\ IF run[f].iters = 0
        THEN /\ pc' = [pc EXCEPT ![f] = "relock"]
             /\ UNCHANGED ran
        ELSE /\ pc' = [pc EXCEPT ![f] = "body"]
             /\ ran' = [ran EXCEPT ![j][run[f].min + run[f].total] = @ + 1]
     /\ UNCHANGED <<mutex, jobs, queueVars, sleepVars, jobVars, frameVars, requests, shutdowns,
                    completed>>

\* The task function goes on to the next iteration of the slice it was given.
NextIteration(f) ==
  /\ AtEnd(f) /\ run[f].done + 1 < run[f].iters
  /\ completed' = completed \cup {<<cur[f], Iteration(f)>>}
  /\ run' = [run EXCEPT ![f] = IterationDone(@)]
  /\ ran' = [ran EXCEPT ![cur[f]][Iteration(f) + 1] = @ + 1]
  /\ UNCHANGED <<mutex, jobs, queueVars, sleepVars, jobVars, semVars, pc,
                 cursor, cur, idx, caller, status, requests, shutdowns>>

\* The task function returns 0 ...
TaskReturns(f) ==
  /\ AtEnd(f) /\ run[f].done + 1 = run[f].iters
  /\ completed' = completed \cup {<<cur[f], Iteration(f)>>}
  /\ IF Serial(cur[f])
     THEN /\ run' = [run EXCEPT ![f] = SliceDone(@)]
          /\ pc' = [pc EXCEPT ![f] = "claim"]
     ELSE /\ pc' = [pc EXCEPT ![f] = "relock"]
          /\ UNCHANGED run
  /\ UNCHANGED <<mutex, jobs, queueVars, sleepVars, jobVars, semVars,
                 cursor, cur, idx, caller, status, requests, shutdowns, ran>>

\* ... or an error: its own, or that of a call it made.
ReturnError(f) ==
  /\ run' = [run EXCEPT ![f] = SliceFailed(@)]
  /\ pc' = [pc EXCEPT ![f] = "relock"]
  /\ UNCHANGED <<mutex, jobs, queueVars, sleepVars, jobVars, semVars,
                 cursor, cur, idx, caller, status, envVars>>
TaskError(f) == pc[f] = "body" /\ cur[f] \in MayFail /\ ReturnError(f)
CallError(f) == pc[f] = "failed" /\ ReturnError(f)

\* The frame takes the mutex, accounts for what it did and wakes the owner if
\* the job is finished.
MutMinKept(f) == min[cur[f]]
MinAfter(f) == IF Serial(cur[f]) THEN min[cur[f]] + run[f].total ELSE min[cur[f]]
ExtentLeft(f) == IF Serial(cur[f]) THEN extent[cur[f]] - run[f].total ELSE extent[cur[f]]
ExtentAfter(f) == IF Serial(cur[f]) /\ run[f].result # 0 THEN 0 ELSE ExtentLeft(f)

MutFailedStaysActive(f) ==
  active_workers[cur[f]] - (IF run[f].result = 0 THEN 1 ELSE 0)
ActiveAfter(f) == active_workers[cur[f]] - 1

\* A failure is the exit status of the job and of its siblings that have none.
StatusAfter(f, i) ==
  LET j == cur[f]
  IN IF run[f].result # 0 /\ (i = j \/ (CallOf[i] = CallOf[j] /\ exit_status[i] = 0))
     THEN run[f].result ELSE exit_status[i]

\* The test for sleeping owners of siblings is made before active_workers is
\* decremented.
MutOwnerNotWoken(f) == FALSE
MustWakeOwner(f) ==
  LET j == cur[f]
  IN \/ /\ run[f].result # 0
        /\ \E i \in JobsOf(CallOf[j]) \ {j} :
             exit_status[i] = 0 /\ active_workers[j] = 0 /\ owner_is_sleeping[i]
     \/ /\ ActiveAfter(f) = 0
        /\ ExtentAfter(f) = 0 \/ StatusAfter(f, j) # 0
        /\ owner_is_sleeping[j]

FinishJob(f) ==
  LET j == cur[f]
  IN /\ pc[f] = "relock" /\ mutex = NULL
     /\ mutex' = f
     /\ extent' = [extent EXCEPT ![j] = ExtentAfter(f)]
     /\ min' = [min EXCEPT ![j] = MinAfter(f)]
     /\ jobs' = IF Serial(j) /\ ExtentAfter(f) > 0 THEN <<j>> \o jobs ELSE jobs
     /\ exit_status' = [i \in Jobs |-> StatusAfter(f, i)]
     /\ Reserve(j, -1)
     /\ active_workers' = [active_workers EXCEPT ![j] = ActiveAfter(f)]
     /\ cur' = [cur EXCEPT ![f] = NULL]
     /\ pc' = [(IF MustWakeOwner(f) THEN Broadcast({"owner"}) ELSE pc) EXCEPT ![f] = "head"]
     /\ UNCHANGED <<queueVars, sleepVars, semVars, cursor, run, idx, caller, status, envVars>>

-----------------------------------------------------------------------------
(* The runtime calls of a task or a client.                                *)

Step(f) == StepsOf(f)[run[f].step]
NextStep(f) == [run EXCEPT ![f].step = @ + 1]

halide_semaphore_init(f) ==
  /\ AtStep(f, "init")
  /\ value' = [value EXCEPT ![Step(f).sem] = Step(f).n]
  /\ run' = NextStep(f)
  /\ UNCHANGED <<mutex, jobs, queueVars, sleepVars, jobVars, next_semaphore, pc,
                 cursor, cur, idx, caller, status, envVars>>

\* halide_semaphore_release: the atomic add ...
halide_semaphore_release(f) ==
  LET s == Step(f).sem
      n == Step(f).n
  IN /\ AtStep(f, "release")
     /\ value' = [value EXCEPT ![s] = @ + n]
     /\ IF value[s] = 0 /\ n # 0
        THEN pc' = [pc EXCEPT ![f] = "notify"] /\ UNCHANGED run
        ELSE run' = NextStep(f) /\ UNCHANGED pc
     /\ UNCHANGED <<mutex, jobs, queueVars, sleepVars, jobVars, next_semaphore,
                    cursor, cur, idx, caller, status, envVars>>

\* ... and, if the semaphore was at zero, the broadcast under the mutex.
NotifyRelease(f) ==
  /\ pc[f] = "notify" /\ mutex = NULL
  /\ pc' = [Broadcast({"A", "owner"}) EXCEPT ![f] = "body"]
  /\ run' = NextStep(f)
  /\ UNCHANGED <<mutex, jobs, queueVars, sleepVars, jobVars, semVars,
                 cursor, cur, idx, caller, status, envVars>>

\* enqueue_work_already_locked: what it gathers about the jobs of a call.
min_threads(c) == SumOver(JobsOf(c), [j \in Jobs |-> Task[j].min_threads])
workers_to_wake(c) ==
  SumOver(JobsOf(c), [j \in Jobs |-> IF Serial(j) THEN 1 ELSE Task[j].extent]) - 1
stealable_jobs(c) == \E j \in JobsOf(c) : Task[j].min_threads = 0
may_block(c) == \E j \in JobsOf(c) : Task[j].min_threads # 0 \/ Acquires(j) # 0

\* The loop that spawns workers for a top-level call stops at n threads.
MustSpawn(c, n, desired) ==
  /\ n < MAX_THREADS
  /\ \/ n < desired - 1
     \/ (n + 1) - threads_reserved < min_threads(c) + (IF may_block(c) THEN 1 ELSE 0)

\* The assertion of enqueue_work_already_locked for a nested call.
NotOverCommitted(c) ==
  LET p == CallParent[c]
  IN p # NULL =>
       min_threads(c) <= Task[p].min_threads * active_workers[p] - job_reserved[p]

\* Where frame g is after f has made call c, which spawned workers up to n and
\* woke the condition variables C.
Enqueued(f, c, n, C, g) ==
  CASE g = f -> "calling"
    [] g = c -> "head"
    [] g \in (threads_created + 1)..n -> "enter"
    [] OTHER -> Wake(C, g)

\* halide_do_par_for and halide_do_parallel_tasks up to the owner's loop: the
\* jobs are set up, the mutex is taken, enqueue_work_already_locked pushes them
\* and wakes workers, and the owner enters its loop with the mutex held.
\* The thread that enqueues keeps one more thread reserved meanwhile; nobody
\* can see that.
halide_do_parallel_tasks(f) ==
  LET c == Step(f).call
      desired == IF initialized THEN desired_threads_working
                 ELSE clamp_num_threads(IF desired_threads_working = 0 THEN DEFAULT_THREADS
                                        ELSE desired_threads_working)
      New(j) == CallOf[j] = c
  IN /\ AtStep(f, "call") /\ mutex = NULL /\ pc[c] = "idle"
     /\ ~shutdown                      \* no call is made while the pool shuts down
     /\ NotOverCommitted(c)
     /\ mutex' = c
     /\ desired_threads_working' = desired
     /\ initialized' = TRUE
     /\ \E n \in threads_created..MAX_THREADS :
          /\ \A m \in threads_created..(n - 1) : CallParent[c] = NULL /\ MustSpawn(c, m, desired)
          /\ CallParent[c] = NULL => ~MustSpawn(c, n, desired)
          /\ CallParent[c] # NULL => n = threads_created
          /\ threads_created' = n
          /\ a_team_size' = a_team_size + (n - threads_created)
          /\ target_a_team_size' =
               IF \/ owners_sleeping > 0 \/ workers_sleeping < n
                  \/ workers_to_wake(c) > workers_sleeping
               THEN n ELSE workers_to_wake(c)
          /\ LET C == IF target_a_team_size' <= a_team_size' THEN {"A"}
                      ELSE IF stealable_jobs(c) THEN {"A", "B", "owner"} ELSE {"A", "B"}
             IN pc' = [g \in Frames |-> Enqueued(f, c, n, C, g)]
     /\ jobs' = CallJobs[c] \o jobs
     /\ extent' = [j \in Jobs |-> IF New(j) THEN Task[j].extent ELSE extent[j]]
     /\ min' = [j \in Jobs |-> IF New(j) THEN 0 ELSE min[j]]
     /\ active_workers' = [j \in Jobs |-> IF New(j) THEN 0 ELSE active_workers[j]]
     /\ exit_status' = [j \in Jobs |-> IF New(j) THEN 0 ELSE exit_status[j]]
     /\ next_semaphore' = [j \in Jobs |-> IF New(j) THEN 1 ELSE next_semaphore[j]]
     /\ owner_is_sleeping' = [j \in Jobs |-> IF New(j) THEN FALSE ELSE owner_is_sleeping[j]]
     /\ job_reserved' = [j \in Jobs |-> IF New(j) THEN 0 ELSE job_reserved[j]]
     /\ ran' = [j \in Jobs |-> IF New(j) THEN [i \in DOMAIN Body[j] |-> 0] ELSE ran[j]]
     /\ completed' = {e \in completed : CallOf[e[1]] # c}
     /\ idx' = [idx EXCEPT ![c] = 1]
     /\ status' = [status EXCEPT ![c] = 0]
     /\ caller' = [caller EXCEPT ![c] = f]
     /\ UNCHANGED <<shutdown, workers_sleeping, owners_sleeping, threads_reserved,
                    value, cursor, cur, run, requests, shutdowns>>

-----------------------------------------------------------------------------
(* The application.                                                        *)

\* n < 0 is an error; an error handler that returns leaves n to the clamp.
halide_set_num_threads(n) ==
  /\ mutex = NULL /\ requests < MaxRequests
  /\ desired_threads_working' = clamp_num_threads(IF n = 0 THEN DEFAULT_THREADS ELSE n)
  /\ requests' = requests + 1
  /\ UNCHANGED <<mutex, jobs, threads_created, a_team_size, target_a_team_size, shutdown,
                 initialized, sleepVars, jobVars, semVars, pc, frameVars, shutdowns,
                 ran, completed>>

\* halide_shutdown_thread_pool, called while no pipeline runs.
MutShutdownForgetsB == {"A", "owner"}
WokenByShutdown == {"A", "B", "owner"}

halide_shutdown_thread_pool ==
  /\ initialized /\ mutex = NULL /\ ~shutdown
  /\ shutdowns < MaxShutdowns
  /\ \A c \in Calls : pc[c] = "idle"
  /\ shutdown' = TRUE
  /\ shutdowns' = shutdowns + 1
  /\ pc' = Broadcast(WokenByShutdown)
  /\ UNCHANGED <<mutex, jobs, desired_threads_working, threads_created, a_team_size,
                 target_a_team_size, initialized, sleepVars, jobVars, semVars,
                 frameVars, requests, ran, completed>>

\* ... once every worker is joined: work_queue_t::reset.
JoinWorkers ==
  /\ shutdown /\ \A w \in 1..threads_created : pc[w] = "exited"
  /\ jobs' = <<>>
  /\ threads_created' = 0 /\ threads_reserved' = 0
  /\ a_team_size' = 0 /\ target_a_team_size' = 0
  /\ workers_sleeping' = 0 /\ owners_sleeping' = 0
  /\ shutdown' = FALSE /\ initialized' = FALSE
  /\ pc' = [f \in Frames |-> IF pc[f] = "exited" THEN "idle" ELSE pc[f]]
  /\ UNCHANGED <<mutex, desired_threads_working, owner_is_sleeping, extent, min,
                 active_workers, exit_status, job_reserved, semVars, frameVars, envVars>>

\* Every client has finished its program.
Finished == \A k \in Clients : pc[k] = "body" /\ AtEnd(k)
Terminating == Finished /\ UNCHANGED vars

-----------------------------------------------------------------------------
Init ==
  /\ mutex = NULL /\ jobs = <<>>
  /\ desired_threads_working = 0 /\ threads_created = 0 /\ threads_reserved = 0
  /\ a_team_size = 0 /\ target_a_team_size = 0
  /\ workers_sleeping = 0 /\ owners_sleeping = 0
  /\ shutdown = FALSE /\ initialized = FALSE
  /\ extent = [j \in Jobs |-> 0]
  /\ min = [j \in Jobs |-> 0]
  /\ active_workers = [j \in Jobs |-> 0]
  /\ exit_status = [j \in Jobs |-> 0]
  /\ next_semaphore = [j \in Jobs |-> 1]
  /\ owner_is_sleeping = [j \in Jobs |-> FALSE]
  /\ job_reserved = [j \in Jobs |-> 0]
  /\ value = SemInit
  /\ pc = [f \in Frames |-> IF f \in Clients THEN "body" ELSE "idle"]
  /\ cursor = [f \in Loops |-> 1]
  /\ cur = [f \in Frames |-> NULL]
  /\ run = [f \in Frames |-> NewRun(0)]
  /\ idx = [c \in Calls |-> 1]
  /\ caller = [c \in Calls |-> NULL]
  /\ status = [c \in Calls |-> 0]
  /\ requests = 0 /\ shutdowns = 0
  /\ ran = [j \in Jobs |-> [i \in DOMAIN Body[j] |-> 0]]
  /\ completed = {}

WorkerStep(w) == EnterWorker(w) \/ ExitWorker(w) \/ SleepWorker(w) \/ WakeWorker(w)
OwnerStep(c) ==
  JoinNext(c) \/ Return(c) \/ DropFailed(c) \/ InheritFailure(c) \/ SleepOwner(c) \/ WakeOwner(c)
LoopStep(f) ==
  \/ BeginScan(f) \/ SkipJob(f) \/ BlockedJob(f) \/ StartSerial(f) \/ StartParallel(f)
  \/ ClaimMore(f) \/ ClaimDone(f) \/ NextIteration(f) \/ TaskReturns(f) \/ CallError(f)
  \/ FinishJob(f)
CallStep(f) ==
  \/ halide_semaphore_init(f) \/ halide_semaphore_release(f) \/ NotifyRelease(f)
  \/ halide_do_parallel_tasks(f)
FrameStep(f) ==
  \/ f \in Workers /\ WorkerStep(f)
  \/ f \in Calls /\ OwnerStep(f)
  \/ f \in Loops /\ LoopStep(f)
  \/ CallStep(f)

Next ==
  \/ \E w \in Workers : WorkerStep(w)
  \/ \E c \in Calls : OwnerStep(c)
  \/ \E f \in Loops : LoopStep(f) \/ TaskError(f)
  \/ \E f \in Frames : CallStep(f)
  \/ \E n \in ThreadRequests : halide_set_num_threads(n)
  \/ halide_shutdown_thread_pool
  \/ JoinWorkers
  \/ Terminating

\* Each thread runs when it can; tasks need not fail, nor the application act.
Fairness == /\ \A f \in Frames : WF_vars(FrameStep(f))
            /\ WF_vars(JoinWorkers)

Spec == Init /\ [][Next]_vars
FairSpec == Spec /\ Fairness

-----------------------------------------------------------------------------
PC == {"idle", "enter", "head", "scan", "sleepA", "sleepB", "sleepOwner", "wokenA", "wokenB",
       "wokenOwner", "claim", "body", "notify", "calling", "failed", "relock", "exited"}

RunType == [min : Nat, total : Nat, iters : Nat, done : Nat, step : Nat \ {0}, result : {0, 1}]

QueueOK ==
  /\ mutex \in Loops \cup {NULL}
  /\ jobs \in Seq(Jobs)
  /\ desired_threads_working \in 0..MAX_THREADS
  /\ threads_created \in 0..MAX_THREADS
  /\ threads_reserved \in Int
  /\ a_team_size \in Int /\ target_a_team_size \in Int
  /\ workers_sleeping \in Int /\ owners_sleeping \in Int
  /\ shutdown \in BOOLEAN /\ initialized \in BOOLEAN
JobsOK ==
  /\ extent \in [Jobs -> Nat] /\ min \in [Jobs -> Nat]
  /\ active_workers \in [Jobs -> Nat] /\ exit_status \in [Jobs -> {0, 1}]
  /\ next_semaphore \in [Jobs -> Nat \ {0}]
  /\ owner_is_sleeping \in [Jobs -> BOOLEAN] /\ job_reserved \in [Jobs -> Int]
  /\ value \in [Sems -> Nat]
FramesOK ==
  /\ pc \in [Frames -> PC]
  /\ cursor \in [Loops -> Nat \ {0}]
  /\ cur \in [Frames -> Jobs \cup {NULL}]
  /\ run \in [Frames -> RunType]
  /\ idx \in [Calls -> Nat \ {0}]
  /\ caller \in [Calls -> Frames \cup {NULL}]
  /\ status \in [Calls -> {0, 1}]

\* Types of the state.  No counter of a job goes below zero, and the pool is
\* never asked for more threads than work_queue.threads has room for.
TypeOK == QueueOK /\ JobsOK /\ FramesOK

\* The job stack holds, once each, exactly the live jobs that still have
\* iterations to hand out and are not held by the worker of a serial job.  The
\* owner of a failed job relies on it when it walks the stack to find its job.
StackHoldsPendingJobs ==
  /\ Distinct(jobs)
  /\ \A j \in Jobs : Holds(jobs, j) <=> /\ Live(j) /\ extent[j] > 0
                                        /\ Serial(j) => active_workers[j] = 0

\* work::active_workers counts the frames that run the job.
ActiveWorkersCounted ==
  \A j \in Jobs : active_workers[j] = Cardinality({f \in Frames : cur[f] = j})

\* Jobs live on the stack of their caller: once the call has returned nobody
\* works on them, and nobody works on a child of a job nobody works on.
NoDanglingJob ==
  /\ \A f \in Frames : cur[f] # NULL => Live(cur[f])
  /\ \A j \in Jobs : Live(j) /\ Parent(j) # NULL => active_workers[Parent(j)] > 0

\* No iteration is run twice, and a serial task runs its iterations one at a
\* time in order from min to min + extent - 1.
IterationsRunOnce ==
  /\ \A j \in Jobs : \A i \in DOMAIN ran[j] : ran[j][i] <= 1
  /\ \A j \in Jobs : Serial(j) =>
       \A i \in DOMAIN ran[j] : i > 0 /\ ran[j][i] = 1 => <<j, i - 1>> \in completed

\* The thread counts kept under the mutex agree with what the threads do.
WorkersWaiting == {w \in Workers : pc[w] \in {"sleepA", "sleepB", "wokenA", "wokenB"}}
OwnersWaiting == {c \in Calls : pc[c] \in {"sleepOwner", "wokenOwner"}}
OffTheTeam == {w \in Workers : pc[w] \in {"sleepB", "wokenB"}}
SleepersCounted ==
  /\ workers_sleeping = Cardinality(WorkersWaiting)
  /\ owners_sleeping = Cardinality(OwnersWaiting)
  /\ a_team_size = threads_created - Cardinality(OffTheTeam)
  /\ \A c \in Calls : \A j \in JobsOf(c) :
       owner_is_sleeping[j] => j = OwnedJob(c) /\ c \in OwnersWaiting

\* The threads reserved on the pool, or on a job, are the min_threads of each
\* run of a job in progress at the top level, or of a child of that job; the pool
\* never promises more threads than it has.
RunsFor(p) == {f \in Frames : cur[f] # NULL /\ Parent(cur[f]) = p}
Needs == [f \in Frames |-> IF cur[f] = NULL THEN 0 ELSE Task[cur[f]].min_threads]
Reserved(p) == SumOver(RunsFor(p), Needs)
ReservationsBalanced ==
  /\ threads_reserved = Reserved(NULL) /\ threads_reserved <= threads_created + 1
  /\ \A p \in Jobs : Live(p) => job_reserved[p] = Reserved(p)

\* The nested call that is about to be enqueued is within the threads reserved
\* for the task that makes it (the assertion of enqueue_work_already_locked).
ThreadsNotOverCommitted ==
  \A f \in Frames : AtStep(f, "call") /\ mutex = NULL => NotOverCommitted(Step(f).call)

\* A call that returns zero has run every iteration of every task to its end;
\* one that returns nonzero had an iteration that did not, or was made by a
\* task that had failed.
ReturnsDone(c) ==
  LET done == \A j \in JobsOf(c) : \A i \in DOMAIN Body[j] : <<j, i>> \in completed
      p == CallParent[c]
  IN /\ status'[c] = 0 => done
     /\ status'[c] # 0 /\ done => p # NULL /\ exit_status[p] # 0
ReturnedWorkIsDone ==
  [][\A c \in Calls : pc[c] # "idle" /\ pc'[c] = "idle" => ReturnsDone(c)]_vars

\* Every call returns.
CallsReturn == \A c \in Calls : pc[c] # "idle" ~> pc[c] = "idle"

\* A shutdown joins every worker and leaves the queue as it was at the start.
ShutdownEnds == shutdown ~> ~initialized

-----------------------------------------------------------------------------
(* The strengthening that makes the safety invariants inductive.           *)

Busy == {"claim", "body", "notify", "calling", "failed", "relock"}
InTask == {"body", "notify", "calling", "failed"}
CallPC == {"idle", "head", "scan", "sleepOwner", "wokenOwner"} \cup Busy
WorkerPC == {"idle", "enter", "head", "scan", "sleepA", "sleepB", "wokenA", "wokenB", "exited"}
            \cup Busy

\* The mutex is held by the frame that is at the head of its loop or scans.
MutexInv == \A f \in Frames : mutex = f <=> pc[f] \in {"head", "scan"}

\* A frame has a current job exactly while it works for it, and a worker that
\* has not been created does nothing.
ControlInv ==
  /\ \A k \in Clients : pc[k] \in {"body", "notify", "calling"} /\ cur[k] = NULL
  /\ \A w \in Workers : pc[w] \in WorkerPC /\ (w > threads_created => pc[w] = "idle")
  /\ \A c \in Calls : pc[c] \in CallPC
  /\ \A f \in Loops : cur[f] # NULL <=> pc[f] \in Busy

\* A call in progress was made by a frame that waits for it, and each frame waits
\* for one call; the parent job of the call, if any, is the one that frame runs.
CallerInv ==
  /\ \A c \in Calls : pc[c] # "idle" => caller[c] \in Frames /\ pc[caller[c]] = "calling"
  /\ \A c, d \in Calls : pc[c] # "idle" /\ pc[d] # "idle" /\ caller[c] = caller[d] => c = d
  /\ \A c \in Calls : pc[c] # "idle" => CallParent[c] \in {NULL, cur[caller[c]]}

\* What is done and what is left of a job are iterations of its task; a frame is
\* at an iteration of the job, and the worker of a serial job is alone with it.
InRange(f) ==
  /\ pc[f] = "claim" => Serial(cur[f]) /\ run[f].done = 0
  /\ pc[f] \in InTask => run[f].done < run[f].iters
  /\ pc[f] \in Busy /\ Serial(cur[f]) =>
       /\ run[f].min = min[cur[f]]
       /\ run[f].total <= extent[cur[f]]
       /\ pc[f] # "relock" => run[f].total + run[f].iters <= extent[cur[f]]
  /\ pc[f] \in InTask /\ ~Serial(cur[f]) =>
       run[f].min < Task[cur[f]].extent /\ run[f].total = 0 /\ run[f].iters = 1
RangeInv ==
  /\ \A j \in Jobs : min[j] + extent[j] <= Task[j].extent
  /\ \A f \in Loops : InRange(f)
  /\ \A f, g \in Loops : cur[f] # NULL /\ cur[f] = cur[g] /\ Serial(cur[f]) => f = g

\* The owner joins its jobs in order; those of a call that is not in progress, or
\* that it has joined, are done.  No call is in progress while the pool shuts down.
JoinInv ==
  /\ \A c \in Calls : idx[c] \in 1..Len(CallJobs[c])
  /\ \A j \in Jobs : ~Live(j) => ~running(j)
  /\ \A c \in Calls : \A i \in 1..(idx[c] - 1) : ~running(CallJobs[c][i])
  /\ shutdown => \A c \in Calls : pc[c] = "idle"

IInv ==
  /\ TypeOK /\ MutexInv /\ ControlInv /\ CallerInv /\ RangeInv /\ JoinInv
  /\ StackHoldsPendingJobs /\ ActiveWorkersCounted /\ NoDanglingJob
-----------------------------------------------------------------------------
(* What makes IterationsRunOnce and ReturnedWorkIsDone inductive.          *)

Iterations(j) == 0..(Task[j].extent - 1)
Doing(f, j, i) == cur[f] = j /\ pc[f] \in InTask /\ Iteration(f) = i
Failing(f) == pc[f] = "relock" /\ run[f].result # 0

\* An iteration of j failed: it was begun, and nobody will complete it.
Lost(j) == \E i \in Iterations(j) : /\ ran[j][i] = 1 /\ <<j, i>> \notin completed
                                   /\ \A f \in Loops : ~Doing(f, j, i)
\* Why a call may return an error.
Blame(c) ==
  \/ \E j \in JobsOf(c) : Lost(j)
  \/ CallParent[c] # NULL /\ exit_status[CallParent[c]] # 0

AllDone(j) == \A i \in Iterations(j) : <<j, i>> \in completed

\* An iteration that has begun is completed, or one frame is at it, or the job
\* has failed.
BegunInv(j) ==
  /\ ran[j] \in [Iterations(j) -> {0, 1}]
  /\ \A i \in Iterations(j) : <<j, i>> \in completed => ran[j][i] = 1
  /\ \A i \in Iterations(j) : ran[j][i] = 1 =>
       \/ <<j, i>> \in completed
       \/ \E f \in Loops : Doing(f, j, i) \/ (cur[f] = j /\ Failing(f))
       \/ exit_status[j] # 0
DoingInv(f) ==
  /\ pc[f] \in InTask \cup {"claim"} => run[f].result = 0
  /\ pc[f] \in InTask => /\ ran[cur[f]][Iteration(f)] = 1
                         /\ <<cur[f], Iteration(f)>> \notin completed
                         /\ \A g \in Loops : Doing(g, cur[f], Iteration(f)) => g = f

\* The iterations of a job are begun in order; those of a serial job that a frame
\* works on, up to the one that it is at, are completed.
OrderInv(j) ==
  /\ Live(j) /\ exit_status[j] = 0 => min[j] + extent[j] = Task[j].extent
  /\ ~Serial(j) => \A i \in Iterations(j) : ran[j][i] = 1 <=> i < min[j]
  /\ Serial(j) => \A i \in Iterations(j) : i > 0 /\ ran[j][i] = 1 => <<j, i - 1>> \in completed
  /\ Serial(j) /\ active_workers[j] = 0 /\ (extent[j] > 0 \/ exit_status[j] = 0) =>
       \A i \in Iterations(j) : IF i < min[j] THEN <<j, i>> \in completed ELSE ran[j][i] = 0
SerialInv(f) ==
  cur[f] # NULL /\ Serial(cur[f]) /\ ~Failing(f) =>
    /\ pc[f] = "relock" => run[f].done = 0
    /\ \A i \in Iterations(cur[f]) :
         /\ i < Iteration(f) => <<cur[f], i>> \in completed
         /\ i > Iteration(f) \/ (i = Iteration(f) /\ pc[f] \notin InTask) => ran[cur[f]][i] = 0

\* The errors that jobs and calls have come to are accounted for, and what has been
\* joined without an error is done.
BlameInv ==
  /\ \A f \in Loops : Failing(f) => Lost(cur[f])
  /\ \A j \in Jobs : Live(j) /\ exit_status[j] # 0 => Blame(CallOf[j])
  /\ \A c \in Calls : pc[c] # "idle" =>
       IF status[c] # 0 THEN Blame(c) ELSE \A k \in 1..(idx[c] - 1) : AllDone(CallJobs[c][k])

WorkInv ==
  /\ DOMAIN ran = Jobs
  /\ \A j \in Jobs : BegunInv(j) /\ OrderInv(j)
  /\ \A f \in Loops : DoingInv(f) /\ SerialInv(f)
  /\ BlameInv
=============================================================================
