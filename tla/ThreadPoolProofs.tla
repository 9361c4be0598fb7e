-------------------------- MODULE ThreadPoolProofs --------------------------
(***************************************************************************)
(* The account of the work that the thread pool has done, and the theorems *)
(* about the pool.                                                         *)
(***************************************************************************)
EXTENDS ThreadPoolLemmas

\* A leaf is for Zenon unless it says otherwise.
USE ZenonT(30)

\* What no iteration has run and what one has are told apart.
LEMMA ZeroOne == 0 # 1
  BY SMTT(30)

-----------------------------------------------------------------------------
(* The work that is done.                                                  *)

\* Frame g is where it was in its work; the iterations of job k are, or all of it is,
\* as before.
SameFrame(g) ==
  /\ cur'[g] = cur[g] /\ Iteration(g)' = Iteration(g)
  /\ pc[g] \in InTask <=> pc'[g] \in InTask
  /\ pc[g] = "claim" <=> pc'[g] = "claim"
  /\ pc[g] = "relock" <=> pc'[g] = "relock"
  /\ run'[g].result = run[g].result /\ run'[g].done = run[g].done
SameWork(k) == ran'[k] = ran[k] /\ \A i : <<k, i>> \in completed' <=> <<k, i>> \in completed
SameJob(k) ==
  /\ SameWork(k) /\ min'[k] = min[k] /\ extent'[k] = extent[k]
  /\ exit_status'[k] = exit_status[k] /\ active_workers'[k] = active_workers[k]
NoCallBegins == \A c \in Calls : pc[c] = "idle" => pc'[c] = "idle"
JoinsKept == \A c \in Calls : pc'[c] # "idle" => status'[c] = status[c] /\ idx'[c] = idx[c]

\* A frame that is where it was does and fails what it did.
LEMMA FrameKept ==
  ASSUME NEW g, SameFrame(g)
  PROVE  /\ \A k, i : Doing(g, k, i)' <=> Doing(g, k, i)
         /\ Failing(g)' <=> Failing(g)
  BY DEF SameFrame, Doing, Failing

\* What is lost stays lost, and nothing else is, while the same frames are at the
\* iterations of a job and these are as before.
LEMMA LostKept ==
  ASSUME NEW k \in Jobs, SameWork(k),
         \A g \in Loops : SameFrame(g) \/ (cur[g] # k /\ cur'[g] # k)
  PROVE  Lost(k)' <=> Lost(k)
<1>1. \A g \in Loops : \A i : Doing(g, k, i)' <=> Doing(g, k, i)
  BY DEF SameFrame, Doing
<1> QED BY <1>1 DEF Lost, SameWork

\* A job to which nothing happens keeps what holds of it as long as the same
\* frames are at its iterations.
LEMMA JobRests ==
  ASSUME WorkInv, NEW k \in Jobs, SameJob(k), Live(k)' => Live(k),
         \A g \in Loops : SameFrame(g) \/ (cur[g] # k /\ cur'[g] # k)
  PROVE  BegunInv(k)' /\ OrderInv(k)' /\ (Lost(k)' <=> Lost(k))
<1>1. /\ \A g \in Loops : \A i : Doing(g, k, i)' <=> Doing(g, k, i)
      /\ \A g \in Loops : (cur[g] = k /\ Failing(g))' <=> cur[g] = k /\ Failing(g)
  BY DEF SameFrame, Doing, Failing
<1>3. BegunInv(k)'
  <2>1. BegunInv(k)
    BY DEF WorkInv
  <2> QED BY <1>1, <2>1 DEF BegunInv, SameJob, SameWork
<1>4. OrderInv(k)'
  <2>1. OrderInv(k)
    BY DEF WorkInv
  <2>2. /\ ran'[k] = ran[k] /\ min'[k] = min[k] /\ extent'[k] = extent[k]
        /\ exit_status'[k] = exit_status[k] /\ active_workers'[k] = active_workers[k]
        /\ \A i : <<k, i>> \in completed' <=> <<k, i>> \in completed
    BY DEF SameJob, SameWork
  <2> QED BY <2>1, <2>2 DEF OrderInv
<1>5. Lost(k)' <=> Lost(k)
  BY LostKept DEF SameJob
<1> QED BY <1>3, <1>4, <1>5

\* In particular while no call begins.
LEMMA JobKept ==
  ASSUME WorkInv, NoCallBegins, NEW k \in Jobs, SameJob(k),
         \A g \in Loops : SameFrame(g) \/ (cur[g] # k /\ cur'[g] # k)
  PROVE  BegunInv(k)' /\ OrderInv(k)' /\ (Lost(k)' <=> Lost(k))
<1>1. Live(k)' => Live(k)
  BY CallAssumption DEF NoCallBegins, Live
<1> QED BY <1>1, JobRests

\* A frame that is where it was, on a job to which nothing happens.
LEMMA AtWorkKept ==
  ASSUME IInv, WorkInv, NEW g \in Loops, SameFrame(g), cur[g] # NULL => SameWork(cur[g]),
         \A h \in Loops : SameFrame(h) \/ (cur[h] # cur[g] /\ cur'[h] # cur[g])
  PROVE  DoingInv(g)' /\ SerialInv(g)'
<1>1. cur'[g] = cur[g] /\ Iteration(g)' = Iteration(g)
  BY DEF SameFrame
<1>2. pc[g] \in InTask => cur[g] # NULL
  BY DEF IInv, ControlInv, InTask, Busy
<1>3. DoingInv(g)'
  <2>1. pc'[g] \in InTask \cup {"claim"} => run'[g].result = 0
    BY DEF SameFrame, WorkInv, DoingInv
  <2>2. ASSUME pc'[g] \in InTask
        PROVE  /\ ran'[cur[g]][Iteration(g)] = 1
               /\ <<cur[g], Iteration(g)>> \notin completed'
               /\ \A h \in Loops : Doing(h, cur[g], Iteration(g))' => h = g
    <3>1. pc[g] \in InTask
      BY <2>2 DEF SameFrame
    <3>2. SameWork(cur[g])
      BY <1>2, <3>1
    <3>3. /\ ran[cur[g]][Iteration(g)] = 1
          /\ <<cur[g], Iteration(g)>> \notin completed
          /\ \A h \in Loops : Doing(h, cur[g], Iteration(g)) => h = g
      BY <3>1 DEF WorkInv, DoingInv
    <3>4. ASSUME NEW h \in Loops, Doing(h, cur[g], Iteration(g))' PROVE h = g
      <4>1. SameFrame(h)
        BY <3>4, <1>1 DEF Doing
      <4> QED BY <1>1, <3>3, <3>4, <4>1 DEF Doing, SameFrame
    <3> QED BY <3>2, <3>3, <3>4 DEF SameWork
  <2> QED BY <1>1, <2>1, <2>2 DEF DoingInv
<1>4. SerialInv(g)'
  BY <1>1 DEF WorkInv, SerialInv, SameFrame, SameWork, Failing
<1> QED BY <1>3, <1>4

\* The errors stay accounted for while nothing that is lost is found, no error is
\* forgotten, and each new error has a reason.
LEMMA BlameKept ==
  ASSUME WorkInv, NoCallBegins, JoinsKept, completed \subseteq completed',
         \A k \in Jobs : Lost(k) => Lost(k)',
         \A k \in Jobs : exit_status[k] # 0 => exit_status'[k] # 0,
         \A k \in Jobs : Live(k) /\ exit_status'[k] # 0 => exit_status[k] # 0 \/ Blame(CallOf[k])',
         \A g \in Loops : Failing(g)' => Lost(cur[g])'
  PROVE  BlameInv'
<1>1. \A c \in Calls : Blame(c) => Blame(c)'
  <2> SUFFICES ASSUME NEW c \in Calls, Blame(c) PROVE Blame(c)'
    OBVIOUS
  <2>1. JobsOf(c)' = JobsOf(c) /\ JobsOf(c) \subseteq Jobs /\ CallParent[c] \in Jobs \cup {NULL}
    BY CallAssumption DEF JobsOf
  <2>2. CASE \E j \in JobsOf(c) : Lost(j)
    BY <2>1, <2>2 DEF Blame
  <2>3. CASE CallParent[c] # NULL /\ exit_status[CallParent[c]] # 0
    BY <2>1, <2>3 DEF Blame
  <2> QED BY <2>2, <2>3 DEF Blame
<1>2. \A j \in Jobs : CallOf[j] \in Calls /\ (Live(j)' => Live(j))
  BY CallAssumption DEF NoCallBegins, Live
<1>3. \A j \in Jobs : Live(j)' /\ exit_status'[j] # 0 => Blame(CallOf[j])'
  BY <1>1, <1>2 DEF WorkInv, BlameInv
<1>4. \A j : AllDone(j) => AllDone(j)'
  BY DEF AllDone
<1>5. \A c \in Calls : pc'[c] # "idle" =>
        IF status'[c] # 0 THEN Blame(c)' ELSE \A k \in 1..(idx'[c] - 1) : AllDone(CallJobs[c][k])'
  BY <1>1, <1>4 DEF WorkInv, BlameInv, NoCallBegins, JoinsKept
<1> QED BY <1>3, <1>5 DEF BlameInv

\* A step in which nothing happens to the work.
LEMMA WorkKept ==
  ASSUME IInv, WorkInv, NoCallBegins, JoinsKept,
         UNCHANGED <<ran, completed, min, extent, exit_status, active_workers>>,
         \A g \in Loops : SameFrame(g)
  PROVE  WorkInv'
<1>1. \A k \in Jobs : SameJob(k) /\ SameWork(k)
  BY DEF SameJob, SameWork
<1>2. \A k \in Jobs : BegunInv(k)' /\ OrderInv(k)' /\ (Lost(k)' <=> Lost(k))
  BY <1>1, JobKept
<1>3. \A g \in Loops : cur[g] \in Jobs \cup {NULL}
  BY DEF IInv, TypeOK, FramesOK, Frames
<1>4. \A g \in Loops : DoingInv(g)' /\ SerialInv(g)'
  BY <1>1, <1>3, AtWorkKept
<1>5. \A g \in Loops : Failing(g)' => Lost(cur[g])'
  <2> SUFFICES ASSUME NEW g \in Loops, Failing(g)' PROVE Lost(cur[g])'
    OBVIOUS
  <2>1. Failing(g) /\ cur'[g] = cur[g]
    BY FrameKept DEF SameFrame
  <2>2. cur[g] \in Jobs
    BY <1>3, <2>1 DEF Failing, IInv, ControlInv, Busy
  <2>3. Lost(cur[g])
    BY <2>1 DEF WorkInv, BlameInv
  <2> QED BY <1>2, <2>1, <2>2, <2>3
<1>6. BlameInv'
  BY <1>2, <1>5, BlameKept
<1> QED BY <1>2, <1>4, <1>6 DEF WorkInv

\* A step of frame f on job j alone.
OnlyAt(f, j) ==
  /\ \A g \in Loops : g # f => SameFrame(g)
  /\ \A k \in Jobs : k # j => SameJob(k)
  /\ cur[f] \in {NULL, j} /\ cur'[f] \in {NULL, j}
  /\ NoCallBegins /\ JoinsKept /\ UNCHANGED exit_status /\ completed \subseteq completed'
  /\ DOMAIN ran' = DOMAIN ran

\* What remains to be shown of such a step.
LEMMA WorkAt ==
  ASSUME IInv, WorkInv, NEW f \in Loops, NEW j \in Jobs, OnlyAt(f, j),
         BegunInv(j)', OrderInv(j)', DoingInv(f)', SerialInv(f)',
         \A g \in Loops : g # f /\ cur[g] = j => DoingInv(g)' /\ SerialInv(g)',
         Lost(j) => Lost(j)', Failing(f)' => cur'[f] = j /\ Lost(j)'
  PROVE  WorkInv'
<1>t. \A g \in Loops : cur[g] \in Jobs \cup {NULL}
  BY DEF IInv, TypeOK, FramesOK, Frames
<1>n. NULL \notin Jobs
  BY FrameAssumption
<1>1. \A k \in Jobs : k # j => BegunInv(k)' /\ OrderInv(k)' /\ (Lost(k)' <=> Lost(k))
  BY <1>n, JobKept DEF OnlyAt
<1>2. ASSUME NEW g \in Loops, g # f, cur[g] # j PROVE DoingInv(g)' /\ SerialInv(g)'
  <2>1. SameFrame(g) /\ (cur[g] # NULL => SameWork(cur[g]))
    BY <1>t, <1>2 DEF OnlyAt, SameJob
  <2>2. CASE cur[g] = NULL
    <3>1. pc[g] \notin InTask /\ pc[g] # "claim"
      BY <2>2 DEF IInv, ControlInv, InTask, Busy
    <3> QED BY <2>1, <2>2, <3>1 DEF SameFrame, DoingInv, SerialInv
  <2>3. CASE cur[g] # NULL
    BY <1>2, <2>1, <2>3, AtWorkKept DEF OnlyAt
  <2> QED BY <2>2, <2>3
<1>3. \A k \in Jobs : Lost(k) => Lost(k)'
  BY <1>1
<1>5. \A g \in Loops : Failing(g)' => Lost(cur[g])'
  <2> SUFFICES ASSUME NEW g \in Loops, Failing(g)', g # f PROVE Lost(cur[g])'
    OBVIOUS
  <2>1. Failing(g) /\ cur'[g] = cur[g]
    BY FrameKept DEF SameFrame, OnlyAt
  <2>2. cur[g] \in Jobs
    BY <1>t, <2>1 DEF Failing, IInv, ControlInv, Busy
  <2>3. Lost(cur[g])
    BY <2>1 DEF WorkInv, BlameInv
  <2> QED BY <1>3, <2>1, <2>2, <2>3
<1>6. BlameInv'
  BY <1>3, <1>5, BlameKept DEF OnlyAt
<1> QED BY <1>1, <1>2, <1>6 DEF WorkInv, OnlyAt

\* The steps of a frame within an iteration, and the iterations it claims, leave it
\* at its iteration.
LEMMA SameRun ==
  ASSUME run \in [Frames -> RunType], NEW f \in Frames,
         \/ run' = run
         \/ run' = [run EXCEPT ![f].step = @ + 1]
         \/ run' = [run EXCEPT ![f].iters = @ + 1]
  PROVE  \A g \in Frames : /\ Iteration(g)' = Iteration(g)
                           /\ run'[g].result = run[g].result /\ run'[g].done = run[g].done
<1>1. CASE run' = run
  BY <1>1 DEF Iteration
<1>2. CASE run' = [run EXCEPT ![f].step = @ + 1]
  <2>1. \A g \in Frames : /\ run'[g].min = run[g].min /\ run'[g].total = run[g].total
                          /\ run'[g].result = run[g].result /\ run'[g].done = run[g].done
    BY <1>2, SMTT(30) DEF RunType
  <2> QED BY <2>1 DEF Iteration
<1>3. CASE run' = [run EXCEPT ![f].iters = @ + 1]
  <2>1. \A g \in Frames : /\ run'[g].min = run[g].min /\ run'[g].total = run[g].total
                          /\ run'[g].result = run[g].result /\ run'[g].done = run[g].done
    BY <1>3 DEF RunType
  <2> QED BY <2>1 DEF Iteration
<1> QED BY <1>1, <1>2, <1>3

\* Frame g may sleep, wake, scan or make a runtime call, and a worker may come and go.
Resting == {"idle", "enter", "head", "scan", "sleepA", "sleepB", "sleepOwner",
            "wokenA", "wokenB", "wokenOwner", "exited"}
SamePlace(g) ==
  \/ pc'[g] = pc[g]
  \/ pc[g] \in Resting /\ pc'[g] \in Resting
  \/ pc[g] \in InTask /\ pc'[g] \in InTask

\* The work does not change when frames move in that way and nothing else changes.
LEMMA WorkRests ==
  ASSUME IInv, WorkInv, NoCallBegins, JoinsKept,
         UNCHANGED <<ran, completed, min, extent, exit_status, active_workers, cur>>,
         NEW f \in Frames,
         run' \in {run, [run EXCEPT ![f].step = @ + 1], [run EXCEPT ![f].iters = @ + 1]},
         \A g \in Frames : SamePlace(g)
  PROVE  WorkInv'
<1>1. \A g \in Frames : /\ Iteration(g)' = Iteration(g)
                        /\ run'[g].result = run[g].result /\ run'[g].done = run[g].done
  BY SameRun DEF IInv, TypeOK, FramesOK
<1>2. ASSUME NEW g \in Frames
      PROVE  /\ pc[g] \in InTask <=> pc'[g] \in InTask
             /\ pc[g] = "claim" <=> pc'[g] = "claim"
             /\ pc[g] = "relock" <=> pc'[g] = "relock"
  BY DEF SamePlace, Resting, InTask
<1>3. \A g \in Loops : SameFrame(g)
  BY <1>1, <1>2 DEF SameFrame, Frames
<1> QED BY <1>3, WorkKept

\* Workers rest; so do owners that wait for their jobs, and a call that returns
\* leaves the work as it is.
LEMMA WorkWorker ==
  ASSUME IInv, WorkInv, NEW w \in Workers, WorkerStep(w)
  PROVE  WorkInv'
<1>t. pc \in [Frames -> PC] /\ w \in Frames /\ Calls \subseteq Frames
  BY DEF IInv, TypeOK, FramesOK, Frames, Loops
<1>1. /\ UNCHANGED <<ran, completed, min, extent, exit_status, active_workers, idx, status, cur, run>>
      /\ pc[w] \in Resting \ {"idle"} /\ \E q \in Resting \ {"idle"} : pc' = [pc EXCEPT ![w] = q]
  <2>1. CASE EnterWorker(w) \/ ExitWorker(w)
    BY <2>1 DEF EnterWorker, ExitWorker, AtHead, jobVars, frameVars, envVars, Resting
  <2>2. CASE SleepWorker(w)
    <3>1. pc[w] = "scan" /\ \E q \in {"sleepA", "sleepB"} : pc' = [pc EXCEPT ![w] = q]
      BY <2>2 DEF SleepWorker, AtScanEnd
    <3>2. UNCHANGED <<ran, completed, min, extent, exit_status, active_workers, idx, status, cur, run>>
      BY <2>2 DEF SleepWorker, jobVars, frameVars, envVars
    <3> QED BY <3>1, <3>2 DEF Resting
  <2>3. CASE WakeWorker(w)
    BY <2>3 DEF WakeWorker, jobVars, frameVars, envVars, Resting
  <2> QED BY <2>1, <2>2, <2>3 DEF WorkerStep
<1>2. NoCallBegins /\ JoinsKept /\ \A g \in Frames : SamePlace(g)
  BY <1>t, <1>1 DEF NoCallBegins, JoinsKept, SamePlace
<1> QED BY <1>t, <1>1, <1>2, WorkRests

\* Making and ending runtime calls leaves the work as it is.
LEMMA WorkCalls ==
  ASSUME IInv, WorkInv, NEW f \in Frames,
         halide_semaphore_init(f) \/ halide_semaphore_release(f) \/ NotifyRelease(f)
  PROVE  WorkInv'
<1>t. pc \in [Frames -> PC] /\ Calls \subseteq Frames
  BY DEF IInv, TypeOK, FramesOK, Frames, Loops
<1>1. /\ UNCHANGED <<ran, completed, min, extent, exit_status, active_workers, idx, status, cur>>
      /\ run' \in {run, [run EXCEPT ![f].step = @ + 1], [run EXCEPT ![f].iters = @ + 1]}
  BY DEF halide_semaphore_init, halide_semaphore_release, NotifyRelease, jobVars, envVars, NextStep
<1>2. CASE halide_semaphore_init(f) \/ halide_semaphore_release(f)
  <2>1. pc[f] = "body" /\ (UNCHANGED pc \/ pc' = [pc EXCEPT ![f] = "notify"])
    BY <1>2 DEF halide_semaphore_init, halide_semaphore_release, AtStep
  <2>2. NoCallBegins /\ JoinsKept /\ \A g \in Frames : SamePlace(g)
    BY <1>t, <1>1, <2>1 DEF NoCallBegins, JoinsKept, SamePlace, InTask
  <2> QED BY <1>1, <2>2, WorkRests
<1>3. CASE NotifyRelease(f)
  <2>1. pc[f] = "notify" /\ pc' = [Broadcast({"A", "owner"}) EXCEPT ![f] = "body"]
    BY <1>3 DEF NotifyRelease
  <2>2. NoCallBegins /\ JoinsKept /\ \A g \in Frames : SamePlace(g)
    BY <1>t, <1>1, <2>1, BroadcastPC DEF NoCallBegins, JoinsKept, SamePlace, InTask, Resting
  <2> QED BY <1>1, <2>2, WorkRests
<1> QED BY <1>2, <1>3

\* The application leaves the work as it is.
LEMMA WorkApplication ==
  ASSUME IInv, WorkInv,
         \/ \E n \in ThreadRequests : halide_set_num_threads(n)
         \/ halide_shutdown_thread_pool \/ JoinWorkers \/ Terminating \/ UNCHANGED vars
  PROVE  WorkInv'
<1>t. pc \in [Frames -> PC] /\ Calls \subseteq Frames /\ \A c \in Calls : pc[c] # "exited"
  BY DEF IInv, TypeOK, FramesOK, Frames, Loops, ControlInv, CallPC, Busy
<1>f. 1 \in Frames
  BY FrameAssumption, SMTT(30) DEF Frames, Loops, Workers
<1>1. UNCHANGED <<ran, completed, min, extent, exit_status, active_workers, idx, status, cur, run>>
  BY DEF halide_set_num_threads, halide_shutdown_thread_pool, JoinWorkers, Terminating, vars,
               jobVars, frameVars, envVars
<1>2. CASE (\E n \in ThreadRequests : halide_set_num_threads(n)) \/ Terminating \/ UNCHANGED vars
  <2>1. UNCHANGED pc
    BY <1>2 DEF halide_set_num_threads, Terminating, vars
  <2>2. NoCallBegins /\ JoinsKept /\ \A g \in Frames : SamePlace(g)
    BY <1>1, <2>1 DEF NoCallBegins, JoinsKept, SamePlace
  <2> QED BY <1>f, <1>1, <2>2, WorkRests
<1>3. CASE halide_shutdown_thread_pool
  <2>1. NoCallBegins /\ JoinsKept /\ \A g \in Frames : SamePlace(g)
    BY <1>t, <1>1, <1>3, BroadcastPC DEF halide_shutdown_thread_pool, NoCallBegins, JoinsKept, SamePlace, Resting
  <2> QED BY <1>f, <1>1, <2>1, WorkRests
<1>4. CASE JoinWorkers
  <2>1. \A g \in Frames : pc'[g] = IF pc[g] = "exited" THEN "idle" ELSE pc[g]
    BY <1>4 DEF JoinWorkers
  <2>2. NoCallBegins /\ JoinsKept /\ \A g \in Frames : SamePlace(g)
    BY <1>t, <1>1, <2>1 DEF NoCallBegins, JoinsKept, SamePlace, Resting
  <2> QED BY <1>f, <1>1, <2>2, WorkRests
<1> QED BY <1>2, <1>3, <1>4

\* A job that has been joined without an error is done; an error has a reason.
LEMMA JoinedWork ==
  ASSUME Counting, IInv, WorkInv, NEW c \in Calls, pc[c] # "idle", ~running(OwnedJob(c))
  PROVE  IF Joined(c) # 0 THEN Blame(c) ELSE status[c] = 0 /\ AllDone(OwnedJob(c))
<1> DEFINE j == OwnedJob(c)
<1>1. j \in Jobs /\ CallOf[j] = c
  BY OwnedJobType
<1> HIDE DEF j
<1>2. Live(j) /\ extent[j] = 0 /\ active_workers[j] = 0
  <2>1. Live(j)
    BY <1>1 DEF Live
  <2> QED BY <1>1, <2>1, SMTT(30) DEF running, IInv, TypeOK, JobsOK, j
<1>3. \A g \in Loops : cur[g] # j
  BY <1>1, <1>2, NoWorkers DEF Frames
<1>4. ASSUME exit_status[j] = 0 PROVE AllDone(j)
  <2>1. min[j] = Task[j].extent
    <3>1. min[j] + extent[j] = Task[j].extent /\ min[j] \in Nat
      BY <1>1, <1>2, <1>4 DEF WorkInv, OrderInv, IInv, TypeOK, JobsOK
    <3> QED BY <1>2, <3>1, SMTT(30)
  <2>2. \A i \in Iterations(j) : i < min[j]
    BY <1>1, <2>1, TaskAssumption, SMTT(30) DEF Iterations
  <2>3. CASE Serial(j)
    <3>1. \A i \in Iterations(j) : IF i < min[j] THEN <<j, i>> \in completed ELSE ran[j][i] = 0
      BY <1>1, <1>2, <1>4, <2>3 DEF WorkInv, OrderInv
    <3> QED BY <2>2, <3>1 DEF AllDone
  <2>4. CASE ~Serial(j)
    <3>1. \A i \in Iterations(j) : ran[j][i] = 1
      BY <1>1, <2>2, <2>4 DEF WorkInv, OrderInv
    <3>2. \A i \in Iterations(j) : ran[j][i] = 1 =>
            \/ <<j, i>> \in completed
            \/ \E f \in Loops : Doing(f, j, i) \/ (cur[f] = j /\ Failing(f))
            \/ exit_status[j] # 0
      BY <1>1 DEF WorkInv, BegunInv
    <3> QED BY <1>3, <1>4, <3>1, <3>2 DEF AllDone, Doing
  <2> QED BY <2>3, <2>4
<1>5. exit_status[j] # 0 => Blame(c)
  BY <1>1, <1>2 DEF WorkInv, BlameInv
<1>6. status[c] # 0 => Blame(c)
  BY DEF WorkInv, BlameInv
<1>7. Joined(c) = IF exit_status[j] # 0 THEN exit_status[j] ELSE status[c]
  BY DEF Joined, j
<1> QED BY <1>4, <1>5, <1>6, <1>7 DEF j

\* The owner joins a job.
LEMMA WorkJoin ==
  ASSUME Counting, IInv, WorkInv, NEW c \in Calls, JoinNext(c)
  PROVE  WorkInv'
<1>1. /\ pc[c] = "head" /\ ~running(OwnedJob(c))
      /\ status' = [status EXCEPT ![c] = Joined(c)] /\ idx' = [idx EXCEPT ![c] = @ + 1]
      /\ UNCHANGED <<ran, completed, min, extent, exit_status, active_workers, cur, run, pc>>
  BY DEF JoinNext, AtHead, jobVars, envVars
<1>t. idx \in [Calls -> Nat \ {0}] /\ status \in [Calls -> {0, 1}]
  BY DEF IInv, TypeOK, FramesOK
<1>2. /\ NoCallBegins /\ \A g \in Loops : SameFrame(g)
      /\ \A k \in Jobs : SameJob(k) /\ SameWork(k)
  BY <1>1 DEF NoCallBegins, SameFrame, SameJob, SameWork, Iteration
<1>3. \A k \in Jobs : BegunInv(k)' /\ OrderInv(k)'
  BY <1>2, JobKept
<1>4. \A g \in Loops : DoingInv(g)' /\ SerialInv(g)'
  <2>1. \A g \in Loops : cur[g] \in Jobs \cup {NULL}
    BY DEF IInv, TypeOK, FramesOK, Frames
  <2> QED BY <1>2, <2>1, AtWorkKept
<1>5. /\ \A j : Lost(j)' = Lost(j) /\ AllDone(j)' = AllDone(j) /\ Live(j)' = Live(j)
      /\ \A d : Blame(d)' = Blame(d)
      /\ \A g : Failing(g)' = Failing(g)
  <2>1. \A j : Lost(j)' = Lost(j)
    BY <1>1 DEF Lost, Doing, Iteration
  <2>2. \A j : AllDone(j)' = AllDone(j) /\ Live(j)' = Live(j)
    BY <1>1 DEF AllDone, Live
  <2>3. \A d : Blame(d)' = Blame(d)
    BY <1>1, <2>1 DEF Blame, JobsOf
  <2>4. \A g : Failing(g)' = Failing(g)
    BY <1>1 DEF Failing
  <2> QED BY <2>1, <2>2, <2>3, <2>4
<1>6. ASSUME NEW d \in Calls, pc'[d] # "idle"
      PROVE  IF status'[d] # 0 THEN Blame(d)
             ELSE \A k \in 1..(idx'[d] - 1) : AllDone(CallJobs[d][k])
  <2>1. CASE d # c
    <3>1. status'[d] = status[d] /\ idx'[d] = idx[d] /\ pc[d] # "idle"
      BY <1>1, <1>6, <1>t, <2>1
    <3> QED BY <3>1 DEF WorkInv, BlameInv
  <2>2. CASE d = c
    <3>1. status'[c] = Joined(c) /\ idx'[c] = idx[c] + 1
      BY <1>1, <1>t
    <3>2. CASE Joined(c) # 0
      BY <1>1, <2>2, <3>1, <3>2, JoinedWork
    <3>3. CASE Joined(c) = 0
      <4>1. status[c] = 0 /\ AllDone(CallJobs[c][idx[c]])
        BY <1>1, <3>3, JoinedWork DEF OwnedJob
      <4>2. \A k \in 1..(idx[c] - 1) : AllDone(CallJobs[c][k])
        BY <1>1, <4>1 DEF WorkInv, BlameInv
      <4>3. \A k \in 1..(idx'[c] - 1) : k = idx[c] \/ k \in 1..(idx[c] - 1)
        BY <1>t, <3>1, SMTT(30)
      <4> QED BY <2>2, <3>1, <3>3, <4>1, <4>2, <4>3
    <3> QED BY <3>2, <3>3
  <2> QED BY <2>1, <2>2
<1>7. BlameInv'
  <2>1. \A g \in Loops : Failing(g)' => Lost(cur[g])'
    BY <1>1, <1>5 DEF WorkInv, BlameInv
  <2>2. \A j \in Jobs : Live(j)' /\ exit_status'[j] # 0 => Blame(CallOf[j])'
    BY <1>1, <1>5 DEF WorkInv, BlameInv
  <2> QED BY <1>5, <1>6, <2>1, <2>2 DEF BlameInv
<1> QED BY <1>1, <1>3, <1>4, <1>7 DEF WorkInv

\* The owner drops its failed job, on which nobody works.
LEMMA WorkDrop ==
  ASSUME Counting, IInv, WorkInv, NEW c \in Calls, DropFailed(c)
  PROVE  WorkInv'
<1>p. PICK j \in Jobs : j = OwnedJob(c)
  BY OwnedJobType
<1>1. /\ pc[c] = "head" /\ exit_status[j] # 0 /\ active_workers[j] = 0
      /\ extent' = [extent EXCEPT ![j] = 0]
      /\ UNCHANGED <<ran, completed, min, exit_status, active_workers, cur, run, pc, idx, status>>
  BY <1>p DEF DropFailed, AtHead, frameVars, envVars
<1>t. extent \in [Jobs -> Nat] /\ c \in Loops
  BY DEF IInv, TypeOK, JobsOK, Loops
<1>3. /\ NoCallBegins /\ JoinsKept /\ \A g \in Loops : SameFrame(g)
      /\ \A k \in Jobs : SameWork(k) /\ (k # j => SameJob(k))
  BY <1>1, <1>t DEF NoCallBegins, JoinsKept, SameFrame, SameJob, SameWork, Iteration
<1>4. cur[c] = NULL
  BY <1>1, <1>t DEF IInv, ControlInv, Busy
<1>5. OnlyAt(c, j)
  BY <1>1, <1>3, <1>4 DEF OnlyAt
<1>6. \A g \in Loops : cur[g] # j
  BY <1>1, <1>p, NoWorkers DEF Frames
<1>7. BegunInv(j)'
  BY <1>1, <1>p DEF WorkInv, BegunInv
<1>8. OrderInv(j)'
  <2>1. extent'[j] = 0
    BY <1>1, <1>p, <1>t
  <2>2. OrderInv(j)
    BY <1>p DEF WorkInv
  <2> QED BY <1>1, <2>1, <2>2, SMTT(30) DEF OrderInv
<1>9. DoingInv(c)' /\ SerialInv(c)' /\ ~Failing(c)'
  <2>1. pc'[c] = "head" /\ cur'[c] = NULL
    BY <1>1, <1>4
  <2> QED BY <2>1 DEF DoingInv, SerialInv, Failing, InTask
<1>10. Lost(j)' <=> Lost(j)
  BY <1>p, <1>3, LostKept
<1> QED BY <1>p, <1>t, <1>5, <1>6, <1>7, <1>8, <1>9, <1>10, WorkAt

\* The owner passes the failure of the parent on to its job.
LEMMA WorkInherit ==
  ASSUME IInv, WorkInv, NEW c \in Calls, InheritFailure(c)
  PROVE  WorkInv'
<1>p. PICK j \in Jobs : j = OwnedJob(c) /\ CallOf[j] = c
  BY OwnedJobType
<1>1. /\ exit_status[j] = 0 /\ Parent(j) # NULL /\ exit_status[Parent(j)] # 0
      /\ exit_status' = [exit_status EXCEPT ![j] = exit_status[Parent(j)]]
      /\ pc' = Broadcast({"owner"})
      /\ UNCHANGED <<ran, completed, min, extent, active_workers, cur, run, idx, status>>
  BY <1>p DEF InheritFailure, frameVars, envVars
<1>t. exit_status \in [Jobs -> {0, 1}] /\ pc \in [Frames -> PC]
      /\ Parent(j) \in Jobs \cup {NULL} /\ Parent(j) = CallParent[c] /\ Loops \subseteq Frames
  BY <1>p, CallAssumption DEF IInv, TypeOK, JobsOK, FramesOK, Parent, Frames
<1>3. /\ exit_status'[j] # 0 /\ exit_status'[Parent(j)] # 0
      /\ \A k \in Jobs : k # j => exit_status'[k] = exit_status[k]
  BY <1>1, <1>p, <1>t
<1>4. NoCallBegins /\ JoinsKept /\ \A g \in Loops : SameFrame(g)
  <2>1. \A g \in Frames : /\ pc[g] = "idle" => pc'[g] = "idle"
                          /\ pc[g] \in InTask <=> pc'[g] \in InTask
                          /\ pc[g] = "claim" <=> pc'[g] = "claim"
                          /\ pc[g] = "relock" <=> pc'[g] = "relock"
    BY <1>1, <1>t, BroadcastPC DEF InTask
  <2>2. NoCallBegins /\ JoinsKept
    BY <1>1, <2>1 DEF NoCallBegins, JoinsKept, Frames, Loops
  <2>3. \A g \in Loops : SameFrame(g)
    BY <1>1, <1>t, <2>1 DEF SameFrame, Iteration
  <2> QED BY <2>2, <2>3
<1>5. \A k \in Jobs : SameWork(k) /\ (k # j => SameJob(k))
  BY <1>1, <1>3 DEF SameJob, SameWork
<1>6. \A k \in Jobs : Lost(k)' <=> Lost(k)
  BY <1>4, <1>5, LostKept
<1>7. \A k \in Jobs : k # j => BegunInv(k)' /\ OrderInv(k)'
  BY <1>4, <1>5, JobKept
<1>8. BegunInv(j)'
  BY <1>1, <1>p, <1>3 DEF WorkInv, BegunInv
<1>9. OrderInv(j)'
  <2>1. OrderInv(j)
    BY <1>p DEF WorkInv
  <2> QED BY <1>1, <1>3, <2>1 DEF OrderInv
<1>10. \A g \in Loops : cur[g] \in Jobs \cup {NULL}
  BY DEF IInv, TypeOK, FramesOK, Frames
<1>11. \A g \in Loops : DoingInv(g)' /\ SerialInv(g)'
  BY <1>4, <1>5, <1>10, AtWorkKept
<1>12. \A g \in Loops : Failing(g)' => Lost(cur[g])'
  <2> SUFFICES ASSUME NEW g \in Loops, Failing(g)' PROVE Lost(cur[g])'
    OBVIOUS
  <2>1. Failing(g) /\ cur'[g] = cur[g]
    BY <1>4, FrameKept DEF SameFrame
  <2>2. cur[g] \in Jobs
    BY <1>10, <2>1 DEF Failing, IInv, ControlInv, Busy
  <2> QED BY <1>6, <2>1, <2>2 DEF WorkInv, BlameInv
<1>13. Blame(c)'
  BY <1>1, <1>3, <1>t DEF Blame
<1>14. BlameInv'
  <2>1. \A k \in Jobs : /\ exit_status[k] # 0 => exit_status'[k] # 0
                        /\ exit_status'[k] # 0 => exit_status[k] # 0 \/ Blame(CallOf[k])'
    BY <1>1, <1>p, <1>3, <1>13
  <2> QED BY <1>1, <1>4, <1>6, <1>12, <2>1, BlameKept
<1> QED BY <1>1, <1>7, <1>8, <1>9, <1>11, <1>14 DEF WorkInv

\* Owners.
LEMMA WorkOwner ==
  ASSUME Counting, IInv, WorkInv, NEW c \in Calls, OwnerStep(c)
  PROVE  WorkInv'
<1>t. pc \in [Frames -> PC] /\ c \in Frames /\ Calls \subseteq Frames
  BY DEF IInv, TypeOK, FramesOK, Frames, Loops
<1>1. CASE SleepOwner(c) \/ WakeOwner(c)
  <2>1. /\ UNCHANGED <<ran, completed, min, extent, exit_status, active_workers, idx, status, cur, run>>
        /\ pc[c] \in {"scan", "wokenOwner"}
        /\ \E q \in {"sleepOwner", "head"} : pc' = [pc EXCEPT ![c] = q]
    BY <1>1 DEF SleepOwner, WakeOwner, AtScanEnd, jobVars, frameVars, envVars
  <2>2. NoCallBegins /\ JoinsKept /\ \A g \in Frames : SamePlace(g)
    BY <1>t, <2>1 DEF NoCallBegins, JoinsKept, SamePlace, Resting
  <2> QED BY <1>t, <2>1, <2>2, WorkRests
<1>2. CASE Return(c)
  <2>1. pc[c] = "head" /\ caller[c] \in Frames /\ pc[caller[c]] = "calling"
    BY <1>2 DEF Return, AtHead, IInv, CallerInv
  <2>2. /\ run' = [run EXCEPT ![caller[c]].step = @ + 1]
        /\ UNCHANGED <<ran, completed, min, extent, exit_status, active_workers, idx, cur>>
        /\ \E q \in {"failed", "body"} : pc' = [pc EXCEPT ![c] = "idle", ![caller[c]] = q]
    BY <1>2 DEF Return, jobVars, envVars
  <2>3. NoCallBegins /\ \A g \in Frames : SamePlace(g)
    BY <1>t, <2>1, <2>2 DEF NoCallBegins, SamePlace, Resting, InTask
  <2>4. JoinsKept
    <3>1. pc'[c] = "idle"
      BY <1>t, <2>1, <2>2
    <3>2. status' = [status EXCEPT ![c] = Joined(c)] /\ status \in [Calls -> {0, 1}]
      BY <1>2 DEF Return, IInv, TypeOK, FramesOK
    <3> QED BY <2>2, <3>1, <3>2 DEF JoinsKept
  <2> QED BY <1>t, <2>1, <2>2, <2>3, <2>4, WorkRests
<1> QED BY <1>1, <1>2, WorkJoin, WorkDrop, WorkInherit DEF OwnerStep

\* A step of frame f that changes the locals of no other frame.
LEMMA OthersSame ==
  ASSUME NEW f \in Loops, pc[f] # "idle",
         \A g \in Loops : g # f => cur'[g] = cur[g] /\ run'[g] = run[g] /\ pc'[g] = pc[g]
  PROVE  NoCallBegins /\ \A g \in Loops : g # f => SameFrame(g)
<1>1. NoCallBegins
  BY DEF NoCallBegins, Loops
<1>2. \A g \in Loops : g # f => SameFrame(g)
  BY DEF SameFrame, Iteration
<1> QED BY <1>1, <1>2

\* What a frame that starts a job does to itself.
LEMMA StartFrame ==
  ASSUME IInv, NEW f \in Loops, StartSerial(f) \/ StartParallel(f)
  PROVE  \E j \in Jobs :
           /\ j = jobs[cursor[f]] /\ Live(j) /\ extent[j] > 0 /\ cur[f] = NULL
           /\ (Serial(j) => active_workers[j] = 0)
           /\ NoCallBegins /\ JoinsKept /\ \A g \in Loops : g # f => SameFrame(g)
           /\ cur'[f] = j /\ Iteration(f)' = min[j] /\ run'[f].result = 0 /\ run'[f].done = 0
           /\ pc'[f] = IF StartSerial(f) THEN "claim" ELSE "body"
           /\ active_workers' = [active_workers EXCEPT ![j] = @ + 1]
           /\ UNCHANGED exit_status
<1>1. AtScan(f) /\ CanStart(f, jobs[cursor[f]]) /\ pc[f] = "scan"
  BY DEF StartSerial, StartParallel, AtScan
<1>2. cursor[f] \in 1..Len(jobs) /\ jobs[cursor[f]] \in Jobs
  BY <1>1, AtScanJob
<1>3. PICK j \in Jobs : j = jobs[cursor[f]]
  BY <1>2
<1>4. Holds(jobs, j)
  BY <1>2, <1>3 DEF Holds
<1>5. Live(j) /\ extent[j] > 0 /\ (Serial(j) => active_workers[j] = 0)
  BY <1>4 DEF IInv, StackHoldsPendingJobs
<1>6. cur[f] = NULL
  BY <1>1 DEF IInv, ControlInv, Busy
<1>t. /\ f \in Frames /\ Loops \subseteq Frames /\ cur \in [Frames -> Jobs \cup {NULL}]
      /\ run \in [Frames -> RunType] /\ pc \in [Frames -> PC] /\ min[j] \in Nat
  BY DEF IInv, TypeOK, FramesOK, JobsOK, Frames
<1>7. /\ cur' = [cur EXCEPT ![f] = j] /\ run' = [run EXCEPT ![f] = NewRun(min[j])]
      /\ pc' = [pc EXCEPT ![f] = IF StartSerial(f) THEN "claim" ELSE "body"]
      /\ active_workers' = [active_workers EXCEPT ![j] = @ + 1]
      /\ UNCHANGED <<exit_status, idx, status>>
  <2>1. CASE StartSerial(f)
    BY <1>3, <2>1 DEF StartSerial
  <2>2. CASE StartParallel(f)
    <3>1. ~StartSerial(f)
      BY <2>2 DEF StartSerial, StartParallel
    <3> QED BY <1>3, <2>2, <3>1 DEF StartParallel
  <2> QED BY <2>1, <2>2
<1>8. cur'[f] = j /\ run'[f] = NewRun(min[j]) /\ pc'[f] = IF StartSerial(f) THEN "claim" ELSE "body"
  BY <1>7, <1>t
<1>9. Iteration(f)' = min[j] /\ run'[f].result = 0 /\ run'[f].done = 0
  BY <1>8, <1>t, SMTT(30) DEF Iteration, NewRun
<1>10. NoCallBegins /\ JoinsKept /\ \A g \in Loops : g # f => SameFrame(g)
  <2>1. \A g \in Loops : g # f => cur'[g] = cur[g] /\ run'[g] = run[g] /\ pc'[g] = pc[g]
    BY <1>7, <1>t
  <2>2. NoCallBegins /\ \A g \in Loops : g # f => SameFrame(g)
    BY <1>1, <2>1, OthersSame
  <2> QED BY <1>7, <2>2 DEF JoinsKept
<1> QED BY <1>3, <1>5, <1>6, <1>7, <1>8, <1>9, <1>10

\* A frame starts a serial job.
LEMMA WorkStartSerial ==
  ASSUME Counting, IInv, WorkInv, NEW f \in Loops, StartSerial(f)
  PROVE  WorkInv'
<1>1. PICK j \in Jobs :
           /\ j = jobs[cursor[f]] /\ Live(j) /\ extent[j] > 0 /\ cur[f] = NULL
           /\ (Serial(j) => active_workers[j] = 0)
           /\ NoCallBegins /\ JoinsKept /\ \A g \in Loops : g # f => SameFrame(g)
           /\ cur'[f] = j /\ Iteration(f)' = min[j] /\ run'[f].result = 0 /\ run'[f].done = 0
           /\ pc'[f] = (IF StartSerial(f) THEN "claim" ELSE "body")
           /\ active_workers' = [active_workers EXCEPT ![j] = @ + 1]
           /\ UNCHANGED exit_status
  BY StartFrame
<1>2. Serial(j) /\ UNCHANGED <<extent, min, ran, completed>>
  BY <1>1 DEF StartSerial, envVars
<1>3. pc'[f] = "claim" /\ active_workers[j] = 0
  BY <1>1, <1>2
<1>t. active_workers \in [Jobs -> Nat] /\ NULL \notin Jobs
  BY FrameAssumption DEF IInv, TypeOK, JobsOK
<1>4. active_workers'[j] = 1 /\ \A k \in Jobs : k # j => active_workers'[k] = active_workers[k]
  BY <1>1, <1>3, <1>t, SMTT(30)
<1>5. \A k \in Jobs : SameWork(k) /\ (k # j => SameJob(k))
  BY <1>1, <1>2, <1>4 DEF SameJob, SameWork
<1>6. OnlyAt(f, j)
  BY <1>1, <1>2, <1>5 DEF OnlyAt
<1>7. \A g \in Loops : cur[g] # j /\ (g # f => cur'[g] # j)
  <2>1. \A g \in Loops : cur[g] # j
    BY <1>3, NoWorkers DEF Frames
  <2> QED BY <1>1, <2>1 DEF SameFrame
<1>8. BegunInv(j)'
  BY <1>1, <1>2, <1>7 DEF WorkInv, BegunInv, Doing
<1>9. OrderInv(j) /\ OrderInv(j)'
  <2>1. OrderInv(j)
    BY DEF WorkInv
  <2>2. Live(j)
    BY <1>1
  <2>3. /\ ran'[j] = ran[j] /\ min'[j] = min[j] /\ extent'[j] = extent[j]
        /\ exit_status'[j] = exit_status[j] /\ completed' = completed
    BY <1>1, <1>2
  <2> QED BY <1>4, <2>1, <2>2, <2>3, SMTT(30) DEF OrderInv
<1>10. DoingInv(f)' /\ ~Failing(f)'
  BY <1>1, <1>3 DEF DoingInv, Failing, InTask
<1>11. SerialInv(f)'
  <2>1. \A i \in Iterations(j) : IF i < min[j] THEN <<j, i>> \in completed ELSE ran[j][i] = 0
    BY <1>1, <1>2, <1>3, <1>9 DEF OrderInv
  <2>2. \A i \in Iterations(j) : i \in Int
    BY TaskAssumption, SMTT(30) DEF Iterations
  <2>3. min[j] \in Nat
    BY DEF IInv, TypeOK, JobsOK
  <2>4. \A i \in Iterations(j) : i > min[j] \/ i = min[j] => ~(i < min[j])
    BY <2>2, <2>3, SMTT(30)
  <2>5. \A i \in Iterations(j) :
          /\ i < min[j] => <<j, i>> \in completed
          /\ i > min[j] \/ (i = min[j] /\ pc'[f] \notin InTask) => ran[j][i] = 0
    BY <2>1, <2>4
  <2> QED BY <1>1, <1>2, <1>3, <2>5 DEF SerialInv
<1>12. Lost(j) => Lost(j)'
  <2>1. \A g \in Loops : \A i : ~Doing(g, j, i)'
    BY <1>3, <1>7 DEF Doing, InTask
  <2> QED BY <1>2, <2>1 DEF Lost
<1> QED BY <1>6, <1>7, <1>8, <1>9, <1>10, <1>11, <1>12, WorkAt

\* Iteration n of job j, which nobody has begun, is begun by frame f and nothing else
\* changes about the iterations of the job.
Begins(f, j, n) ==
  /\ ran[j][n] = 0 /\ ran'[j] = [ran[j] EXCEPT ![n] = 1]
  /\ \A i \in Iterations(j) : <<j, i>> \in completed' <=> <<j, i>> \in completed
  /\ \A g \in Loops : g # f => SameFrame(g)
  /\ UNCHANGED exit_status
  /\ (\A i : ~Doing(f, j, i)) /\ ~(cur[f] = j /\ Failing(f))
  /\ cur'[f] = j /\ pc'[f] \in InTask /\ Iteration(f)' = n /\ run'[f].result = 0

\* What holds of the iterations of j still does.
LEMMA BeginIteration ==
  ASSUME IInv, WorkInv, NEW f \in Loops, NEW j \in Jobs, NEW n \in Iterations(j), Begins(f, j, n)
  PROVE  /\ BegunInv(j)' /\ DoingInv(f)' /\ ~Failing(f)' /\ (Lost(j) => Lost(j)')
         /\ \A g \in Loops : g # f /\ cur[g] = j => DoingInv(g)'
         /\ \A i \in Iterations(j) : ran'[j][i] = IF i = n THEN 1 ELSE ran[j][i]
<1> USE DEF Begins
<1>1. BegunInv(j) /\ ran[j] \in [Iterations(j) -> {0, 1}]
  BY DEF WorkInv, BegunInv
<1>2. /\ ran'[j] \in [Iterations(j) -> {0, 1}]
      /\ \A i \in Iterations(j) : ran'[j][i] = IF i = n THEN 1 ELSE ran[j][i]
  BY <1>1
<1>3. \A g \in Loops : \A k, i : g # f => (Doing(g, k, i)' <=> Doing(g, k, i))
  BY FrameKept
<1>4. \A g \in Loops : g # f => ((cur[g] = j /\ Failing(g))' <=> cur[g] = j /\ Failing(g))
  BY FrameKept DEF SameFrame
<1>5. Doing(f, j, n)' /\ \A i : Doing(f, j, i)' => i = n
  BY DEF Doing
<1>6. <<j, n>> \notin completed
  <2>1. ran[j][n] # 1
    BY ZeroOne
  <2> QED BY <1>1, <2>1 DEF BegunInv
<1>7. \A g \in Loops : ~Doing(g, j, n)
  <2> SUFFICES ASSUME NEW g \in Loops, Doing(g, j, n) PROVE FALSE
    OBVIOUS
  <2>1. ran[j][n] = 1
    BY DEF WorkInv, DoingInv, Doing
  <2> QED BY <2>1, SMTT(30)
<1>8. BegunInv(j)'
  <2>1. \A i \in Iterations(j) : <<j, i>> \in completed' => ran'[j][i] = 1
    BY <1>1, <1>2 DEF BegunInv
  <2>2. ASSUME NEW i \in Iterations(j), ran'[j][i] = 1
        PROVE  \/ <<j, i>> \in completed'
               \/ \E g \in Loops : Doing(g, j, i)' \/ (cur[g] = j /\ Failing(g))'
               \/ exit_status'[j] # 0
    <3>1. CASE i = n
      BY <1>5, <3>1
    <3>2. CASE i # n
      <4>1. \/ <<j, i>> \in completed
            \/ \E g \in Loops : Doing(g, j, i) \/ (cur[g] = j /\ Failing(g))
            \/ exit_status[j] # 0
        BY <1>1, <1>2, <2>2, <3>2 DEF BegunInv
      <4> QED BY <1>3, <1>4, <4>1
    <3> QED BY <3>1, <3>2
  <2> QED BY <1>2, <2>1, <2>2 DEF BegunInv
<1>9. DoingInv(f)' /\ ~Failing(f)'
  <2>1. \A g \in Loops : Doing(g, j, n)' => g = f
    BY <1>3, <1>7
  <2>2. ran'[j][n] = 1 /\ <<j, n>> \notin completed'
    BY <1>2, <1>6
  <2> QED BY <2>1, <2>2 DEF DoingInv, Failing
<1>10. ASSUME NEW g \in Loops, g # f, cur[g] = j PROVE DoingInv(g)'
  <2>1. SameFrame(g) /\ cur'[g] = j /\ Iteration(g)' = Iteration(g)
    BY <1>10 DEF SameFrame
  <2>2. pc'[g] \in InTask \cup {"claim"} => run'[g].result = 0
    BY <2>1 DEF SameFrame, WorkInv, DoingInv
  <2>3. ASSUME pc'[g] \in InTask
        PROVE  /\ ran'[j][Iteration(g)] = 1
               /\ <<j, Iteration(g)>> \notin completed'
               /\ \A h \in Loops : Doing(h, j, Iteration(g))' => h = g
    <3>1. pc[g] \in InTask
      BY <2>1, <2>3 DEF SameFrame
    <3>d. DoingInv(g)
      BY DEF WorkInv
    <3>2. /\ ran[j][Iteration(g)] = 1 /\ <<j, Iteration(g)>> \notin completed
          /\ \A h \in Loops : Doing(h, j, Iteration(g)) => h = g
      BY <1>10, <3>1, <3>d DEF DoingInv
    <3>3. Iteration(g) \in Iterations(j)
      BY <1>10, <3>1, AtIteration, TaskAssumption DEF Iterations, IInv
    <3>4. Iteration(g) # n
      BY <3>2, SMTT(30)
    <3>5. ran'[j][Iteration(g)] = 1
      BY <1>2, <3>2, <3>3, <3>4
    <3>6. \A h \in Loops : Doing(h, j, Iteration(g))' => h = g
      <4> SUFFICES ASSUME NEW h \in Loops, Doing(h, j, Iteration(g))' PROVE h = g
        OBVIOUS
      <4>1. h # f
        BY <2>1, <3>4 DEF Doing
      <4>2. Doing(h, j, Iteration(g))
        BY <2>1, <4>1 DEF Doing, SameFrame
      <4> QED BY <3>2, <4>2
    <3> QED BY <3>2, <3>3, <3>5, <3>6
  <2> QED BY <2>1, <2>2, <2>3 DEF DoingInv
<1>11. Lost(j) => Lost(j)'
  <2> SUFFICES ASSUME NEW i \in Iterations(j), ran[j][i] = 1, <<j, i>> \notin completed,
                      \A g \in Loops : ~Doing(g, j, i)
               PROVE  Lost(j)'
    BY DEF Lost
  <2>1. i # n
    BY ZeroOne
  <2>2. ran'[j][i] = 1 /\ <<j, i>> \notin completed' /\ \A g \in Loops : ~Doing(g, j, i)'
    BY <1>2, <1>3, <1>5, <2>1
  <2> QED BY <2>2 DEF Lost
<1> QED BY <1>2, <1>8, <1>9, <1>10, <1>11

\* A frame takes an iteration of a job that is not serial.
LEMMA WorkStartParallel ==
  ASSUME IInv, WorkInv, NEW f \in Loops, StartParallel(f)
  PROVE  WorkInv'
<1>0. ~StartSerial(f)
  BY DEF StartSerial, StartParallel
<1>1. PICK j \in Jobs :
           /\ j = jobs[cursor[f]] /\ Live(j) /\ extent[j] > 0 /\ cur[f] = NULL
           /\ (Serial(j) => active_workers[j] = 0)
           /\ NoCallBegins /\ JoinsKept /\ \A g \in Loops : g # f => SameFrame(g)
           /\ cur'[f] = j /\ Iteration(f)' = min[j] /\ run'[f].result = 0 /\ run'[f].done = 0
           /\ pc'[f] = (IF StartSerial(f) THEN "claim" ELSE "body")
           /\ active_workers' = [active_workers EXCEPT ![j] = @ + 1]
           /\ UNCHANGED exit_status
  BY StartFrame
<1>2. /\ ~Serial(j) /\ UNCHANGED completed
      /\ min' = [min EXCEPT ![j] = @ + 1] /\ extent' = [extent EXCEPT ![j] = @ - 1]
      /\ ran' = [ran EXCEPT ![j][min[j]] = @ + 1]
  BY <1>1 DEF StartParallel
<1>3. pc'[f] = "body" /\ pc'[f] \in InTask
  BY <1>0, <1>1 DEF InTask
<1>t. /\ active_workers \in [Jobs -> Nat] /\ min \in [Jobs -> Nat] /\ extent \in [Jobs -> Nat]
      /\ NULL \notin Jobs /\ Task[j].extent \in Nat
  BY FrameAssumption, TaskAssumption DEF IInv, TypeOK, JobsOK
<1>4. /\ min'[j] = min[j] + 1 /\ extent'[j] = extent[j] - 1
      /\ \A k \in Jobs : k # j => /\ active_workers'[k] = active_workers[k]
                                  /\ min'[k] = min[k] /\ extent'[k] = extent[k]
  BY <1>1, <1>2, <1>t
<1>5. min[j] \in Iterations(j)
  <2>1. min[j] + extent[j] <= Task[j].extent
    BY DEF IInv, RangeInv
  <2> QED BY <1>1, <1>t, <2>1, SMTT(30) DEF Iterations
<1>6. OrderInv(j) /\ ran[j] \in [Iterations(j) -> {0, 1}] /\ DOMAIN ran = Jobs
  BY DEF WorkInv, BegunInv
<1>7. ran[j][min[j]] = 0
  <2>1. ran[j][min[j]] = 1 <=> min[j] < min[j]
    BY <1>2, <1>5, <1>6 DEF OrderInv
  <2> QED BY <1>5, <1>6, <1>t, <2>1, SMTT(30)
<1>8. ran'[j] = [ran[j] EXCEPT ![min[j]] = 1] /\ DOMAIN ran' = DOMAIN ran /\ \A k \in Jobs : k # j => ran'[k] = ran[k]
  BY <1>2, <1>7, <1>6, SMTT(30)
<1>9. \A k \in Jobs : k # j => SameJob(k)
  BY <1>1, <1>2, <1>4, <1>8 DEF SameJob, SameWork
<1>10. OnlyAt(f, j)
  BY <1>1, <1>2, <1>8, <1>9 DEF OnlyAt
<1>11. PICK n \in Iterations(j) : n = min[j]
  BY <1>5
<1>12. (\A i : ~Doing(f, j, i)) /\ ~(cur[f] = j /\ Failing(f))
  BY <1>1, <1>t DEF Doing
<1>13. /\ BegunInv(j)' /\ DoingInv(f)' /\ ~Failing(f)' /\ (Lost(j) => Lost(j)')
       /\ \A g \in Loops : g # f /\ cur[g] = j => DoingInv(g)'
       /\ \A i \in Iterations(j) : ran'[j][i] = IF i = n THEN 1 ELSE ran[j][i]
  <2>1. ran[j][n] = 0 /\ ran'[j] = [ran[j] EXCEPT ![n] = 1] /\ Iteration(f)' = n
    BY <1>1, <1>7, <1>8, <1>11
  <2>2. Begins(f, j, n)
    BY <1>1, <1>2, <1>3, <1>12, <2>1 DEF Begins
  <2> QED BY <2>2, BeginIteration
<1>14. SerialInv(f)' /\ \A g \in Loops : g # f /\ cur[g] = j => SerialInv(g)'
  BY <1>1, <1>2 DEF SerialInv, SameFrame
<1>15. OrderInv(j)'
  <2>1. \A i \in Iterations(j) : ran'[j][i] = 1 <=> i < min'[j]
    <3>1. \A i \in Iterations(j) : ran[j][i] = 1 <=> i < min[j]
      BY <1>2, <1>6 DEF OrderInv
    <3>2. \A i \in Iterations(j) : i \in Int
      BY SMTT(30) DEF Iterations
    <3>3. \A i \in Iterations(j) : i < min'[j] <=> i = n \/ i < min[j]
      BY <1>4, <1>11, <1>t, <3>2, SMTT(30)
    <3>4. \A i \in Iterations(j) : ran'[j][i] = IF i = n THEN 1 ELSE ran[j][i]
      BY <1>13
    <3> QED BY <3>1, <3>3, <3>4, SMTT(30)
  <2>2. Live(j) /\ exit_status'[j] = exit_status[j]
    BY <1>1
  <2>3. exit_status[j] = 0 => min[j] + extent[j] = Task[j].extent
    BY <1>6, <2>2 DEF OrderInv
  <2>4. min'[j] + extent'[j] = min[j] + extent[j]
    BY <1>4, <1>t, SMTT(30)
  <2> QED BY <1>2, <2>1, <2>2, <2>3, <2>4 DEF OrderInv
<1> QED BY <1>10, <1>13, <1>14, <1>15, WorkAt

\* A frame that works on a job, and what the invariant says of both.
LEMMA AtWork ==
  ASSUME IInv, WorkInv, NEW f \in Loops, pc[f] \in Busy
  PROVE  /\ f \in Frames /\ cur[f] \in Jobs /\ run[f] \in RunType /\ Iteration(f) \in Nat
         /\ run[f].min \in Nat /\ run[f].total \in Nat /\ run[f].iters \in Nat /\ run[f].done \in Nat
         /\ min[cur[f]] \in Nat /\ extent[cur[f]] \in Nat /\ Task[cur[f]].extent \in Nat
         /\ Loops \subseteq Frames /\ cur \in [Frames -> Jobs \cup {NULL}]
         /\ run \in [Frames -> RunType] /\ pc \in [Frames -> PC]
         /\ DoingInv(f) /\ SerialInv(f) /\ InRange(f)
<1>1. /\ Loops \subseteq Frames /\ cur \in [Frames -> Jobs \cup {NULL}]
      /\ run \in [Frames -> RunType] /\ pc \in [Frames -> PC]
  BY DEF IInv, TypeOK, FramesOK, Frames
<1>2. cur[f] \in Jobs
  BY <1>1 DEF IInv, ControlInv
<1>3. DoingInv(f) /\ SerialInv(f) /\ InRange(f)
  BY DEF WorkInv, IInv, RangeInv
<1>4. run[f] \in RunType
  BY <1>1
<1>5. run[f].min \in Nat /\ run[f].total \in Nat /\ run[f].iters \in Nat /\ run[f].done \in Nat
  BY <1>4 DEF RunType
<1>6. Iteration(f) \in Nat
  BY <1>5, SMTT(30) DEF Iteration
<1>7. min[cur[f]] \in Nat /\ extent[cur[f]] \in Nat
  BY <1>2 DEF IInv, TypeOK, JobsOK
<1>8. Task[cur[f]].extent \in Nat
  BY <1>2, TaskAssumption
<1> QED BY <1>1, <1>2, <1>3, <1>4, <1>5, <1>6, <1>7, <1>8

\* A step of frame f within its work on job j that changes nothing about the job but
\* its iterations.
LEMMA AtJob ==
  ASSUME IInv, WorkInv, NEW f \in Loops, NEW j \in Jobs, cur[f] = j, pc[f] # "idle",
         \A g \in Loops : g # f => cur'[g] = cur[g] /\ run'[g] = run[g] /\ pc'[g] = pc[g],
         cur'[f] = j, UNCHANGED <<min, extent, exit_status, active_workers, idx, status>>,
         \A k \in Jobs : k # j => ran'[k] = ran[k], DOMAIN ran' = DOMAIN ran,
         completed \subseteq completed', \A e \in completed' : e \in completed \/ e[1] = j
  PROVE  OnlyAt(f, j)
<1>1. NoCallBegins /\ \A g \in Loops : g # f => SameFrame(g)
  BY OthersSame
<1>2. \A k \in Jobs : k # j => SameJob(k)
  <2> SUFFICES ASSUME NEW k \in Jobs, k # j PROVE SameJob(k)
    OBVIOUS
  <2>1. \A i : <<k, i>> \in completed' <=> <<k, i>> \in completed
    OBVIOUS
  <2> QED BY <2>1 DEF SameJob, SameWork
<1>3. JoinsKept
  BY DEF JoinsKept
<1> QED BY <1>1, <1>2, <1>3 DEF OnlyAt

\* The worker of a serial job is alone with it.
LEMMA AloneAtWork ==
  ASSUME Counting, IInv, NEW f \in Loops, NEW j \in Jobs, cur[f] = j, Serial(j)
  PROVE  active_workers[j] = 1 /\ \A g \in Loops : cur[g] = j => g = f
<1>1. active_workers[j] = 1
  BY SerialWorker
<1>2. \A g \in Loops : cur[g] = j => g = f
  BY FrameAssumption DEF IInv, RangeInv
<1> QED BY <1>1, <1>2

\* A frame begins the iterations that it has claimed, or stops.
LEMMA WorkClaimDone ==
  ASSUME Counting, IInv, WorkInv, NEW f \in Loops, ClaimDone(f)
  PROVE  WorkInv'
<1>1. pc[f] = "claim" /\ pc[f] \in Busy
      /\ UNCHANGED <<min, extent, exit_status, active_workers, idx, status, cur, run, completed>>
  BY DEF ClaimDone, Busy, jobVars, frameVars
<1>w. /\ f \in Frames /\ cur[f] \in Jobs /\ run[f] \in RunType /\ Iteration(f) \in Nat
      /\ run[f].min \in Nat /\ run[f].total \in Nat /\ run[f].iters \in Nat
      /\ min[cur[f]] \in Nat /\ extent[cur[f]] \in Nat /\ Task[cur[f]].extent \in Nat
      /\ Loops \subseteq Frames /\ cur \in [Frames -> Jobs \cup {NULL}]
      /\ run \in [Frames -> RunType] /\ pc \in [Frames -> PC]
      /\ DoingInv(f) /\ SerialInv(f) /\ InRange(f)
  BY <1>1, AtWork
<1>2. PICK j \in Jobs : j = cur[f]
  BY <1>w
<1>3. Serial(j) /\ run[f].done = 0 /\ run[f].result = 0 /\ Iteration(f) = run[f].min + run[f].total
  <2>1. Serial(j) /\ run[f].done = 0 /\ run[f].result = 0
    BY <1>1, <1>2, <1>w DEF InRange, DoingInv
  <2> QED BY <1>w, <2>1, SMTT(30) DEF Iteration
<1>4. active_workers[j] = 1 /\ \A g \in Loops : cur[g] = j => g = f
  BY <1>2, <1>3, AloneAtWork
<1>5. /\ \A i \in Iterations(j) : i < Iteration(f) => <<j, i>> \in completed
      /\ \A i \in Iterations(j) : i > Iteration(f) \/ i = Iteration(f) => ran[j][i] = 0
  <2>1. cur[f] # NULL /\ ~Failing(f) /\ pc[f] \notin InTask
    BY <1>1, <1>w, FrameAssumption DEF Failing, InTask
  <2>2. SerialInv(f)
    BY <1>w
  <2> QED BY <1>2, <1>3, <2>1, <2>2 DEF SerialInv
<1>6. OrderInv(j) /\ BegunInv(j) /\ DOMAIN ran = Jobs
  BY DEF WorkInv
<1>7. CASE run[f].iters = 0
  <2>1. pc' = [pc EXCEPT ![f] = "relock"] /\ UNCHANGED ran
    BY <1>7 DEF ClaimDone
  <2>2. pc'[f] = "relock" /\ \A g \in Loops : g # f => pc'[g] = pc[g]
    BY <1>w, <2>1
  <2>3. OnlyAt(f, j)
    BY <1>1, <1>2, <2>1, <2>2, AtJob
  <2>4. /\ \A g \in Loops : \A i : ~Doing(g, j, i) /\ ~Doing(g, j, i)'
        /\ \A g \in Loops : ~(cur[g] = j /\ Failing(g))
        /\ ~Failing(f)'
    BY <1>1, <1>2, <1>3, <1>4, <2>2 DEF Doing, Failing, InTask
  <2>5. BegunInv(j)'
    BY <1>1, <1>6, <2>1, <2>4 DEF BegunInv
  <2>6. OrderInv(j)'
    <3>1. Live(j)' => Live(j)
      BY <2>3, CallAssumption DEF OnlyAt, NoCallBegins, Live
    <3> QED BY <1>1, <1>4, <1>6, <2>1, <3>1 DEF OrderInv
  <2>7. DoingInv(f)'
    BY <2>2 DEF DoingInv, InTask
  <2>8. SerialInv(f)'
    BY <1>1, <1>2, <1>3, <1>5, <2>1 DEF SerialInv, Iteration
  <2>9. Lost(j) => Lost(j)'
    BY <1>1, <2>1, <2>4 DEF Lost
  <2> QED BY <1>4, <2>3, <2>4, <2>5, <2>6, <2>7, <2>8, <2>9, WorkAt
<1>8. CASE run[f].iters # 0
  <2>1. /\ pc' = [pc EXCEPT ![f] = "body"]
        /\ ran' = [ran EXCEPT ![j][run[f].min + run[f].total] = @ + 1]
    BY <1>2, <1>8 DEF ClaimDone
  <2>2. pc'[f] = "body" /\ pc'[f] \in InTask /\ \A g \in Loops : g # f => pc'[g] = pc[g]
    BY <1>w, <2>1 DEF InTask
  <2>3. Iteration(f) \in Iterations(j)
    <3>1. run[f].min = min[j] /\ run[f].total + run[f].iters <= extent[j]
      BY <1>1, <1>2, <1>3, <1>w DEF InRange
    <3>2. min[j] + extent[j] <= Task[j].extent
      BY DEF IInv, RangeInv
    <3> QED BY <1>2, <1>3, <1>8, <1>w, <3>1, <3>2, SMTT(30) DEF Iterations
  <2>4. PICK n \in Iterations(j) : n = Iteration(f)
    BY <2>3
  <2>5. ran[j][n] = 0
    BY <1>5, <2>4
  <2>6. ran'[j] = [ran[j] EXCEPT ![n] = 1] /\ DOMAIN ran' = DOMAIN ran
        /\ \A k \in Jobs : k # j => ran'[k] = ran[k]
    BY <1>3, <1>6, <2>1, <2>4, <2>5, SMTT(30)
  <2>7. OnlyAt(f, j)
    <3>1. \A g \in Loops : g # f => cur'[g] = cur[g] /\ run'[g] = run[g] /\ pc'[g] = pc[g]
      BY <1>1, <2>2
    <3> QED BY <1>1, <1>2, <2>6, <3>1, AtJob
  <2>8. (\A i : ~Doing(f, j, i)) /\ ~(cur[f] = j /\ Failing(f))
    BY <1>1 DEF Doing, Failing, InTask
  <2>9. cur'[f] = j /\ Iteration(f)' = n /\ run'[f].result = 0
    BY <1>1, <1>2, <1>3, <2>4 DEF Iteration
  <2>10. /\ BegunInv(j)' /\ DoingInv(f)' /\ ~Failing(f)' /\ (Lost(j) => Lost(j)')
         /\ \A i \in Iterations(j) : ran'[j][i] = IF i = n THEN 1 ELSE ran[j][i]
    <3>1. \A g \in Loops : g # f => SameFrame(g)
      BY <2>7 DEF OnlyAt
    <3>2. UNCHANGED exit_status
          /\ \A i \in Iterations(j) : <<j, i>> \in completed' <=> <<j, i>> \in completed
      BY <1>1
    <3>3. ran'[j] = [ran[j] EXCEPT ![n] = 1] /\ pc'[f] \in InTask
      BY <2>2, <2>6
    <3>4. Begins(f, j, n)
      BY <2>5, <2>8, <2>9, <3>1, <3>2, <3>3 DEF Begins
    <3> QED BY <3>4, BeginIteration
  <2>11. OrderInv(j)'
    <3>1. Live(j)' => Live(j)
      BY <2>7, CallAssumption DEF OnlyAt, NoCallBegins, Live
    <3>2. \A i \in Iterations(j) : i > 0 /\ ran'[j][i] = 1 => <<j, i - 1>> \in completed'
      <4> SUFFICES ASSUME NEW i \in Iterations(j), i > 0, ran'[j][i] = 1
                   PROVE  <<j, i - 1>> \in completed
        BY <1>1
      <4>1. CASE i = n
        <5>1. i - 1 \in Iterations(j) /\ i - 1 < Iteration(f)
          BY <1>2, <1>w, <2>4, <4>1, SMTT(30) DEF Iterations
        <5> QED BY <1>5, <5>1
      <4>2. CASE i # n
        <5>1. ran[j][i] = 1
          BY <2>10, <4>2
        <5> QED BY <1>3, <1>6, <5>1 DEF OrderInv
      <4> QED BY <4>1, <4>2
    <3>3. active_workers'[j] # 0
      BY <1>1, <1>4, SMTT(30)
    <3> QED BY <1>1, <1>3, <1>6, <3>1, <3>2, <3>3 DEF OrderInv
  <2>12. SerialInv(f)'
    <3> SUFFICES ASSUME NEW i \in Iterations(j)
                 PROVE  /\ i < n => <<j, i>> \in completed'
                        /\ i > n => ran'[j][i] = 0
      BY <2>2, <2>9 DEF SerialInv
    <3>1. i < n => <<j, i>> \in completed'
      BY <1>1, <1>5, <2>4
    <3>2. ASSUME i > n PROVE ran'[j][i] = 0
      <4>1. i # n
        BY <1>w, <2>4, <3>2, SMTT(30)
      <4> QED BY <1>5, <2>4, <2>10, <3>2, <4>1
    <3> QED BY <3>1, <3>2
  <2> QED BY <1>4, <2>7, <2>10, <2>11, <2>12, WorkAt
<1> QED BY <1>7, <1>8

\* Frame f completes iteration n of job j and nothing else changes about the iterations
\* of the job.
Ends(f, j, n) ==
  /\ Doing(f, j, n) /\ completed' = completed \cup {<<j, n>>} /\ UNCHANGED <<ran, exit_status>>
  /\ \A g \in Loops : g # f => SameFrame(g)
  /\ cur'[f] = j /\ pc'[f] \in {"claim", "relock"} /\ run'[f].result = 0

\* What holds of the iterations of j still does.
LEMMA EndIteration ==
  ASSUME IInv, WorkInv, NEW f \in Loops, NEW j \in Jobs, NEW n \in Iterations(j), Ends(f, j, n)
  PROVE  /\ BegunInv(j)' /\ DoingInv(f)' /\ ~Failing(f)' /\ (Lost(j) => Lost(j)')
         /\ \A g \in Loops : g # f /\ cur[g] = j => DoingInv(g)'
<1> USE DEF Ends
<1>1. BegunInv(j) /\ DoingInv(f)
  BY DEF WorkInv
<1>2. ran[j][n] = 1 /\ \A g \in Loops : Doing(g, j, n) => g = f
  BY <1>1 DEF DoingInv, Doing
<1>3. \A g \in Loops : \A k, i : g # f => (Doing(g, k, i)' <=> Doing(g, k, i))
  BY FrameKept
<1>4. \A g \in Loops : g # f => ((cur[g] = j /\ Failing(g))' <=> cur[g] = j /\ Failing(g))
  BY FrameKept DEF SameFrame
<1>5. /\ \A i : ~Doing(f, j, i)' /\ (Doing(f, j, i) => i = n)
      /\ ~Failing(f) /\ ~Failing(f)'
  BY DEF Doing, Failing, InTask
<1>6. \A i : i # n => (<<j, i>> \in completed' <=> <<j, i>> \in completed)
  OBVIOUS
<1>7. <<j, n>> \in completed'
  OBVIOUS
<1>8. BegunInv(j)'
  <2>1. ran'[j] \in [Iterations(j) -> {0, 1}]
    BY <1>1 DEF BegunInv
  <2>2. \A i \in Iterations(j) : <<j, i>> \in completed' => ran'[j][i] = 1
    BY <1>1, <1>2, <1>6 DEF BegunInv
  <2>3. ASSUME NEW i \in Iterations(j), ran'[j][i] = 1
        PROVE  \/ <<j, i>> \in completed'
               \/ \E g \in Loops : Doing(g, j, i)' \/ (cur[g] = j /\ Failing(g))'
               \/ exit_status'[j] # 0
    <3>1. CASE i = n
      BY <1>7, <3>1
    <3>2. CASE i # n
      <4>1. \/ <<j, i>> \in completed
            \/ \E g \in Loops : Doing(g, j, i) \/ (cur[g] = j /\ Failing(g))
            \/ exit_status[j] # 0
        BY <1>1, <2>3 DEF BegunInv
      <4> QED BY <1>3, <1>4, <1>5, <1>6, <3>2, <4>1
    <3> QED BY <3>1, <3>2
  <2> QED BY <2>1, <2>2, <2>3 DEF BegunInv
<1>9. DoingInv(f)'
  BY DEF DoingInv, InTask
<1>10. ASSUME NEW g \in Loops, g # f, cur[g] = j PROVE DoingInv(g)'
  <2>1. SameFrame(g) /\ cur'[g] = j /\ Iteration(g)' = Iteration(g)
    BY <1>10 DEF SameFrame
  <2>d. DoingInv(g)
    BY DEF WorkInv
  <2>2. pc'[g] \in InTask \cup {"claim"} => run'[g].result = 0
    BY <2>1, <2>d DEF SameFrame, DoingInv
  <2>3. ASSUME pc'[g] \in InTask
        PROVE  /\ ran'[j][Iteration(g)] = 1
               /\ <<j, Iteration(g)>> \notin completed'
               /\ \A h \in Loops : Doing(h, j, Iteration(g))' => h = g
    <3>1. pc[g] \in InTask
      BY <2>1, <2>3 DEF SameFrame
    <3>2. /\ ran[j][Iteration(g)] = 1 /\ <<j, Iteration(g)>> \notin completed
          /\ \A h \in Loops : Doing(h, j, Iteration(g)) => h = g
      BY <1>10, <2>d, <3>1 DEF DoingInv
    <3>3. Iteration(g) # n
      BY <1>2, <1>10, <3>1 DEF Doing
    <3>4. <<j, Iteration(g)>> \notin completed'
      BY <1>6, <3>2, <3>3
    <3>6. \A h \in Loops : Doing(h, j, Iteration(g))' => h = g
      <4> SUFFICES ASSUME NEW h \in Loops, Doing(h, j, Iteration(g))' PROVE h = g
        OBVIOUS
      <4>1. h # f
        BY <1>5 DEF Doing
      <4>2. Doing(h, j, Iteration(g))
        BY <2>1, <4>1 DEF Doing, SameFrame
      <4> QED BY <3>2, <4>2
    <3> QED BY <3>2, <3>4, <3>6
  <2> QED BY <2>1, <2>2, <2>3 DEF DoingInv
<1>11. Lost(j) => Lost(j)'
  <2> SUFFICES ASSUME NEW i \in Iterations(j), ran[j][i] = 1, <<j, i>> \notin completed,
                      \A g \in Loops : ~Doing(g, j, i)
               PROVE  Lost(j)'
    BY DEF Lost
  <2>1. i # n
    BY ZeroOne
  <2>2. ran'[j][i] = 1 /\ <<j, i>> \notin completed' /\ \A g \in Loops : ~Doing(g, j, i)'
    BY <1>3, <1>5, <1>6, <2>1
  <2> QED BY <2>2 DEF Lost
<1> QED BY <1>5, <1>8, <1>9, <1>10, <1>11

\* The task function returns 0.
LEMMA WorkReturns ==
  ASSUME Counting, IInv, WorkInv, NEW f \in Loops, TaskReturns(f)
  PROVE  WorkInv'
<1>1. /\ pc[f] = "body" /\ pc[f] \in Busy /\ pc[f] \in InTask
      /\ run[f].done + 1 = run[f].iters
      /\ completed' = completed \cup {<<cur[f], Iteration(f)>>}
      /\ UNCHANGED <<min, extent, exit_status, active_workers, idx, status, cur, ran>>
  BY DEF TaskReturns, AtEnd, Busy, InTask, jobVars
<1>w. /\ f \in Frames /\ run[f] \in RunType /\ Iteration(f) \in Nat
      /\ run[f].min \in Nat /\ run[f].total \in Nat /\ run[f].iters \in Nat /\ run[f].done \in Nat
      /\ Loops \subseteq Frames
      /\ run \in [Frames -> RunType] /\ pc \in [Frames -> PC]
      /\ DoingInv(f) /\ SerialInv(f) /\ InRange(f)
  BY <1>1, AtWork
<1>2. cur[f] \in Jobs /\ Iteration(f) \in Iterations(cur[f])
  BY <1>1, AtIteration, TaskAssumption DEF Iterations, IInv
<1>3. PICK j \in Jobs : j = cur[f]
  BY <1>2
<1>4. PICK n \in Iterations(j) : n = Iteration(f)
  BY <1>2, <1>3
<1>5. /\ pc'[f] = (IF Serial(j) THEN "claim" ELSE "relock")
      /\ run'[f] = (IF Serial(j) THEN SliceDone(run[f]) ELSE run[f])
      /\ \A g \in Loops : g # f => run'[g] = run[g] /\ pc'[g] = pc[g]
  <2>1. CASE Serial(j)
    <3>1. run' = [run EXCEPT ![f] = SliceDone(@)] /\ pc' = [pc EXCEPT ![f] = "claim"]
      BY <1>3, <2>1 DEF TaskReturns
    <3> QED BY <1>w, <2>1, <3>1
  <2>2. CASE ~Serial(j)
    <3>1. UNCHANGED run /\ pc' = [pc EXCEPT ![f] = "relock"]
      BY <1>3, <2>2 DEF TaskReturns
    <3> QED BY <1>w, <2>2, <3>1
  <2> QED BY <2>1, <2>2
<1>6. OnlyAt(f, j)
  <2>1. \A g \in Loops : g # f => cur'[g] = cur[g] /\ run'[g] = run[g] /\ pc'[g] = pc[g]
    BY <1>1, <1>5
  <2>2. completed \subseteq completed' /\ \A e \in completed' : e \in completed \/ e[1] = j
    BY <1>1, <1>3, SMTT(30)
  <2> QED BY <1>1, <1>3, <2>1, <2>2, AtJob
<1>7. run[f].result = 0 /\ run'[f].result = 0
  <2>1. run[f].result = 0
    BY <1>1, <1>w DEF DoingInv
  <2>2. SliceDone(run[f]).result = run[f].result
    BY <1>w DEF SliceDone, RunType
  <2> QED BY <1>5, <2>1, <2>2
<1>8. Ends(f, j, n)
  <2>1. Doing(f, j, n) /\ completed' = completed \cup {<<j, n>>} /\ cur'[f] = j
    BY <1>1, <1>3, <1>4 DEF Doing
  <2>2. pc'[f] \in {"claim", "relock"}
    BY <1>5
  <2> QED BY <1>1, <1>6, <1>7, <2>1, <2>2 DEF Ends, OnlyAt
<1>9. /\ BegunInv(j)' /\ DoingInv(f)' /\ ~Failing(f)' /\ (Lost(j) => Lost(j)')
      /\ \A g \in Loops : g # f /\ cur[g] = j => DoingInv(g)'
  BY <1>8, EndIteration
<1>10. OrderInv(j)'
  <2>1. OrderInv(j)
    BY DEF WorkInv
  <2>2. Live(j)' => Live(j)
    BY <1>6, CallAssumption DEF OnlyAt, NoCallBegins, Live
  <2>3. Serial(j) => active_workers'[j] # 0
    BY <1>1, <1>3, AloneAtWork, SMTT(30)
  <2>4. completed \subseteq completed'
    BY <1>6 DEF OnlyAt
  <2>5. Serial(j) => \A i \in Iterations(j) : i > 0 /\ ran'[j][i] = 1 => <<j, i - 1>> \in completed'
    BY <1>1, <2>1, <2>4 DEF OrderInv
  <2> QED BY <1>1, <2>1, <2>2, <2>3, <2>5 DEF OrderInv
<1>11. SerialInv(f)' /\ \A g \in Loops : g # f /\ cur[g] = j => SerialInv(g)'
  <2>1. CASE ~Serial(j)
    BY <1>1, <1>3, <2>1 DEF SerialInv
  <2>2. CASE Serial(j)
    <3>1. \A g \in Loops : cur[g] = j => g = f
      BY <1>3, <2>2, AloneAtWork
    <3>2. Iteration(f)' = n + 1
      <4>1. run'[f] = SliceDone(run[f])
        BY <1>5, <2>2
      <4>2. run'[f].min = run[f].min /\ run'[f].total = run[f].total + run[f].iters /\ run'[f].done = 0
        BY <1>w, <4>1, RunFields
      <4> QED BY <1>1, <1>4, <1>w, <4>2, SMTT(30) DEF Iteration
    <3>3. \A i \in Iterations(j) : /\ i < n => <<j, i>> \in completed
                                   /\ i > n => ran[j][i] = 0
      <4>1. cur[f] # NULL /\ ~Failing(f)
        BY <1>1, <1>2, FrameAssumption DEF Failing
      <4> QED BY <1>3, <1>4, <1>w, <2>2, <4>1 DEF SerialInv
    <3>4. \A i \in Iterations(j) : /\ i < n + 1 => i < n \/ i = n
                                   /\ i > n + 1 \/ i = n + 1 => i > n
      BY SMTT(30) DEF Iterations
    <3>5. \A i \in Iterations(j) : i < n + 1 => <<j, i>> \in completed'
      BY <1>8, <3>3, <3>4 DEF Ends
    <3>6. \A i \in Iterations(j) : i > n + 1 \/ i = n + 1 => ran'[j][i] = 0
      BY <1>1, <3>3, <3>4
    <3>7. pc'[f] # "relock" /\ cur'[f] = j
      BY <1>1, <1>3, <1>5, <2>2
    <3> QED BY <3>1, <3>2, <3>5, <3>6, <3>7 DEF SerialInv
  <2> QED BY <2>1, <2>2
<1> QED BY <1>6, <1>9, <1>10, <1>11, WorkAt

\* The worker of a serial job goes on to the next iteration of its slice.
LEMMA WorkNextIteration ==
  ASSUME Counting, IInv, WorkInv, NEW f \in Loops, NextIteration(f)
  PROVE  WorkInv'
<1>1. /\ pc[f] = "body" /\ pc[f] \in Busy /\ pc[f] \in InTask
      /\ run[f].done + 1 < run[f].iters
      /\ completed' = completed \cup {<<cur[f], Iteration(f)>>}
      /\ ran' = [ran EXCEPT ![cur[f]][Iteration(f) + 1] = @ + 1]
      /\ run' = [run EXCEPT ![f] = IterationDone(@)]
      /\ UNCHANGED <<min, extent, exit_status, active_workers, idx, status, cur, pc>>
  BY DEF NextIteration, AtEnd, Busy, InTask, jobVars
<1>w. /\ f \in Frames /\ run[f] \in RunType /\ Iteration(f) \in Nat
      /\ run[f].min \in Nat /\ run[f].total \in Nat /\ run[f].iters \in Nat /\ run[f].done \in Nat
      /\ Loops \subseteq Frames /\ min[cur[f]] \in Nat /\ extent[cur[f]] \in Nat
      /\ run \in [Frames -> RunType] /\ Task[cur[f]].extent \in Nat
      /\ DoingInv(f) /\ SerialInv(f) /\ InRange(f)
  BY <1>1, AtWork
<1>2. cur[f] \in Jobs /\ Iteration(f) \in Iterations(cur[f])
  BY <1>1, AtIteration, TaskAssumption DEF Iterations, IInv
<1>3. PICK j \in Jobs : j = cur[f]
  BY <1>2
<1>4. PICK n \in Iterations(j) : n = Iteration(f)
  BY <1>2, <1>3
<1>5. Serial(j)
  <2> SUFFICES ASSUME ~Serial(j) PROVE FALSE
    OBVIOUS
  <2>1. run[f].iters = 1
    BY <1>1, <1>3, <1>w DEF InRange
  <2> QED BY <1>1, <1>w, <2>1, SMTT(30)
<1>6. n + 1 \in Iterations(j) /\ n \in Nat
  <2>1. run[f].min = min[j] /\ run[f].total + run[f].iters <= extent[j]
    BY <1>1, <1>3, <1>5, <1>w DEF InRange
  <2>2. min[j] + extent[j] <= Task[j].extent
    BY DEF IInv, RangeInv
  <2> QED BY <1>1, <1>3, <1>4, <1>w, <2>1, <2>2, SMTT(30) DEF Iterations, Iteration
<1>7. active_workers[j] = 1 /\ \A g \in Loops : cur[g] = j => g = f
  BY <1>3, <1>5, AloneAtWork
<1>8. \A i \in Iterations(j) : /\ i < n => <<j, i>> \in completed
                               /\ i > n => ran[j][i] = 0
  <2>1. cur[f] # NULL /\ ~Failing(f)
    BY <1>1, <1>2, FrameAssumption DEF Failing
  <2> QED BY <1>3, <1>4, <1>5, <1>w, <2>1 DEF SerialInv
<1>9. BegunInv(j) /\ OrderInv(j) /\ ran[j] \in [Iterations(j) -> {0, 1}] /\ DOMAIN ran = Jobs
  BY DEF WorkInv, BegunInv
<1>10. ran[j][n + 1] = 0 /\ ran[j][n] = 1 /\ run[f].result = 0
  <2>1. ran[j][n] = 1 /\ run[f].result = 0
    BY <1>1, <1>3, <1>4, <1>w DEF DoingInv
  <2>2. n + 1 > n
    BY <1>6, SMTT(30)
  <2> QED BY <1>6, <1>8, <2>1, <2>2
<1>11. ran'[j] = [ran[j] EXCEPT ![n + 1] = 1] /\ DOMAIN ran' = DOMAIN ran
       /\ \A k \in Jobs : k # j => ran'[k] = ran[k]
  BY <1>1, <1>3, <1>4, <1>9, <1>10, SMTT(30)
<1>12. /\ ran'[j] \in [Iterations(j) -> {0, 1}]
       /\ \A i \in Iterations(j) : ran'[j][i] = IF i = n + 1 THEN 1 ELSE ran[j][i]
  BY <1>6, <1>9, <1>11
<1>13. completed' = completed \cup {<<j, n>>}
  BY <1>1, <1>3, <1>4
<1>14. \A i : <<j, i>> \in completed' <=> <<j, i>> \in completed \/ i = n
  BY <1>13
<1>15. run'[f] = IterationDone(run[f]) /\ \A g \in Loops : g # f => run'[g] = run[g]
  BY <1>1, <1>w
<1>16. Iteration(f)' = n + 1 /\ run'[f].result = 0
  <2>1. run'[f].min = run[f].min /\ run'[f].total = run[f].total /\ run'[f].done = run[f].done + 1
    BY <1>15, <1>w, RunFields
  <2>2. IterationDone(run[f]).result = run[f].result
    BY <1>w DEF IterationDone, RunType
  <2>3. run'[f].result = 0
    BY <1>10, <1>15, <2>2
  <2> QED BY <1>4, <1>w, <2>1, <2>3, SMTT(30) DEF Iteration
<1>17. OnlyAt(f, j)
  <2>1. \A g \in Loops : g # f => cur'[g] = cur[g] /\ run'[g] = run[g] /\ pc'[g] = pc[g]
    BY <1>1, <1>15
  <2>2. completed \subseteq completed' /\ \A e \in completed' : e \in completed \/ e[1] = j
    BY <1>13, SMTT(30)
  <2>3. cur[f] = j /\ pc[f] # "idle" /\ cur'[f] = j
        /\ UNCHANGED <<min, extent, exit_status, active_workers, idx, status>>
    BY <1>1, <1>3
  <2> QED BY <1>11, <2>1, <2>2, <2>3, AtJob
<1>18. /\ \A g \in Loops : \A i : Doing(g, j, i)' <=> g = f /\ i = n + 1
       /\ \A g \in Loops : \A i : Doing(g, j, i) <=> g = f /\ i = n
       /\ \A g \in Loops : ~(cur[g] = j /\ Failing(g))
       /\ ~Failing(f)'
  <2>1. cur[f] = j /\ cur' = cur /\ pc' = pc
    BY <1>1, <1>3
  <2>2. \A g \in Loops : \A i : Doing(g, j, i)' <=> g = f /\ i = n + 1
    BY <1>1, <1>7, <1>16, <2>1 DEF Doing
  <2>3. \A g \in Loops : \A i : Doing(g, j, i) <=> g = f /\ i = n
    BY <1>1, <1>4, <1>7, <2>1 DEF Doing
  <2>4. \A g \in Loops : ~(cur[g] = j /\ Failing(g))
    BY <1>1, <1>7 DEF Failing
  <2>5. ~Failing(f)'
    BY <1>1 DEF Failing
  <2> QED BY <2>2, <2>3, <2>4, <2>5
<1>19. BegunInv(j)'
  <2>1. \A i \in Iterations(j) : <<j, i>> \in completed' => ran'[j][i] = 1
    BY <1>9, <1>10, <1>12, <1>14 DEF BegunInv
  <2>2. ASSUME NEW i \in Iterations(j), ran'[j][i] = 1
        PROVE  \/ <<j, i>> \in completed'
               \/ \E g \in Loops : Doing(g, j, i)' \/ (cur[g] = j /\ Failing(g))'
               \/ exit_status'[j] # 0
    <3>1. CASE i = n + 1
      BY <1>18, <3>1
    <3>2. CASE i # n + 1
      <4>1. \/ <<j, i>> \in completed
            \/ \E g \in Loops : Doing(g, j, i) \/ (cur[g] = j /\ Failing(g))
            \/ exit_status[j] # 0
        BY <1>9, <1>12, <2>2, <3>2 DEF BegunInv
      <4> QED BY <1>1, <1>14, <1>18, <4>1
    <3> QED BY <3>1, <3>2
  <2> QED BY <1>12, <2>1, <2>2 DEF BegunInv
<1>20. OrderInv(j)'
  <2>1. Live(j)' => Live(j)
    BY <1>17, CallAssumption DEF OnlyAt, NoCallBegins, Live
  <2>2. \A i \in Iterations(j) : i > 0 /\ ran'[j][i] = 1 => <<j, i - 1>> \in completed'
    <3> SUFFICES ASSUME NEW i \in Iterations(j), i > 0, ran'[j][i] = 1
                 PROVE  <<j, i - 1>> \in completed'
      OBVIOUS
    <3>1. CASE i = n + 1
      <4>1. i - 1 = n
        BY <1>6, <3>1, SMTT(30)
      <4> QED BY <1>14, <4>1
    <3>2. CASE i # n + 1
      <4>1. ran[j][i] = 1
        BY <1>12, <3>2
      <4> QED BY <1>5, <1>9, <1>14, <4>1 DEF OrderInv
    <3> QED BY <3>1, <3>2
  <2>3. active_workers'[j] # 0
    BY <1>1, <1>7, SMTT(30)
  <2> QED BY <1>1, <1>5, <1>9, <2>1, <2>2, <2>3 DEF OrderInv
<1>21. DoingInv(f)'
  <2>1. ran'[j][n + 1] = 1
    BY <1>6, <1>12
  <2>2. <<j, n + 1>> \notin completed'
    <3>1. n + 1 # n /\ ran[j][n + 1] # 1
      BY <1>6, <1>10, SMTT(30)
    <3> QED BY <1>6, <1>9, <1>14, <3>1 DEF BegunInv
  <2>3. cur'[f] = j
    BY <1>1, <1>3
  <2> QED BY <1>16, <1>18, <2>1, <2>2, <2>3 DEF DoingInv
<1>22. SerialInv(f)'
  <2>1. cur'[f] = j /\ pc'[f] # "relock" /\ pc'[f] \in InTask
    BY <1>1, <1>3 DEF InTask
  <2>2. \A i \in Iterations(j) : /\ i < n + 1 => i < n \/ i = n
                                 /\ i > n + 1 => i > n /\ i # n + 1
    BY SMTT(30) DEF Iterations
  <2>3. \A i \in Iterations(j) : i < n + 1 => <<j, i>> \in completed'
    BY <1>8, <1>14, <2>2
  <2>4. \A i \in Iterations(j) : i > n + 1 => ran'[j][i] = 0
    BY <1>8, <1>12, <2>2
  <2> QED BY <1>16, <2>1, <2>3, <2>4 DEF SerialInv
<1>23. Lost(j) => Lost(j)'
  <2> SUFFICES ASSUME NEW i \in Iterations(j), ran[j][i] = 1, <<j, i>> \notin completed,
                      \A g \in Loops : ~Doing(g, j, i)
               PROVE  Lost(j)'
    BY DEF Lost
  <2>1. i # n /\ i # n + 1
    BY <1>10, <1>18, SMTT(30)
  <2>2. ran'[j][i] = 1 /\ <<j, i>> \notin completed' /\ \A g \in Loops : ~Doing(g, j, i)'
    BY <1>12, <1>14, <1>18, <2>1
  <2> QED BY <2>2 DEF Lost
<1> QED BY <1>7, <1>17, <1>18, <1>19, <1>20, <1>21, <1>22, <1>23, WorkAt

\* The task function returns an error: the iteration it was at is lost.
LEMMA WorkError ==
  ASSUME IInv, WorkInv, NEW f \in Loops, TaskError(f) \/ CallError(f)
  PROVE  WorkInv'
<1>1. /\ pc[f] \in {"body", "failed"} /\ pc[f] \in Busy /\ pc[f] \in InTask
      /\ run' = [run EXCEPT ![f] = SliceFailed(@)] /\ pc' = [pc EXCEPT ![f] = "relock"]
      /\ UNCHANGED <<min, extent, exit_status, active_workers, idx, status, cur, ran, completed>>
  BY DEF TaskError, CallError, ReturnError, Busy, InTask, jobVars, envVars
<1>w. /\ f \in Frames /\ run[f] \in RunType /\ Loops \subseteq Frames
      /\ run \in [Frames -> RunType] /\ pc \in [Frames -> PC] /\ DoingInv(f)
  BY <1>1, AtWork
<1>2. cur[f] \in Jobs /\ Iteration(f) \in Iterations(cur[f])
  BY <1>1, AtIteration, TaskAssumption DEF Iterations, IInv
<1>3. PICK j \in Jobs : j = cur[f]
  BY <1>2
<1>4. PICK n \in Iterations(j) : n = Iteration(f)
  BY <1>2, <1>3
<1>5. /\ pc'[f] = "relock" /\ run'[f] = SliceFailed(run[f]) /\ cur'[f] = j
      /\ \A g \in Loops : g # f => run'[g] = run[g] /\ pc'[g] = pc[g] /\ cur'[g] = cur[g]
  BY <1>1, <1>3, <1>w
<1>6. OnlyAt(f, j)
  <2>1. cur[f] = j /\ pc[f] # "idle"
        /\ UNCHANGED <<min, extent, exit_status, active_workers, idx, status, ran, completed>>
    BY <1>1, <1>3
  <2> QED BY <1>5, <2>1, AtJob
<1>7. Failing(f)'
  <2>1. run'[f].result # 0
    BY <1>5, <1>w, SMTT(30) DEF SliceFailed, RunType
  <2> QED BY <1>5, <2>1 DEF Failing
<1>8. ran[j][n] = 1 /\ <<j, n>> \notin completed /\ \A g \in Loops : Doing(g, j, n) => g = f
  BY <1>1, <1>3, <1>4, <1>w DEF DoingInv
<1>9. /\ \A g \in Loops : \A k, i : g # f => (Doing(g, k, i)' <=> Doing(g, k, i))
      /\ \A g \in Loops : g # f => ((cur[g] = j /\ Failing(g))' <=> cur[g] = j /\ Failing(g))
  BY <1>6, FrameKept DEF OnlyAt, SameFrame
<1>10. \A i : ~Doing(f, j, i)'
  BY <1>5 DEF Doing, InTask
<1>11. Lost(j)'
  BY <1>1, <1>8, <1>9, <1>10 DEF Lost
<1>12. BegunInv(j)'
  <2>1. BegunInv(j)
    BY DEF WorkInv
  <2>2. (cur[f] = j /\ Failing(f))'
    BY <1>5, <1>7
  <2> QED BY <1>1, <2>1, <2>2 DEF BegunInv
<1>13. OrderInv(j)'
  <2>1. OrderInv(j)
    BY DEF WorkInv
  <2>2. Live(j)' => Live(j)
    BY <1>6, CallAssumption DEF OnlyAt, NoCallBegins, Live
  <2> QED BY <1>1, <2>1, <2>2 DEF OrderInv
<1>14. DoingInv(f)' /\ SerialInv(f)'
  BY <1>5, <1>7 DEF DoingInv, SerialInv, InTask
<1>15. ASSUME NEW g \in Loops, g # f, cur[g] = j PROVE DoingInv(g)' /\ SerialInv(g)'
  <2>1. SameFrame(g) /\ cur'[g] = j /\ Iteration(g)' = Iteration(g)
    BY <1>6, <1>15 DEF OnlyAt, SameFrame
  <2>2. DoingInv(g) /\ SerialInv(g)
    BY DEF WorkInv
  <2>3. \A h \in Loops : \A i : Doing(h, j, i)' => Doing(h, j, i)
    BY <1>9, <1>10
  <2>4. DoingInv(g)'
    BY <1>1, <1>15, <2>1, <2>2, <2>3 DEF DoingInv, SameFrame
  <2>5. SerialInv(g)'
    BY <1>1, <1>15, <2>1, <2>2 DEF SerialInv, SameFrame, Failing
  <2> QED BY <2>4, <2>5
<1> QED BY <1>5, <1>6, <1>11, <1>12, <1>13, <1>14, <1>15, WorkAt

\* What FinishJob does to the frames and to the job.
LEMMA FinishFrame ==
  ASSUME IInv, WorkInv, NEW f \in Loops, FinishJob(f), NEW j \in Jobs, j = cur[f]
  PROVE  /\ NoCallBegins /\ JoinsKept /\ \A g \in Loops : g # f => SameFrame(g)
         /\ cur'[f] = NULL /\ pc'[f] = "head" /\ pc[f] = "relock"
         /\ UNCHANGED <<ran, completed>>
         /\ \A k \in Jobs : k # j => /\ min'[k] = min[k] /\ extent'[k] = extent[k]
                                     /\ active_workers'[k] = active_workers[k]
         /\ min'[j] = MinAfter(f) /\ extent'[j] = ExtentAfter(f)
         /\ \A k \in Jobs : IF Failing(f) /\ CallOf[k] = CallOf[j] THEN exit_status'[k] # 0
                            ELSE exit_status'[k] = exit_status[k]
<1>t. /\ f \in Frames /\ Loops \subseteq Frames /\ cur \in [Frames -> Jobs \cup {NULL}]
      /\ pc \in [Frames -> PC] /\ min \in [Jobs -> Nat] /\ extent \in [Jobs -> Nat]
      /\ active_workers \in [Jobs -> Nat]
  BY DEF IInv, TypeOK, FramesOK, JobsOK, Frames
<1>1. /\ pc[f] = "relock" /\ cur' = [cur EXCEPT ![f] = NULL]
      /\ extent' = [extent EXCEPT ![j] = ExtentAfter(f)] /\ min' = [min EXCEPT ![j] = MinAfter(f)]
      /\ active_workers' = [active_workers EXCEPT ![j] = ActiveAfter(f)]
      /\ exit_status' = [i \in Jobs |-> StatusAfter(f, i)]
      /\ UNCHANGED <<ran, completed, idx, status, run>>
  BY DEF FinishJob, envVars
<1>2. pc' \in {[pc EXCEPT ![f] = "head"], [Broadcast({"owner"}) EXCEPT ![f] = "head"]}
  <2>1. pc' = [(IF MustWakeOwner(f) THEN Broadcast({"owner"}) ELSE pc) EXCEPT ![f] = "head"]
    BY DEF FinishJob
  <2> QED BY <2>1
<1>3. /\ pc'[f] = "head"
      /\ \A g \in Frames : g # f => /\ pc[g] = "idle" => pc'[g] = "idle"
                                    /\ pc[g] \in InTask <=> pc'[g] \in InTask
                                    /\ pc[g] = "claim" <=> pc'[g] = "claim"
                                    /\ pc[g] = "relock" <=> pc'[g] = "relock"
  BY <1>2, <1>t, BroadcastPC, SMTT(30) DEF InTask
<1>4. NoCallBegins /\ JoinsKept
  BY <1>1, <1>3 DEF NoCallBegins, JoinsKept, Frames, Loops
<1>5. \A g \in Loops : g # f => SameFrame(g)
  BY <1>1, <1>3, <1>t DEF SameFrame, Iteration
<1>6. /\ cur'[f] = NULL /\ min'[j] = MinAfter(f) /\ extent'[j] = ExtentAfter(f)
      /\ \A k \in Jobs : k # j => /\ min'[k] = min[k] /\ extent'[k] = extent[k]
                                  /\ active_workers'[k] = active_workers[k]
  BY <1>1, <1>t
<1>7. \A k \in Jobs : IF Failing(f) /\ CallOf[k] = CallOf[j] THEN exit_status'[k] # 0
                      ELSE exit_status'[k] = exit_status[k]
  <2>1. \A k \in Jobs : exit_status'[k] = StatusAfter(f, k)
    BY <1>1
  <2> QED BY <1>1, <2>1 DEF StatusAfter, Failing
<1> QED BY <1>1, <1>3, <1>4, <1>5, <1>6, <1>7

\* A frame accounts for what it did.
LEMMA WorkFinish ==
  ASSUME IInv, WorkInv, NEW f \in Loops, FinishJob(f)
  PROVE  WorkInv'
<1>0. pc[f] = "relock" /\ pc[f] \in Busy
  BY DEF FinishJob, Busy
<1>w. /\ cur[f] \in Jobs /\ Iteration(f) \in Nat /\ SerialInv(f) /\ InRange(f)
      /\ run[f].min \in Nat /\ run[f].total \in Nat /\ run[f].done \in Nat
      /\ min[cur[f]] \in Nat /\ extent[cur[f]] \in Nat
  BY <1>0, AtWork
<1>j. PICK j \in Jobs : j = cur[f]
  BY <1>w
<1>1. /\ NoCallBegins /\ JoinsKept /\ \A g \in Loops : g # f => SameFrame(g)
      /\ cur'[f] = NULL /\ pc'[f] = "head"
      /\ UNCHANGED <<ran, completed>>
      /\ \A k \in Jobs : k # j => /\ min'[k] = min[k] /\ extent'[k] = extent[k]
                                  /\ active_workers'[k] = active_workers[k]
      /\ min'[j] = MinAfter(f) /\ extent'[j] = ExtentAfter(f)
      /\ \A k \in Jobs : IF Failing(f) /\ CallOf[k] = CallOf[j] THEN exit_status'[k] # 0
                         ELSE exit_status'[k] = exit_status[k]
  BY <1>j, FinishFrame
<1>n. NULL \notin Jobs
  BY FrameAssumption
<1>2. \A g \in Loops : \A k \in Jobs : \A i : Doing(g, k, i)' <=> Doing(g, k, i)
  <2>1. \A k \in Jobs : \A i : ~Doing(f, k, i)' /\ ~Doing(f, k, i)
    BY <1>0, <1>1, <1>n DEF Doing, InTask
  <2>2. \A g \in Loops : g # f => \A k, i : Doing(g, k, i)' <=> Doing(g, k, i)
    BY <1>1, FrameKept
  <2> QED BY <2>1, <2>2
<1>3. \A k \in Jobs : Lost(k)' <=> Lost(k)
  BY <1>1, <1>2 DEF Lost
<1>4. ASSUME NEW k \in Jobs PROVE BegunInv(k)'
  <2>1. BegunInv(k)
    BY DEF WorkInv
  <2>2. ASSUME NEW i \in Iterations(k), ran'[k][i] = 1
        PROVE  \/ <<k, i>> \in completed'
               \/ \E g \in Loops : Doing(g, k, i)' \/ (cur[g] = k /\ Failing(g))'
               \/ exit_status'[k] # 0
    <3>1. \/ <<k, i>> \in completed
          \/ \E g \in Loops : Doing(g, k, i)
          \/ \E g \in Loops : cur[g] = k /\ Failing(g)
          \/ exit_status[k] # 0
      BY <1>1, <2>1, <2>2 DEF BegunInv
    <3>2. CASE \E g \in Loops : cur[g] = k /\ Failing(g)
      <4>1. PICK g \in Loops : cur[g] = k /\ Failing(g)
        BY <3>2
      <4>2. CASE g = f
        BY <1>1, <1>j, <4>1, <4>2
      <4>3. CASE g # f
        BY <1>1, <4>1, <4>3, FrameKept DEF SameFrame
      <4> QED BY <4>2, <4>3
    <3>3. exit_status[k] # 0 => exit_status'[k] # 0
      BY <1>1
    <3> QED BY <1>1, <1>2, <3>1, <3>2, <3>3
  <2> QED BY <1>1, <2>1, <2>2 DEF BegunInv
<1>5. \A k \in Jobs : Live(k)' => Live(k)
  BY <1>1, CallAssumption DEF NoCallBegins, Live
<1>6. ASSUME NEW k \in Jobs, k # j PROVE OrderInv(k)'
  <2>1. OrderInv(k)
    BY DEF WorkInv
  <2>2. /\ min'[k] = min[k] /\ extent'[k] = extent[k] /\ active_workers'[k] = active_workers[k]
        /\ ran' = ran /\ completed' = completed /\ (exit_status'[k] = 0 => exit_status[k] = 0)
    BY <1>1, <1>6
  <2> QED BY <1>5, <2>1, <2>2 DEF OrderInv
<1>7. OrderInv(j)'
  <2>1. OrderInv(j)
    BY DEF WorkInv
  <2>2. /\ ran' = ran /\ completed' = completed /\ (exit_status'[j] = 0 => exit_status[j] = 0)
    BY <1>1
  <2>3. CASE ~Serial(j)
    <3>1. min'[j] = min[j] /\ extent'[j] = extent[j]
      BY <1>1, <1>j, <2>3 DEF MinAfter, ExtentAfter, ExtentLeft
    <3> QED BY <1>5, <2>1, <2>2, <2>3, <3>1 DEF OrderInv
  <2>4. CASE Serial(j) /\ Failing(f)
    <3>1. exit_status'[j] # 0 /\ extent'[j] = 0
      BY <1>1, <1>j, <2>4 DEF ExtentAfter, Failing
    <3> QED BY <2>1, <2>2, <2>4, <3>1, SMTT(30) DEF OrderInv
  <2>5. CASE Serial(j) /\ ~Failing(f)
    <3>1. run[f].result = 0
      BY <1>0, <2>5 DEF Failing
    <3>2. min'[j] = min[j] + run[f].total /\ extent'[j] = extent[j] - run[f].total
      BY <1>1, <1>j, <2>5, <3>1 DEF MinAfter, ExtentAfter, ExtentLeft
    <3>3. run[f].min = min[j]
      BY <1>0, <1>j, <1>w, <2>5 DEF InRange
    <3>4. run[f].done = 0 /\ \A i \in Iterations(j) :
            /\ i < Iteration(f) => <<j, i>> \in completed
            /\ i > Iteration(f) \/ i = Iteration(f) => ran[j][i] = 0
      <4>1. cur[f] # NULL /\ pc[f] \notin InTask
        BY <1>0, <1>j, <1>n DEF InTask
      <4> QED BY <1>0, <1>j, <1>w, <2>5, <4>1 DEF SerialInv
    <3>5. Iteration(f) = min'[j]
      BY <1>w, <3>2, <3>3, <3>4, SMTT(30) DEF Iteration
    <3>6. \A i \in Iterations(j) : i < min'[j] \/ i > min'[j] \/ i = min'[j]
      BY <1>w, <3>5, SMTT(30) DEF Iterations
    <3>7. \A i \in Iterations(j) : IF i < min'[j] THEN <<j, i>> \in completed' ELSE ran'[j][i] = 0
      BY <1>1, <3>4, <3>5, <3>6
    <3>8. min'[j] + extent'[j] = min[j] + extent[j]
      BY <1>j, <1>w, <3>2, SMTT(30)
    <3>9. Live(j)' /\ exit_status'[j] = 0 => min'[j] + extent'[j] = Task[j].extent
      BY <1>5, <2>1, <2>2, <3>8 DEF OrderInv
    <3>10. \A i \in Iterations(j) : i > 0 /\ ran'[j][i] = 1 => <<j, i - 1>> \in completed'
      BY <2>1, <2>2, <2>5 DEF OrderInv
    <3> QED BY <2>5, <3>7, <3>9, <3>10 DEF OrderInv
  <2> QED BY <2>3, <2>4, <2>5
<1>8. ASSUME NEW g \in Loops PROVE DoingInv(g)' /\ SerialInv(g)'
  <2>1. CASE g = f
    BY <1>1, <2>1 DEF DoingInv, SerialInv, InTask
  <2>2. CASE g # f
    <3>1. SameFrame(g) /\ cur'[g] = cur[g] /\ Iteration(g)' = Iteration(g)
      BY <1>1, <2>2 DEF SameFrame
    <3>2. DoingInv(g) /\ SerialInv(g)
      BY DEF WorkInv
    <3>3. pc[g] \in InTask => cur[g] \in Jobs
      BY DEF IInv, ControlInv, InTask, Busy, TypeOK, FramesOK, Frames
    <3>4. DoingInv(g)'
      BY <1>1, <1>2, <3>1, <3>2, <3>3 DEF DoingInv, SameFrame
    <3>5. SerialInv(g)'
      BY <1>1, <3>1, <3>2 DEF SerialInv, SameFrame, Failing
    <3> QED BY <3>4, <3>5
  <2> QED BY <2>1, <2>2
<1>9. \A g \in Loops : Failing(g)' => Lost(cur[g])'
  <2> SUFFICES ASSUME NEW g \in Loops, Failing(g)' PROVE Lost(cur[g])'
    OBVIOUS
  <2>0. g # f
    BY <1>1 DEF Failing
  <2>1. Failing(g) /\ cur'[g] = cur[g]
    BY <1>1, <2>0, FrameKept DEF SameFrame
  <2>2. cur[g] \in Jobs
    BY <2>1 DEF Failing, IInv, ControlInv, Busy, TypeOK, FramesOK, Frames
  <2> QED BY <1>3, <2>1, <2>2 DEF WorkInv, BlameInv
<1>10. \A k \in Jobs : /\ exit_status[k] # 0 => exit_status'[k] # 0
                       /\ exit_status'[k] # 0 => exit_status[k] # 0 \/ Blame(CallOf[k])'
  <2>1. Failing(f) => Lost(j)'
    BY <1>3, <1>j DEF WorkInv, BlameInv
  <2>2. \A k \in Jobs : CallOf[k] = CallOf[j] /\ Failing(f) => Blame(CallOf[k])'
    BY <2>1 DEF Blame, JobsOf
  <2> QED BY <1>1, <2>2
<1>11. BlameInv'
  <2>1. completed \subseteq completed'
    BY <1>1
  <2> QED BY <1>1, <1>3, <1>9, <1>10, <2>1, BlameKept
<1> QED BY <1>1, <1>4, <1>6, <1>7, <1>8, <1>11 DEF WorkInv

\* The steps of a loop.
LEMMA WorkLoop ==
  ASSUME Counting, IInv, WorkInv, NEW f \in Loops, LoopStep(f) \/ TaskError(f)
  PROVE  WorkInv'
<1>t. pc \in [Frames -> PC] /\ f \in Frames /\ Calls \subseteq Frames
  BY DEF IInv, TypeOK, FramesOK, Frames, Loops
<1>1. CASE BeginScan(f)
  <2>1. /\ UNCHANGED <<ran, completed, min, extent, exit_status, active_workers, idx, status, cur, run>>
        /\ pc[f] = "head" /\ pc' = [pc EXCEPT ![f] = "scan"]
    BY <1>1 DEF BeginScan, AtHead, jobVars, envVars
  <2>2. NoCallBegins /\ JoinsKept /\ \A g \in Frames : SamePlace(g)
    BY <1>t, <2>1 DEF NoCallBegins, JoinsKept, SamePlace, Resting
  <2> QED BY <1>t, <2>1, <2>2, WorkRests
<1>2. CASE SkipJob(f) \/ BlockedJob(f) \/ ClaimMore(f)
  <2>1. /\ UNCHANGED <<ran, completed, min, extent, exit_status, active_workers, idx, status, cur, pc>>
        /\ run' \in {run, [run EXCEPT ![f].step = @ + 1], [run EXCEPT ![f].iters = @ + 1]}
    BY <1>2 DEF SkipJob, BlockedJob, ClaimMore, jobVars, envVars
  <2>2. NoCallBegins /\ JoinsKept /\ \A g \in Frames : SamePlace(g)
    BY <2>1 DEF NoCallBegins, JoinsKept, SamePlace
  <2> QED BY <1>t, <2>1, <2>2, WorkRests
<1>3. CASE StartSerial(f) \/ StartParallel(f) \/ ClaimDone(f)
  BY <1>3, WorkStartSerial, WorkStartParallel, WorkClaimDone
<1>4. CASE NextIteration(f) \/ TaskReturns(f)
  BY <1>4, WorkNextIteration, WorkReturns
<1>5. CASE CallError(f) \/ TaskError(f) \/ FinishJob(f)
  BY <1>5, WorkError, WorkFinish
<1> QED BY <1>1, <1>2, <1>3, <1>4, <1>5 DEF LoopStep

\* What enqueueing call c does to the frames and to the jobs.
LEMMA EnqueueWork ==
  ASSUME Counting, IInv, WorkInv, NEW f \in Frames, halide_do_parallel_tasks(f),
         NEW c \in Calls, c = Step(f).call
  PROVE  /\ pc[c] = "idle" /\ cur' = cur /\ DOMAIN ran' = Jobs
         /\ \A g \in Loops : SameFrame(g)
         /\ \A d \in Calls : d # c /\ pc'[d] # "idle" =>
              pc[d] # "idle" /\ idx'[d] = idx[d] /\ status'[d] = status[d]
         /\ idx'[c] = 1 /\ status'[c] = 0
         /\ \A k \in Jobs : CallOf[k] # c => SameJob(k) /\ (Live(k)' => Live(k))
         /\ \A k \in Jobs : CallOf[k] = c =>
              /\ ran'[k] = [i \in Iterations(k) |-> 0] /\ \A i : <<k, i>> \notin completed'
              /\ min'[k] = 0 /\ extent'[k] = Task[k].extent /\ exit_status'[k] = 0
<1>1. pc[f] = "body" /\ pc[c] = "idle"
  BY DEF halide_do_parallel_tasks, AtStep
<1>2. /\ pc'[f] = "calling" /\ pc'[c] = "head" /\ f # c
      /\ \A g \in Frames : g # f /\ g # c =>
              \/ pc'[g] = pc[g]
              \/ pc[g] = "idle" /\ pc'[g] = "enter" /\ g \in Workers /\ g <= threads_created'
              \/ pc[g] = "sleepA" /\ pc'[g] = "wokenA"
              \/ pc[g] = "sleepB" /\ pc'[g] = "wokenB"
              \/ pc[g] = "sleepOwner" /\ pc'[g] = "wokenOwner"
  BY EnqueuePC
<1>3. /\ extent' = [j \in Jobs |-> IF CallOf[j] = c THEN Task[j].extent ELSE extent[j]]
      /\ min' = [j \in Jobs |-> IF CallOf[j] = c THEN 0 ELSE min[j]]
      /\ active_workers' = [j \in Jobs |-> IF CallOf[j] = c THEN 0 ELSE active_workers[j]]
      /\ exit_status' = [j \in Jobs |-> IF CallOf[j] = c THEN 0 ELSE exit_status[j]]
      /\ ran' = [j \in Jobs |-> IF CallOf[j] = c THEN [i \in DOMAIN Body[j] |-> 0] ELSE ran[j]]
  BY DEF halide_do_parallel_tasks
<1>4. /\ completed' = {e \in completed : CallOf[e[1]] # c}
      /\ idx' = [idx EXCEPT ![c] = 1] /\ status' = [status EXCEPT ![c] = 0]
      /\ UNCHANGED <<cur, run>>
  BY DEF halide_do_parallel_tasks
<1>5. \A g \in Loops : SameFrame(g)
  <2>1. \A g \in Frames : /\ pc[g] \in InTask <=> pc'[g] \in InTask
                          /\ pc[g] = "claim" <=> pc'[g] = "claim"
                          /\ pc[g] = "relock" <=> pc'[g] = "relock"
    BY <1>1, <1>2 DEF InTask
  <2> QED BY <1>4, <2>1 DEF SameFrame, Iteration, Frames
<1>6. idx \in [Calls -> Nat \ {0}] /\ status \in [Calls -> {0, 1}]
  BY DEF IInv, TypeOK, FramesOK
<1>7. \A d \in Calls : d # c /\ pc'[d] # "idle" =>
              pc[d] # "idle" /\ idx'[d] = idx[d] /\ status'[d] = status[d]
  <2>1. \A d \in Calls : d \in Frames /\ d \notin Workers
    BY FrameAssumption DEF Frames, Loops
  <2>2. \A d \in Calls : d # c /\ pc'[d] # "idle" => pc[d] # "idle"
    BY <1>1, <1>2, <2>1
  <2> QED BY <1>4, <1>6, <2>2
<1>8. idx'[c] = 1 /\ status'[c] = 0
  BY <1>4, <1>6
<1>9. \A k, i : <<k, i>> \in completed' <=> <<k, i>> \in completed /\ CallOf[k] # c
  BY <1>4
<1>10. \A k \in Jobs : CallOf[k] # c => SameJob(k) /\ (Live(k)' => Live(k))
  <2>1. \A k \in Jobs : CallOf[k] # c => SameJob(k)
    BY <1>3, <1>9 DEF SameJob, SameWork
  <2> QED BY <1>7, <2>1, CallAssumption DEF Live
<1>11. \A k \in Jobs : CallOf[k] = c =>
              /\ ran'[k] = [i \in Iterations(k) |-> 0] /\ \A i : <<k, i>> \notin completed'
              /\ min'[k] = 0 /\ extent'[k] = Task[k].extent /\ exit_status'[k] = 0
  <2>1. \A k \in Jobs : DOMAIN Body[k] = Iterations(k)
    BY TaskAssumption DEF Iterations
  <2> QED BY <1>3, <1>9, <2>1
<1>12. DOMAIN ran' = Jobs
  BY <1>3
<1> QED BY <1>1, <1>4, <1>5, <1>7, <1>8, <1>10, <1>11, <1>12

\* A call is enqueued: nothing of it has been done.
LEMMA WorkEnqueue ==
  ASSUME Counting, IInv, WorkInv, NEW f \in Frames, halide_do_parallel_tasks(f)
  PROVE  WorkInv'
<1>c. PICK c \in Calls : c = Step(f).call
  <2>1. AtStep(f, "call")
    BY DEF halide_do_parallel_tasks
  <2> QED BY <2>1, StepType DEF IInv
<1>1. /\ pc[c] = "idle" /\ cur' = cur /\ DOMAIN ran' = Jobs
      /\ \A g \in Loops : SameFrame(g)
      /\ \A d \in Calls : d # c /\ pc'[d] # "idle" =>
           pc[d] # "idle" /\ idx'[d] = idx[d] /\ status'[d] = status[d]
      /\ idx'[c] = 1 /\ status'[c] = 0
      /\ \A k \in Jobs : CallOf[k] # c => SameJob(k) /\ (Live(k)' => Live(k))
      /\ \A k \in Jobs : CallOf[k] = c =>
           /\ ran'[k] = [i \in Iterations(k) |-> 0] /\ \A i : <<k, i>> \notin completed'
           /\ min'[k] = 0 /\ extent'[k] = Task[k].extent /\ exit_status'[k] = 0
  BY <1>c, EnqueueWork
<1>2. \A k \in Jobs : CallOf[k] = c => active_workers[k] = 0 /\ \A g \in Loops : cur[g] # k
  <2>1. pc[c] = "idle"
    BY <1>1
  <2> QED BY <2>1, IdleCall DEF Frames
<1>3. \A g \in Loops : cur[g] \in Jobs \cup {NULL}
  BY DEF IInv, TypeOK, FramesOK, Frames
<1>4. \A k \in Jobs : CallOf[k] # c => BegunInv(k)' /\ OrderInv(k)' /\ (Lost(k)' <=> Lost(k))
  BY <1>1, JobRests
<1>5. ASSUME NEW k \in Jobs, CallOf[k] = c PROVE BegunInv(k)' /\ OrderInv(k)'
  <2>1. /\ ran'[k] = [i \in Iterations(k) |-> 0] /\ \A i : <<k, i>> \notin completed'
        /\ min'[k] = 0 /\ extent'[k] = Task[k].extent
    BY <1>1, <1>5
  <2>2. BegunInv(k)'
    BY <2>1, SMTT(30) DEF BegunInv
  <2>3. Task[k].extent \in Nat
    BY TaskAssumption
  <2>4. \A i \in Iterations(k) : ran'[k][i] = 0 /\ ~(i < min'[k])
    BY <2>1, <2>3, SMTT(30) DEF Iterations
  <2>5. OrderInv(k)'
    BY <2>1, <2>3, <2>4, SMTT(30) DEF OrderInv
  <2> QED BY <2>2, <2>5
<1>6. \A g \in Loops : DoingInv(g)' /\ SerialInv(g)'
  <2> SUFFICES ASSUME NEW g \in Loops PROVE DoingInv(g)' /\ SerialInv(g)'
    OBVIOUS
  <2>1. cur[g] # NULL => SameWork(cur[g])
    BY <1>1, <1>2, <1>3 DEF SameJob
  <2> QED BY <1>1, <2>1, AtWorkKept
<1>7. \A g \in Loops : Failing(g)' => Lost(cur[g])'
  <2> SUFFICES ASSUME NEW g \in Loops, Failing(g)' PROVE Lost(cur[g])'
    OBVIOUS
  <2>1. Failing(g) /\ cur'[g] = cur[g]
    BY <1>1, FrameKept DEF SameFrame
  <2>2. cur[g] \in Jobs /\ CallOf[cur[g]] # c
    BY <1>2, <1>3, <2>1 DEF Failing, IInv, ControlInv, Busy
  <2>3. Lost(cur[g])
    BY <2>1 DEF WorkInv, BlameInv
  <2> QED BY <1>4, <2>1, <2>2, <2>3
<1>8. ASSUME NEW d \in Calls, d # c, pc[d] # "idle", Blame(d) PROVE Blame(d)'
  <2>1. CASE \E j \in JobsOf(d) : Lost(j)
    BY <1>4, <1>8, <2>1 DEF Blame, JobsOf
  <2>2. CASE CallParent[d] # NULL /\ exit_status[CallParent[d]] # 0
    <3>1. PICK j \in Jobs : CallOf[j] = d
      BY OwnedJobType
    <3>2. PICK p \in Jobs : p = CallParent[d]
      BY <2>2, CallAssumption
    <3>3. active_workers[p] > 0
      BY <1>8, <2>2, <3>1, <3>2 DEF IInv, NoDanglingJob, Live, Parent
    <3>4. CallOf[p] # c
      BY <1>2, <3>3, SMTT(30)
    <3>5. exit_status'[p] = exit_status[p]
      BY <1>1, <3>4 DEF SameJob
    <3> QED BY <2>2, <3>2, <3>5 DEF Blame
  <2> QED BY <1>8, <2>1, <2>2 DEF Blame
<1>9. ASSUME NEW j \in Jobs, Live(j)', exit_status'[j] # 0 PROVE Blame(CallOf[j])'
  <2>1. CallOf[j] # c /\ CallOf[j] \in Calls
    BY <1>1, <1>9, CallAssumption
  <2>2. Live(j) /\ exit_status[j] # 0
    BY <1>1, <1>9, <2>1 DEF SameJob
  <2>3. Blame(CallOf[j])
    BY <2>2 DEF WorkInv, BlameInv
  <2> QED BY <1>8, <2>1, <2>2, <2>3 DEF Live
<1>10. ASSUME NEW d \in Calls, pc'[d] # "idle"
       PROVE  IF status'[d] # 0 THEN Blame(d)'
              ELSE \A k \in 1..(idx'[d] - 1) : AllDone(CallJobs[d][k])'
  <2>1. CASE d = c
    <3>1. \A k \in 1..(idx'[c] - 1) : FALSE
      BY <1>1, SMTT(30)
    <3> QED BY <1>1, <2>1, <3>1
  <2>2. CASE d # c
    <3>1. pc[d] # "idle" /\ idx'[d] = idx[d] /\ status'[d] = status[d]
      BY <1>1, <1>10, <2>2
    <3>2. IF status[d] # 0 THEN Blame(d) ELSE \A k \in 1..(idx[d] - 1) : AllDone(CallJobs[d][k])
      BY <3>1 DEF WorkInv, BlameInv
    <3>3. ASSUME NEW k \in 1..(idx[d] - 1), AllDone(CallJobs[d][k])
          PROVE  AllDone(CallJobs[d][k])'
      <4>1. k \in 1..Len(CallJobs[d]) /\ CallJobs[d] \in Seq(Jobs)
        <5>1. idx[d] \in 1..Len(CallJobs[d])
          BY DEF IInv, JoinInv
        <5>2. CallJobs[d] \in Seq(Jobs)
          BY CallAssumption
        <5> QED BY <5>1, <5>2, SMTT(30)
      <4>2. CallJobs[d][k] \in Jobs
        BY <4>1, SMTT(30)
      <4>3. CallOf[CallJobs[d][k]] = d
        BY <4>1, <4>2, CallAssumption DEF Holds
      <4>4. SameWork(CallJobs[d][k])
        BY <1>1, <2>2, <4>2, <4>3 DEF SameJob
      <4> QED BY <3>3, <4>4 DEF AllDone, SameWork
    <3> QED BY <1>8, <2>2, <3>1, <3>2, <3>3
  <2> QED BY <2>1, <2>2
<1>11. BlameInv'
  BY <1>7, <1>9, <1>10 DEF BlameInv
<1> QED BY <1>1, <1>4, <1>5, <1>6, <1>11 DEF WorkInv

\* Initially no work has been done.
LEMMA WorkInit == Init => WorkInv
<1> SUFFICES ASSUME Init PROVE WorkInv
  OBVIOUS
<1>1. /\ \A c \in Calls : pc[c] = "idle"
      /\ \A f \in Loops : pc[f] = "idle" /\ cur[f] = NULL
      /\ completed = {} /\ ran = [j \in Jobs |-> [i \in DOMAIN Body[j] |-> 0]]
      /\ \A j \in Jobs : min[j] = 0
  BY FrameAssumption DEF Init, Frames, Loops
<1>2. ASSUME NEW j \in Jobs PROVE BegunInv(j) /\ OrderInv(j)
  <2>1. ran[j] = [i \in Iterations(j) |-> 0] /\ Task[j].extent \in Nat /\ ~Live(j) /\ min[j] = 0
    <3>1. DOMAIN Body[j] = Iterations(j) /\ Task[j].extent \in Nat
      BY TaskAssumption DEF Iterations
    <3> QED BY <1>1, <3>1, CallAssumption DEF Live
  <2>2. BegunInv(j)
    BY <1>1, <2>1, SMTT(30) DEF BegunInv
  <2>3. \A i \in Iterations(j) : ran[j][i] = 0 /\ ~(i < min[j])
    BY <2>1, SMTT(30) DEF Iterations
  <2>4. OrderInv(j)
    BY <2>1, <2>3, SMTT(30) DEF OrderInv
  <2> QED BY <2>2, <2>4
<1>3. ASSUME NEW f \in Loops PROVE DoingInv(f) /\ SerialInv(f)
  BY <1>1 DEF DoingInv, SerialInv, InTask
<1>4. BlameInv
  BY <1>1, CallAssumption DEF BlameInv, Failing, Live
<1> QED BY <1>1, <1>2, <1>3, <1>4 DEF WorkInv

\* Every step keeps the account of the work.
LEMMA WorkStep ==
  ASSUME Counting, IInv, WorkInv, [Next]_vars
  PROVE  WorkInv'
<1>1. ASSUME NEW f \in Frames, CallStep(f) PROVE WorkInv'
  BY <1>1, WorkCalls, WorkEnqueue DEF CallStep
<1> QED BY <1>1, WorkWorker, WorkOwner, WorkLoop, WorkApplication DEF Next

\* The account says that no iteration is run twice, and that a serial task runs its
\* iterations in order.
LEMMA WorkRunOnce == WorkInv => IterationsRunOnce
<1> SUFFICES ASSUME WorkInv, NEW j \in Jobs
             PROVE  /\ \A i \in DOMAIN ran[j] : ran[j][i] <= 1
                    /\ Serial(j) => \A i \in DOMAIN ran[j] :
                         i > 0 /\ ran[j][i] = 1 => <<j, i - 1>> \in completed
  BY DEF IterationsRunOnce
<1>1. ran[j] \in [Iterations(j) -> {0, 1}]
  BY DEF WorkInv, BegunInv
<1>2. \A i \in DOMAIN ran[j] : ran[j][i] <= 1
  BY <1>1, SMTT(30)
<1>3. Serial(j) => \A i \in Iterations(j) : i > 0 /\ ran[j][i] = 1 => <<j, i - 1>> \in completed
  BY DEF WorkInv, OrderInv
<1>4. DOMAIN ran[j] = Iterations(j)
  BY <1>1
<1> QED BY <1>2, <1>3, <1>4

\* A call that is in progress ends with Return only.
LEMMA EndsByReturn ==
  ASSUME Counting, IInv, [Next]_vars, NEW c \in Calls, pc[c] # "idle", pc'[c] = "idle"
  PROVE  Return(c)
<1> SUFFICES ASSUME ~Return(c) PROVE FALSE
  OBVIOUS
<1>t. /\ pc \in [Frames -> PC] /\ c \in Frames /\ Calls \subseteq Frames /\ Workers \subseteq Frames
      /\ Loops \subseteq Frames /\ c \notin Workers
  BY FrameAssumption DEF IInv, TypeOK, FramesOK, Frames, Loops
<1>q. ASSUME NEW f \in Frames,
             UNCHANGED pc \/ \E q \in PC \ {"idle"} : pc' = [pc EXCEPT ![f] = q]
      PROVE  FALSE
  BY <1>t, <1>q
<1>b. ASSUME NEW f \in Frames, NEW C,
             \/ pc' = Broadcast(C)
             \/ \E q \in PC \ {"idle"} : pc' = [Broadcast(C) EXCEPT ![f] = q]
      PROVE  FALSE
  <2>1. Broadcast(C) \in [Frames -> PC] /\ Broadcast(C)[c] # "idle"
    BY <1>t, BroadcastPC
  <2> QED BY <1>t, <1>b, <2>1
<1>1. ASSUME NEW w \in Workers, WorkerStep(w) PROVE FALSE
  <2>1. \E q : pc' = [pc EXCEPT ![w] = q]
    BY <1>1 DEF WorkerStep, EnterWorker, ExitWorker, SleepWorker, WakeWorker
  <2> QED BY <1>t, <2>1
<1>2. ASSUME NEW d \in Calls, OwnerStep(d) PROVE FALSE
  <2>1. CASE JoinNext(d) \/ DropFailed(d)
    BY <1>q, <1>t, <2>1 DEF JoinNext, DropFailed
  <2>2. CASE SleepOwner(d) \/ WakeOwner(d)
    <3>1. \E q \in {"sleepOwner", "head"} : pc' = [pc EXCEPT ![d] = q]
      BY <2>2 DEF SleepOwner, WakeOwner
    <3> QED BY <1>q, <1>t, <3>1 DEF PC
  <2>3. CASE InheritFailure(d)
    BY <1>b, <1>t, <2>3 DEF InheritFailure
  <2>4. CASE Return(d)
    <3>1. \E q \in {"failed", "body"} : pc' = [pc EXCEPT ![d] = "idle", ![caller[d]] = q]
      BY <2>4 DEF Return
    <3>2. d # c
      BY <2>4
    <3> QED BY <1>t, <3>1, <3>2
  <2> QED BY <1>2, <2>1, <2>2, <2>3, <2>4 DEF OwnerStep
<1>3. ASSUME NEW f \in Loops, LoopStep(f) \/ TaskError(f) PROVE FALSE
  <2>1. CASE FinishJob(f)
    <3>1. pc' = [(IF MustWakeOwner(f) THEN Broadcast({"owner"}) ELSE pc) EXCEPT ![f] = "head"]
      BY <2>1 DEF FinishJob
    <3>2. "head" \in PC \ {"idle"}
      BY DEF PC
    <3> QED BY <1>b, <1>q, <1>t, <3>1, <3>2
  <2>2. CASE ~FinishJob(f)
    <3>1. UNCHANGED pc \/ \E q \in {"scan", "relock", "body", "claim"} : pc' = [pc EXCEPT ![f] = q]
      BY <1>3, <2>2
         DEF LoopStep, BeginScan, SkipJob, BlockedJob, StartSerial, StartParallel, ClaimMore, ClaimDone,
             NextIteration, TaskReturns, CallError, TaskError, ReturnError
    <3>2. UNCHANGED pc \/ \E q \in PC \ {"idle"} : pc' = [pc EXCEPT ![f] = q]
      BY <3>1 DEF PC
    <3> QED BY <1>q, <1>t, <3>2
  <2> QED BY <2>1, <2>2
<1>4. ASSUME NEW f \in Frames, CallStep(f) PROVE FALSE
  <2>1. CASE halide_semaphore_init(f) \/ halide_semaphore_release(f)
    <3>1. UNCHANGED pc \/ \E q \in PC \ {"idle"} : pc' = [pc EXCEPT ![f] = q]
      BY <2>1 DEF halide_semaphore_init, halide_semaphore_release, PC
    <3> QED BY <1>q, <3>1
  <2>2. CASE NotifyRelease(f)
    <3>1. pc' = [Broadcast({"A", "owner"}) EXCEPT ![f] = "body"] /\ "body" \in PC \ {"idle"}
      BY <2>2 DEF NotifyRelease, PC
    <3> QED BY <1>b, <3>1
  <2>3. CASE halide_do_parallel_tasks(f)
    <3>1. PICK d \in Calls : d = Step(f).call
      BY <2>3, StepType DEF halide_do_parallel_tasks, IInv
    <3>2. /\ pc'[f] = "calling" /\ pc'[d] = "head"
          /\ \A g \in Frames : g # f /\ g # d =>
              \/ pc'[g] = pc[g]
              \/ pc[g] = "idle" /\ pc'[g] = "enter" /\ g \in Workers /\ g <= threads_created'
              \/ pc[g] = "sleepA" /\ pc'[g] = "wokenA"
              \/ pc[g] = "sleepB" /\ pc'[g] = "wokenB"
              \/ pc[g] = "sleepOwner" /\ pc'[g] = "wokenOwner"
      BY <2>3, <3>1, EnqueuePC
    <3> QED BY <1>t, <3>2
  <2> QED BY <1>4, <2>1, <2>2, <2>3 DEF CallStep
<1>5. CASE (\E n \in ThreadRequests : halide_set_num_threads(n)) \/ Terminating \/ UNCHANGED vars
  BY <1>5 DEF halide_set_num_threads, Terminating, vars
<1>6. CASE halide_shutdown_thread_pool
  BY <1>b, <1>t, <1>6 DEF halide_shutdown_thread_pool
<1>7. CASE JoinWorkers
  <2>1. pc[c] # "exited"
    BY DEF IInv, ControlInv, CallPC, Busy
  <2> QED BY <1>t, <1>7, <2>1 DEF JoinWorkers
<1> QED BY <1>1, <1>2, <1>3, <1>4, <1>5, <1>6, <1>7 DEF Next

\* A call that ends has done its work, or has a reason not to.
LEMMA ReturnStep ==
  ASSUME Counting, IInv, WorkInv, [Next]_vars, NEW c \in Calls, pc[c] # "idle", pc'[c] = "idle"
  PROVE  ReturnsDone(c)
<1>1. /\ ~running(OwnedJob(c)) /\ idx[c] = Len(CallJobs[c]) /\ status'[c] = Joined(c)
  <2>1. Return(c)
    BY EndsByReturn
  <2>2. status \in [Calls -> {0, 1}]
    BY DEF IInv, TypeOK, FramesOK
  <2> QED BY <2>1, <2>2 DEF Return
<1>2. \A j \in JobsOf(c) : j \in Jobs /\ DOMAIN Body[j] = Iterations(j)
  BY TaskAssumption DEF Iterations, JobsOf
<1>3. ASSUME Joined(c) = 0, NEW j \in JobsOf(c) PROVE AllDone(j)
  <2>1. status[c] = 0 /\ AllDone(OwnedJob(c))
    BY <1>1, <1>3, JoinedWork
  <2>2. \A k \in 1..(idx[c] - 1) : AllDone(CallJobs[c][k])
    BY <2>1 DEF WorkInv, BlameInv
  <2>3. PICK k \in 1..Len(CallJobs[c]) : CallJobs[c][k] = j
    BY CallAssumption DEF JobsOf, Holds
  <2>4. k = idx[c] \/ k \in 1..(idx[c] - 1)
    BY <1>1, <2>3, CallAssumption, SMTT(30)
  <2> QED BY <2>1, <2>2, <2>3, <2>4 DEF OwnedJob
<1>4. ASSUME Joined(c) # 0, \A j \in JobsOf(c) : AllDone(j)
      PROVE  CallParent[c] # NULL /\ exit_status[CallParent[c]] # 0
  <2>1. Blame(c)
    BY <1>1, <1>4, JoinedWork
  <2>2. \A j \in JobsOf(c) : ~Lost(j)
    BY <1>4 DEF AllDone, Lost
  <2> QED BY <2>1, <2>2 DEF Blame
<1>5. (\A j \in JobsOf(c) : AllDone(j)) <=>
        \A j \in JobsOf(c) : \A i \in DOMAIN Body[j] : <<j, i>> \in completed
  BY <1>2 DEF AllDone
<1> QED BY <1>1, <1>3, <1>4, <1>5 DEF ReturnsDone

-----------------------------------------------------------------------------
(* Finite sets and sums.                                                   *)

\* The library's theorems about finite sets, and those of ListLemmas about sums.
L == INSTANCE ListLemmas

\* They speak of the same finite sets, cardinalities and sums.
LEMMA SameNotions ==
  /\ \A S : L!IsFiniteSet(S) <=> IsFiniteSet(S)
  /\ \A S : L!Cardinality(S) = Cardinality(S)
  /\ \A S, w : L!SumOver(S, w) = SumOver(S, w)
<1>1. ASSUME NEW S PROVE L!IsFiniteSet(S) <=> IsFiniteSet(S)
  BY DEF L!IsFiniteSet, IsFiniteSet
<1>2. ASSUME NEW S PROVE L!Cardinality(S) = Cardinality(S)
  BY DEF L!Cardinality, Cardinality
<1>3. ASSUME NEW S, NEW w PROVE L!SumOver(S, w) = SumOver(S, w)
  <2>1. L!Pairs(S, w) = Pairs(S, w)
    BY DEF L!Pairs, Pairs
  <2> QED BY <1>2, <2>1 DEF L!SumOver, SumOver
<1> QED BY <1>1, <1>2, <1>3

\* A range of numbers is finite, and so is what a finite sequence lists.
LEMMA FiniteRanges ==
  /\ \A n \in Nat : IsFiniteSet(1..n)
  /\ \A T : \A n \in Nat : \A s \in [1..n -> T] :
       (\A y \in T : \E i \in 1..n : s[i] = y) => IsFiniteSet(T)
<1>1. ASSUME NEW n \in Nat PROVE L!IsFiniteSet(1..n)
  BY L!FS_Interval, SMTT(30)
<1>2. ASSUME NEW n \in Nat, NEW T, NEW s \in [1..n -> T], \A y \in T : \E i \in 1..n : s[i] = y
      PROVE  L!IsFiniteSet(T)
  <2>1. s \in L!Surjection(1..n, T)
    BY <1>2 DEF L!Surjection
  <2> QED BY <1>1, <2>1, L!FS_Surjection
<1> QED BY <1>1, <1>2, SameNotions

\* There are finitely many frames, so that those busy with a job can be counted.
LEMMA FiniteFrames == FramesFinite
<1>1. IsFiniteSet(Workers)
  BY FrameAssumption, FiniteRanges DEF Workers
<1>2. \A S, T : IsFiniteSet(S) /\ IsFiniteSet(T) => IsFiniteSet(S \cup T)
  BY SameNotions, L!FS_Union
<1>3. IsFiniteSet(Loops)
  BY <1>1, <1>2, FrameAssumption DEF Loops
<1> QED BY <1>1, <1>2, <1>3, FrameAssumption DEF FramesFinite, Frames

\* The jobs of a call are finitely many, so workers_to_wake is an integer.
LEMMA WakeType == ASSUME SumNatural PROVE WakeNumber
<1> SUFFICES ASSUME NEW c \in Calls PROVE workers_to_wake(c) \in Int
  BY DEF WakeNumber
<1> DEFINE s == CallJobs[c]
           w == [j \in Jobs |-> IF Serial(j) THEN 1 ELSE Task[j].extent]
<1>1. /\ Len(s) \in Nat /\ s \in [1..Len(s) -> JobsOf(c)]
      /\ \A j \in JobsOf(c) : \E i \in 1..Len(s) : s[i] = j
  BY CallAssumption, SMTT(30) DEF JobsOf, Holds
<1>2. IsFiniteSet(JobsOf(c))
  BY <1>1, FiniteRanges
<1>3. \A j \in JobsOf(c) : w[j] \in Nat
  BY TaskAssumption DEF JobsOf
<1> HIDE DEF w
<1>4. SumOver(JobsOf(c), w) \in Nat
  BY <1>2, <1>3 DEF SumNatural
<1> QED BY <1>4, SMTT(30) DEF workers_to_wake, w

\* What the lemmas assume of finite sets and sums.
LEMMA CountingHolds == Counting
<1>1. EmptyCount
  BY SameNotions, L!FS_EmptySet DEF EmptyCount
<1>2. NaturalCount
  BY SameNotions, L!FS_CardinalityType DEF NaturalCount
<1>3. OnlyOne
  BY SameNotions, L!FS_Singleton DEF OnlyOne
<1>4. OneMore
  BY SameNotions, L!FS_AddElement DEF OneMore
<1>5. OneLess
  BY SameNotions, L!FS_RemoveElement DEF OneLess
<1>6. FiniteSubsets
  BY SameNotions, L!FS_Subset DEF FiniteSubsets
<1>7. SumNatural
  BY SameNotions, L!SumFinite DEF SumNatural
<1>8. SumMore
  <2>1. ASSUME NEW S, NEW w, NEW x, IsFiniteSet(S), \A y \in S : w[y] \in Nat, x \notin S, w[x] \in Nat
        PROVE  SumOver(S \cup {x}, w) = SumOver(S, w) + w[x]
    <3>1. L!IsFiniteSet(S)
      BY <2>1, SameNotions
    <3>2. L!SumOver(S \cup {x}, w) = L!SumOver(S, w) + w[x]
      BY <2>1, <3>1, L!SumAdd
    <3> QED BY <3>2, SameNotions
  <2> QED BY <2>1 DEF SumMore
<1> QED BY <1>1, <1>2, <1>3, <1>4, <1>5, <1>6, <1>7, <1>8, FiniteFrames, WakeType DEF Counting

-----------------------------------------------------------------------------
(* The theorems.                                                           *)

\* The inductive invariant holds in every reachable state of the pool, whatever
\* the calls, tasks, semaphores and number of threads are.
THEOREM Invariance == Spec => []IInv
<1>1. Init => IInv BY CountingHolds, InitIInv
<1>2. IInv /\ [Next]_vars => IInv' BY CountingHolds, NextIInv
<1> QED BY <1>1, <1>2, PTL DEF Spec

\* No counter of the pool or of a job (struct work, work_queue_t) leaves its
\* range: active_workers, extent and the semaphores never go below zero and the
\* threads created never exceed the array that records them.
THEOREM TypeCorrect == Spec => []TypeOK
<1>1. IInv => TypeOK BY DEF IInv
<1> QED BY <1>1, Invariance, PTL

\* The job stack holds exactly the live jobs with work to hand out, once each, so
\* the walks of worker_thread_already_locked over it find what they look for.
THEOREM StackCorrect == Spec => []StackHoldsPendingJobs
<1>1. IInv => StackHoldsPendingJobs BY DEF IInv
<1> QED BY <1>1, Invariance, PTL

\* active_workers, which decides when a call may return and whether a serial job
\* may be started, is the number of threads that work on the job.
THEOREM WorkersCounted == Spec => []ActiveWorkersCounted
<1>1. IInv => ActiveWorkersCounted BY DEF IInv
<1> QED BY <1>1, Invariance, PTL

\* No thread works on a job, or on the child of a job, that has gone from the
\* stack of the caller of halide_do_par_for or halide_do_parallel_tasks.
THEOREM NoDangling == Spec => []NoDanglingJob
<1>1. IInv => NoDanglingJob BY DEF IInv
<1> QED BY <1>1, Invariance, PTL

\* The counts of the threads that sleep (workers_sleeping, owners_sleeping and
\* a_team_size of work_queue_t), by which enqueue_work_already_locked chooses whom to
\* wake, are right; a job whose owner is said to sleep is the one that the owner waits for.
THEOREM SleepersStayCounted == Spec => []SleepersCounted
<1>1. Init => SleepersCounted BY CountingHolds, SleepersInit
<1>2. IInv /\ SleepersCounted /\ [Next]_vars => SleepersCounted' BY CountingHolds, SleepersStep
<1> QED BY <1>1, <1>2, Invariance, PTL DEF Spec

\* What worker_thread_already_locked adds to threads_reserved, of the queue or of the
\* parent job, it takes off again, and it never promises more threads than there are.
THEOREM ReservationsStayBalanced == Spec => []ReservationsBalanced
<1>1. Init => ReservationsBalanced BY CountingHolds, ReservedInit
<1>2. IInv /\ ReservationsBalanced /\ [Next]_vars => ReservationsBalanced' BY CountingHolds, ReservedStep
<1> QED BY <1>1, <1>2, Invariance, PTL DEF Spec

\* The account of the iterations that were begun, completed and lost, and of the
\* errors that they led to, is right in every reachable state.
THEOREM WorkAccounted == Spec => []WorkInv
<1>1. Init => WorkInv BY WorkInit
<1>2. IInv /\ WorkInv /\ [Next]_vars => WorkInv' BY CountingHolds, WorkStep
<1> QED BY <1>1, <1>2, Invariance, PTL DEF Spec

\* The slices of a job that worker_thread_already_locked hands out do not overlap,
\* and a serial job is run in order.
THEOREM IterationsStayRunOnce == Spec => []IterationsRunOnce
<1>1. WorkInv => IterationsRunOnce BY WorkRunOnce
<1> QED BY <1>1, WorkAccounted, PTL

\* halide_do_par_for and halide_do_parallel_tasks return zero when all the work is
\* done, and an error when a task failed or the task that made the call had.
THEOREM ReturnsWhenDone == Spec => ReturnedWorkIsDone
<1>1. IInv /\ WorkInv /\ [Next]_vars =>
        [\A c \in Calls : pc[c] # "idle" /\ pc'[c] = "idle" => ReturnsDone(c)]_vars
  BY CountingHolds, ReturnStep
<1> QED BY <1>1, Invariance, WorkAccounted, PTL DEF Spec, ReturnedWorkIsDone
=============================================================================
