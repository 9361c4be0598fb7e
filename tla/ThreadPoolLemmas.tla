-------------------------- MODULE ThreadPoolLemmas --------------------------
(***************************************************************************)
(* Every step of the thread pool preserves IInv; with it, the counts of    *)
(* sleeping threads and the reservations.  The facts about the operators   *)
(* and the state of ThreadPool come first.                                 *)
(***************************************************************************)
EXTENDS ThreadPool, TLAPS

\* A leaf is for Zenon unless it says otherwise.
USE ZenonT(30)

-----------------------------------------------------------------------------
(* What is used of finite sets and of sums.  It follows from the library's *)
(* theorems, which ThreadPoolProofs applies in the end; the lemmas up to   *)
(* there have it as an assumption.                                         *)

EmptyCount == Cardinality({}) = 0 /\ \A S : IsFiniteSet(S) /\ Cardinality(S) = 0 => S = {}
NaturalCount == \A S : IsFiniteSet(S) => Cardinality(S) \in Nat
OnlyOne == \A x : Cardinality({x}) = 1
OneMore == \A S, x : IsFiniteSet(S) /\ x \notin S => Cardinality(S \cup {x}) = Cardinality(S) + 1
OneLess == \A S, x : IsFiniteSet(S) /\ x \in S => Cardinality(S \ {x}) = Cardinality(S) - 1
FiniteSubsets == \A S, T : IsFiniteSet(S) /\ T \subseteq S => IsFiniteSet(T)
FramesFinite == IsFiniteSet(Frames) /\ IsFiniteSet(Workers)
SumNatural ==
  \A S, w : IsFiniteSet(S) /\ (\A y \in S : w[y] \in Nat) => SumOver(S, w) \in Nat
SumMore ==
  \A S, w, x : IsFiniteSet(S) /\ (\A y \in S : w[y] \in Nat) /\ x \notin S /\ w[x] \in Nat
              => SumOver(S \cup {x}, w) = SumOver(S, w) + w[x]
WakeNumber == \A c \in Calls : workers_to_wake(c) \in Int
Counting ==
  /\ EmptyCount /\ NaturalCount /\ OnlyOne /\ OneMore /\ OneLess /\ FiniteSubsets
  /\ FramesFinite /\ SumNatural /\ SumMore /\ WakeNumber

-----------------------------------------------------------------------------
(* Facts about the operators and the state.                                *)

\* Taking a job off the stack.
LEMMA RemoveJobStack ==
  ASSUME NEW s \in Seq(Jobs), NEW k \in 1..Len(s), Distinct(s)
  PROVE  /\ RemoveJob(s, k) \in Seq(Jobs)
         /\ Distinct(RemoveJob(s, k))
         /\ \A j \in Jobs : Holds(RemoveJob(s, k), j) <=> Holds(s, j) /\ j # s[k]
<1> DEFINE r == RemoveJob(s, k)
<1>1. /\ r \in Seq(Jobs) /\ Len(r) = Len(s) - 1
      /\ \A i \in 1..(Len(s) - 1) : r[i] = IF i < k THEN s[i] ELSE s[i + 1]
  BY SMTT(30) DEF RemoveJob
<1> HIDE DEF r
<1>2. Distinct(r)
  BY <1>1, SMTT(30) DEF Distinct
<1>3. ASSUME NEW j \in Jobs PROVE Holds(r, j) <=> Holds(s, j) /\ j # s[k]
  <2>1. ASSUME Holds(r, j) PROVE Holds(s, j) /\ j # s[k]
    <3>1. PICK i \in 1..(Len(s) - 1) : r[i] = j BY <1>1, <2>1 DEF Holds
    <3>2. CASE i < k BY <1>1, <3>1, <3>2, SMTT(30) DEF Holds, Distinct
    <3>3. CASE ~(i < k) BY <1>1, <3>1, <3>3, SMTT(30) DEF Holds, Distinct
    <3> QED BY <3>2, <3>3
  <2>2. ASSUME Holds(s, j), j # s[k] PROVE Holds(r, j)
    <3>1. PICK i \in 1..Len(s) : s[i] = j BY <2>2 DEF Holds
    <3>2. CASE i < k BY <1>1, <3>1, <3>2, SMTT(30) DEF Holds
    <3>3. CASE i > k
      <4>1. i - 1 \in 1..(Len(s) - 1) /\ r[i - 1] = j BY <1>1, <3>1, <3>3, SMTT(30)
      <4> QED BY <1>1, <4>1 DEF Holds
    <3> QED BY <2>2, <3>1, <3>2, <3>3, SMTT(30)
  <2> QED BY <2>1, <2>2
<1> QED BY <1>1, <1>2, <1>3 DEF r

\* Putting jobs that it does not hold on the stack.
LEMMA PushStack ==
  ASSUME NEW s \in Seq(Jobs), NEW t \in Seq(Jobs), Distinct(s), Distinct(t),
         \A j \in Jobs : ~(Holds(s, j) /\ Holds(t, j))
  PROVE  /\ t \o s \in Seq(Jobs)
         /\ Distinct(t \o s)
         /\ \A j \in Jobs : Holds(t \o s, j) <=> Holds(s, j) \/ Holds(t, j)
<1> DEFINE r == t \o s
<1>1. /\ r \in Seq(Jobs) /\ Len(r) = Len(t) + Len(s)
      /\ \A i \in 1..(Len(t) + Len(s)) : r[i] = IF i <= Len(t) THEN t[i] ELSE s[i - Len(t)]
  BY SMTT(30)
<1> HIDE DEF r
<1>2. ASSUME NEW j \in Jobs PROVE Holds(r, j) <=> Holds(s, j) \/ Holds(t, j)
  <2>1. ASSUME Holds(s, j) PROVE Holds(r, j)
    <3>1. PICK i \in 1..Len(s) : s[i] = j BY <2>1 DEF Holds
    <3>2. i + Len(t) \in 1..Len(r) /\ ~(i + Len(t) <= Len(t)) /\ (i + Len(t)) - Len(t) = i
      BY <1>1, <3>1, SMTT(30)
    <3>3. r[i + Len(t)] = s[(i + Len(t)) - Len(t)]
      BY <1>1, <3>2
    <3> QED BY <3>1, <3>2, <3>3 DEF Holds
  <2>2. ASSUME Holds(t, j) PROVE Holds(r, j)
    BY <1>1, <2>2, SMTT(30) DEF Holds
  <2>3. ASSUME Holds(r, j) PROVE Holds(s, j) \/ Holds(t, j)
    <3>1. PICK i \in 1..Len(r) : r[i] = j BY <2>3 DEF Holds
    <3>2. CASE i <= Len(t) BY <1>1, <3>1, <3>2, SMTT(30) DEF Holds
    <3>3. CASE i > Len(t)
      <4>1. i - Len(t) \in 1..Len(s) /\ s[i - Len(t)] = j BY <1>1, <3>1, <3>3, SMTT(30)
      <4> QED BY <4>1 DEF Holds
    <3> QED BY <3>2, <3>3, SMTT(30)
  <2> QED BY <2>1, <2>2, <2>3
<1>3. Distinct(r)
  <2> SUFFICES ASSUME NEW i \in 1..Len(r), NEW k \in 1..Len(r), r[i] = r[k] PROVE i = k
    BY DEF Distinct
  <2>1. CASE i <= Len(t) /\ k <= Len(t) BY <1>1, <2>1, SMTT(30) DEF Distinct
  <2>2. CASE i > Len(t) /\ k > Len(t)
    <3>1. /\ i - Len(t) \in 1..Len(s) /\ k - Len(t) \in 1..Len(s)
          /\ s[i - Len(t)] = s[k - Len(t)]
      BY <1>1, <2>2, SMTT(30)
    <3>2. i - Len(t) = k - Len(t) BY <3>1 DEF Distinct
    <3> QED BY <1>1, <3>2, SMTT(30)
  <2>3. CASE i <= Len(t) /\ k > Len(t)
    <3>1. /\ k - Len(t) \in 1..Len(s) /\ i \in 1..Len(t)
          /\ r[i] = t[i] /\ s[k - Len(t)] = t[i] /\ t[i] \in Jobs
      BY <1>1, <2>3, SMTT(30)
    <3> QED BY <3>1 DEF Holds
  <2>4. CASE i > Len(t) /\ k <= Len(t)
    <3>1. /\ i - Len(t) \in 1..Len(s) /\ k \in 1..Len(t)
          /\ r[k] = t[k] /\ s[i - Len(t)] = t[k] /\ t[k] \in Jobs
      BY <1>1, <2>4, SMTT(30)
    <3> QED BY <3>1 DEF Holds
  <2> QED BY <1>1, <2>1, <2>2, <2>3, <2>4, SMTT(30)
<1> QED BY <1>1, <1>2, <1>3 DEF r

\* A sum depends on its terms only.
LEMMA SumSame ==
  ASSUME NEW S, NEW v, NEW w, \A x \in S : v[x] = w[x]
  PROVE  SumOver(S, v) = SumOver(S, w)
<1>1. {{x} \X (1..v[x]) : x \in S} = {{x} \X (1..w[x]) : x \in S}
  OBVIOUS
<1> QED BY <1>1 DEF SumOver, Pairs

\* The locals of a frame keep their types when they are updated.
LEMMA FieldTypes ==
  ASSUME NEW r \in RunType, NEW n \in Nat
  PROVE  /\ [r EXCEPT !.total = n] \in RunType
         /\ [r EXCEPT !.iters = n] \in RunType
         /\ [r EXCEPT !.done = n] \in RunType
         /\ [r EXCEPT !.step = n + 1] \in RunType
         /\ [r EXCEPT !.step = 1] \in RunType
         /\ [r EXCEPT !.result = 1] \in RunType
  BY SMTT(30) DEF RunType

\* What a run assigned by a frame is made of: the types of the fields of
\* RunType.
LEMMA RunTypes ==
  ASSUME NEW r \in RunType, NEW n \in Nat
  PROVE  NewRun(n) \in RunType /\ IterationDone(r) \in RunType
         /\ SliceDone(r) \in RunType /\ SliceFailed(r) \in RunType
<1>1. NewRun(n) \in RunType BY SMTT(30) DEF NewRun, RunType
<1>2. r.done + 1 \in Nat /\ r.total + r.iters \in Nat BY SMTT(30) DEF RunType
<1> DEFINE d == [r EXCEPT !.done = r.done + 1]
           t == [r EXCEPT !.total = r.total + r.iters]
           i == [t EXCEPT !.iters = 0]
           z == [i EXCEPT !.done = 0]
<1>3. d \in RunType /\ t \in RunType BY <1>2, FieldTypes
<1> HIDE DEF t, d
<1>4. i \in RunType BY <1>3, FieldTypes
<1> HIDE DEF i
<1>5. z \in RunType BY <1>4, FieldTypes
<1> HIDE DEF z
<1>6. /\ [d EXCEPT !.step = 1] \in RunType
      /\ [z EXCEPT !.step = 1] \in RunType
      /\ [t EXCEPT !.result = 1] \in RunType
  BY <1>3, <1>5, FieldTypes
<1>7. IterationDone(r) = [d EXCEPT !.step = 1] BY DEF IterationDone, d
<1>8. SliceDone(r) = [z EXCEPT !.step = 1] BY DEF SliceDone, z, i, t
<1>9. SliceFailed(r) = [t EXCEPT !.result = 1] BY DEF SliceFailed, t
<1> QED BY <1>1, <1>6, <1>7, <1>8, <1>9

\* Changing a field of a run within its type leaves a run.
LEMMA RunFields ==
  ASSUME NEW r \in RunType
  PROVE  /\ IterationDone(r).min = r.min /\ IterationDone(r).total = r.total
         /\ IterationDone(r).iters = r.iters /\ IterationDone(r).done = r.done + 1
         /\ SliceDone(r).min = r.min /\ SliceDone(r).total = r.total + r.iters
         /\ SliceDone(r).iters = 0 /\ SliceDone(r).done = 0
         /\ SliceFailed(r).min = r.min /\ SliceFailed(r).total = r.total + r.iters
<1>1. /\ IterationDone(r).min = r.min /\ IterationDone(r).total = r.total
      /\ IterationDone(r).iters = r.iters /\ IterationDone(r).done = r.done + 1
  BY DEF RunType, IterationDone
<1>2. /\ SliceDone(r).min = r.min /\ SliceDone(r).total = r.total + r.iters
      /\ SliceDone(r).iters = 0 /\ SliceDone(r).done = 0
  BY DEF RunType, SliceDone
<1>3. SliceFailed(r).min = r.min /\ SliceFailed(r).total = r.total + r.iters
  BY DEF RunType, SliceFailed
<1> QED BY <1>1, <1>2, <1>3

\* The locals of a frame that starts a job.
LEMMA NewRunFields ==
  ASSUME NEW m \in Nat
  PROVE  /\ NewRun(m) \in RunType
         /\ NewRun(m).min = m /\ NewRun(m).total = 0
         /\ NewRun(m).iters = 1 /\ NewRun(m).done = 0
  BY SMTT(30) DEF NewRun, RunType

\* A frame that runs a task is at an iteration of it.
LEMMA AtIteration ==
  ASSUME TypeOK, ControlInv, RangeInv, NEW f \in Loops, pc[f] \in InTask
  PROVE  cur[f] \in Jobs /\ Iteration(f) \in DOMAIN Body[cur[f]]
<1>1. cur[f] \in Jobs
  BY DEF TypeOK, FramesOK, ControlInv, InTask, Busy, Frames
<1>2. run[f] \in RunType /\ min[cur[f]] \in Nat /\ extent[cur[f]] \in Nat
  BY <1>1 DEF TypeOK, FramesOK, JobsOK, Frames
<1>3. Task[cur[f]].extent \in Nat
  BY <1>1, TaskAssumption
<1>4. Iteration(f) \in 0..(Task[cur[f]].extent - 1)
  <2>1. CASE Serial(cur[f])
    BY <1>1, <1>2, <1>3, <2>1, SMTT(30) DEF RangeInv, InRange, Iteration, RunType, InTask, Busy
  <2>2. CASE ~Serial(cur[f])
    BY <1>1, <1>2, <1>3, <2>2, SMTT(30) DEF RangeInv, InRange, Iteration, RunType, InTask, Busy
  <2> QED BY <2>1, <2>2
<1> QED BY <1>1, <1>4, TaskAssumption

\* So the runtime call it is at is one of the steps of its task.
LEMMA StepType ==
  ASSUME TypeOK, ControlInv, RangeInv, NEW f \in Frames, NEW o, AtStep(f, o)
  PROVE  /\ Step(f) \in Steps
         /\ Step(f).op = o
         /\ o = "call" => /\ Step(f).call \in Calls
                          /\ CallParent[Step(f).call] \in {NULL, cur[f]}
         /\ o \in {"init", "release"} => Step(f).sem \in Sems /\ Step(f).n \in Nat
<1>1. run[f].step \in Nat \ {0}
  BY DEF TypeOK, FramesOK, RunType
<1>2. CASE f \in Clients
  <2>1. Program[f] \in Seq(Steps) BY <1>2, TaskAssumption
  <2>2. run[f].step \in 1..Len(Program[f]) BY <1>1, <1>2, <2>1, SMTT(30) DEF AtStep, StepsOf
  <2>3. Step(f) \in Steps BY <1>2, <2>1, <2>2, SMTT(30) DEF Step, StepsOf
  <2>4. Step(f).op = o BY DEF AtStep, Step
  <2>5. Step(f).op = "call" => CallParent[Step(f).call] = NULL
    BY <1>2, <2>2, ParentAssumption DEF Step, StepsOf
  <2> QED BY <2>3, <2>4, <2>5 DEF Steps
<1>3. CASE f \in Loops
  <2>0. f \notin Clients BY <1>3, FrameAssumption
  <2>1. cur[f] \in Jobs /\ Iteration(f) \in DOMAIN Body[cur[f]]
    BY <1>3, AtIteration DEF AtStep, InTask
  <2>2. Body[cur[f]][Iteration(f)] \in Seq(Steps) BY <2>1, TaskAssumption
  <2>3. run[f].step \in 1..Len(Body[cur[f]][Iteration(f)])
    BY <1>1, <2>0, <2>2, SMTT(30) DEF AtStep, StepsOf
  <2>4. Step(f) \in Steps BY <2>0, <2>2, <2>3, SMTT(30) DEF Step, StepsOf
  <2>5. Step(f).op = o BY DEF AtStep, Step
  <2>6. Step(f).op = "call" => CallParent[Step(f).call] \in {NULL, cur[f]}
    BY <2>0, <2>1, <2>3, ParentAssumption DEF Step, StepsOf
  <2> QED BY <2>4, <2>5, <2>6 DEF Steps
<1> QED BY <1>2, <1>3 DEF Frames

\* A broadcast moves sleeping frames only.
LEMMA BroadcastPC ==
  ASSUME pc \in [Frames -> PC], NEW C
  PROVE  /\ Broadcast(C) \in [Frames -> PC]
         /\ \A f \in Frames :
              \/ Broadcast(C)[f] = pc[f]
              \/ pc[f] = "sleepA" /\ Broadcast(C)[f] = "wokenA"
              \/ pc[f] = "sleepB" /\ Broadcast(C)[f] = "wokenB"
              \/ pc[f] = "sleepOwner" /\ Broadcast(C)[f] = "wokenOwner"
<1>1. \A g \in Frames : Wake(C, g) \in PC BY DEF Wake, PC
<1> QED BY <1>1 DEF Broadcast, Wake

\* The job at the cursor of a scan.
LEMMA AtScanJob ==
  ASSUME IInv, NEW f \in Loops, AtScan(f)
  PROVE  cursor[f] \in 1..Len(jobs) /\ jobs[cursor[f]] \in Jobs
<1>1. cursor[f] \in Nat \ {0} /\ jobs \in Seq(Jobs)
  BY DEF IInv, TypeOK, QueueOK, FramesOK
<1> QED BY <1>1, SMTT(30) DEF AtScan

\* A call which waits for a job waits for one of its own jobs.
LEMMA OwnedJobType ==
  ASSUME IInv, NEW c \in Calls
  PROVE  OwnedJob(c) \in Jobs /\ CallOf[OwnedJob(c)] = c
<1>1. CallJobs[c] \in Seq(Jobs) /\ idx[c] \in 1..Len(CallJobs[c])
  BY CallAssumption DEF IInv, JoinInv
<1>2. OwnedJob(c) = CallJobs[c][idx[c]]
  BY DEF OwnedJob
<1> QED BY <1>1, <1>2, CallAssumption, SMTT(30) DEF Holds

\* The job a call is joining counts for one, or for none.
LEMMA JoinedType == ASSUME IInv, NEW c \in Calls PROVE Joined(c) \in {0, 1}
  BY OwnedJobType DEF IInv, TypeOK, FramesOK, JobsOK, Joined

\* ActiveWorkersCounted, as it is used: a job without workers is nobody's.
LEMMA NoWorkers ==
  ASSUME Counting, IInv, NEW j \in Jobs
  PROVE  active_workers[j] = 0 <=> \A f \in Frames : cur[f] # j
<1> DEFINE W == {f \in Frames : cur[f] = j}
<1>1. IsFiniteSet(W)
  BY DEF Counting, FiniteSubsets, FramesFinite
<1>2. Cardinality(W) = 0 <=> W = {}
  BY <1>1 DEF Counting, EmptyCount
<1> QED BY <1>2 DEF IInv, ActiveWorkersCounted

\* The worker of a serial job is alone with it.
LEMMA SerialWorker ==
  ASSUME Counting, IInv, NEW f \in Loops, cur[f] \in Jobs, Serial(cur[f])
  PROVE  active_workers[cur[f]] = 1
<1>1. {g \in Frames : cur[g] = cur[f]} = {f}
  BY FrameAssumption DEF IInv, ControlInv, RangeInv, Frames
<1>2. Cardinality({f}) = 1
  BY DEF Counting, OnlyOne
<1> QED BY <1>1, <1>2 DEF IInv, ActiveWorkersCounted

\* Without calls in progress there are no live jobs, so the stack is empty and
\* nobody works on a job.
LEMMA QuietPool ==
  ASSUME IInv, \A c \in Calls : pc[c] = "idle"
  PROVE  jobs = <<>> /\ \A f \in Frames : cur[f] = NULL
<1>1. \A j \in Jobs : ~Live(j)
  BY CallAssumption DEF Live
<1>2. \A f \in Frames : cur[f] = NULL
  BY <1>1 DEF IInv, NoDanglingJob, TypeOK, FramesOK
<1>3. \A j \in Jobs : ~Holds(jobs, j)
  BY <1>1 DEF IInv, StackHoldsPendingJobs
<1>4. jobs \in Seq(Jobs)
  BY DEF IInv, TypeOK, QueueOK
<1>5. Len(jobs) = 0
  <2>1. SUFFICES ASSUME Len(jobs) # 0 PROVE FALSE OBVIOUS
  <2>2. 1 \in 1..Len(jobs) /\ jobs[1] \in Jobs BY <1>4, <2>1, SMTT(30)
  <2> QED BY <1>3, <2>2 DEF Holds
<1> QED BY <1>2, <1>4, <1>5, SMTT(30)

\* The owner that returns has joined all its jobs.
LEMMA AllJoined ==
  ASSUME IInv, NEW c \in Calls, ~running(OwnedJob(c)), idx[c] = Len(CallJobs[c])
  PROVE  \A j \in Jobs : CallOf[j] = c => ~running(j) /\ extent[j] = 0 /\ active_workers[j] = 0
<1> SUFFICES ASSUME NEW j \in Jobs, CallOf[j] = c
             PROVE  ~running(j) /\ extent[j] = 0 /\ active_workers[j] = 0
  OBVIOUS
<1>1. PICK i \in 1..Len(CallJobs[c]) : CallJobs[c][i] = j
  BY CallAssumption DEF Holds
<1>2. ~running(j)
  <2>1. CASE i = idx[c] BY <1>1, <2>1 DEF OwnedJob
  <2>2. CASE i # idx[c]
    <3>1. i \in 1..(idx[c] - 1) BY <1>1, <2>2, CallAssumption, SMTT(30)
    <3> QED BY <1>1, <3>1 DEF IInv, JoinInv
  <2> QED BY <2>1, <2>2
<1> QED BY <1>2, SMTT(30) DEF running, IInv, TypeOK, JobsOK

\* The jobs of a call that has not begun are idle.
LEMMA IdleCall ==
  ASSUME Counting, IInv, NEW c \in Calls, pc[c] = "idle"
  PROVE  \A j \in Jobs : CallOf[j] = c =>
           /\ ~Holds(jobs, j) /\ active_workers[j] = 0
           /\ \A g \in Frames : cur[g] # j
<1> SUFFICES ASSUME NEW j \in Jobs, CallOf[j] = c
             PROVE  /\ ~Holds(jobs, j) /\ active_workers[j] = 0
                    /\ \A g \in Frames : cur[g] # j
  OBVIOUS
<1>1. ~Live(j) BY DEF Live
<1>2. ~Holds(jobs, j) BY <1>1 DEF IInv, StackHoldsPendingJobs
<1>3. active_workers[j] = 0 BY <1>1, SMTT(30) DEF IInv, JoinInv, running, TypeOK, JobsOK
<1> QED BY <1>2, <1>3, NoWorkers

\* The frames while a call is enqueued: the caller waits, the owner has the
\* mutex, workers that did not exist enter their loop, sleepers may be woken.
LEMMA EnqueuePC ==
  ASSUME Counting, IInv, NEW f \in Frames, halide_do_parallel_tasks(f),
         NEW c \in Calls, c = Step(f).call
  PROVE  /\ pc' \in [Frames -> PC] /\ pc'[f] = "calling" /\ pc'[c] = "head" /\ f # c
         /\ threads_created' \in threads_created..MAX_THREADS
         /\ target_a_team_size' \in Int /\ a_team_size' \in Int
         /\ \A g \in Frames : g # f /\ g # c =>
              \/ pc'[g] = pc[g]
              \/ pc[g] = "idle" /\ pc'[g] = "enter" /\ g \in Workers /\ g <= threads_created'
              \/ pc[g] = "sleepA" /\ pc'[g] = "wokenA"
              \/ pc[g] = "sleepB" /\ pc'[g] = "wokenB"
              \/ pc[g] = "sleepOwner" /\ pc'[g] = "wokenOwner"
<1>0. c \in Frames /\ c \notin Clients /\ c \notin Workers
  BY FrameAssumption DEF Frames, Loops
<1>1. pc[f] = "body" /\ pc[c] = "idle" /\ f # c
  BY DEF halide_do_parallel_tasks, AtStep
<1>t. pc \in [Frames -> PC] /\ threads_created \in 0..MAX_THREADS /\ MAX_THREADS \in Nat
      /\ a_team_size \in Int /\ workers_to_wake(c) \in Int
  BY FrameAssumption DEF IInv, TypeOK, QueueOK, FramesOK, Counting, WakeNumber
<1>2. PICK n \in threads_created..MAX_THREADS :
        /\ threads_created' = n
        /\ a_team_size' = a_team_size + (n - threads_created)
        /\ target_a_team_size' \in {n, workers_to_wake(c)}
        /\ \E C : pc' = [g \in Frames |-> Enqueued(f, c, n, C, g)]
  BY DEF halide_do_parallel_tasks
<1>3. PICK C : pc' = [g \in Frames |-> Enqueued(f, c, n, C, g)]
  BY <1>2
<1>4. \A g \in (threads_created + 1)..n : g \in Workers /\ pc[g] = "idle" /\ g # f /\ g # c
  BY <1>0, <1>1, <1>t, SMTT(30) DEF IInv, ControlInv, Workers
<1>5. /\ \A g \in Frames : Wake(C, g) \in PC
      /\ \A g \in Frames :
           \/ Wake(C, g) = pc[g]
           \/ pc[g] = "sleepA" /\ Wake(C, g) = "wokenA"
           \/ pc[g] = "sleepB" /\ Wake(C, g) = "wokenB"
           \/ pc[g] = "sleepOwner" /\ Wake(C, g) = "wokenOwner"
  BY <1>t DEF Wake, PC
<1>6. /\ pc'[f] = "calling" /\ pc'[c] = "head"
      /\ \A g \in Frames : g # f /\ g # c =>
           pc'[g] = IF g \in (threads_created + 1)..n THEN "enter" ELSE Wake(C, g)
  <2>1. \A g \in Frames : pc'[g] = Enqueued(f, c, n, C, g) BY <1>3
  <2>2. Enqueued(f, c, n, C, f) = "calling" BY <1>1, <1>4 DEF Enqueued
  <2>3. Enqueued(f, c, n, C, c) = "head" BY <1>1, <1>4 DEF Enqueued
  <2>4. ASSUME NEW g \in Frames, g # f, g # c
        PROVE  Enqueued(f, c, n, C, g) =
                 IF g \in (threads_created + 1)..n THEN "enter" ELSE Wake(C, g)
    BY <2>4 DEF Enqueued
  <2> QED BY <1>0, <2>1, <2>2, <2>3, <2>4
<1>7. \A g \in Frames : pc'[g] \in PC
  BY <1>5, <1>6 DEF PC
<1>8. pc' \in [Frames -> PC]
  BY <1>3, <1>7
<1>9. ASSUME NEW g \in Frames, g # f, g # c
      PROVE  \/ pc'[g] = pc[g]
             \/ pc[g] = "idle" /\ pc'[g] = "enter" /\ g \in Workers /\ g <= threads_created'
             \/ pc[g] = "sleepA" /\ pc'[g] = "wokenA"
             \/ pc[g] = "sleepB" /\ pc'[g] = "wokenB"
             \/ pc[g] = "sleepOwner" /\ pc'[g] = "wokenOwner"
  <2>1. CASE g \in (threads_created + 1)..n
    BY <1>2, <1>4, <1>6, <1>9, <2>1, SMTT(30)
  <2>2. CASE g \notin (threads_created + 1)..n
    BY <1>5, <1>6, <1>9, <2>2
  <2> QED BY <2>1, <2>2
<1>10. target_a_team_size' \in Int /\ a_team_size' \in Int
  BY <1>2, <1>t, SMTT(30)
<1> QED BY <1>1, <1>2, <1>6, <1>8, <1>9, <1>10

\* The next runtime call of the same iteration.
LEMMA NextStepInRange ==
  ASSUME IInv, NEW f \in Frames, UNCHANGED <<extent, min, cur>>,
         run' = NextStep(f) \/ run' = run, pc[f] \in InTask, pc'[f] \in InTask
  PROVE  /\ run' \in [Frames -> RunType]
         /\ f \in Loops => InRange(f)'
         /\ \A g \in Frames : g # f => run'[g] = run[g]
<1>1. run \in [Frames -> RunType]
  BY DEF IInv, TypeOK, FramesOK
<1>2. run'[f] = run[f] \/ run'[f] = [run[f] EXCEPT !.step = run[f].step + 1]
  BY <1>1 DEF NextStep
<1>3. run'[f] \in RunType
  BY <1>1, <1>2, FieldTypes, SMTT(30) DEF RunType
<1>4. /\ run' \in [Frames -> RunType]
      /\ \A g \in Frames : g # f => run'[g] = run[g]
  BY <1>1, <1>3 DEF NextStep
<1>5. /\ run'[f].min = run[f].min /\ run'[f].total = run[f].total
      /\ run'[f].done = run[f].done /\ run'[f].iters = run[f].iters
  BY <1>1, <1>2 DEF RunType
<1>6. ASSUME f \in Loops PROVE InRange(f)'
  <2>1. InRange(f)
    BY <1>6 DEF IInv, RangeInv
  <2> QED BY <1>5, <2>1 DEF InRange, InTask, Busy
<1> QED BY <1>4, <1>6

-----------------------------------------------------------------------------
(* Most steps only move a frame from one pc to another.                    *)

\* No job changes hands, no call begins or ends.
Calm ==
  /\ UNCHANGED <<jobs, extent, min, active_workers, cur, idx, caller, shutdown>>
  /\ \A c \in Calls : pc'[c] = "idle" <=> pc[c] = "idle"
  /\ \A f \in Frames : pc[f] = "calling" => pc'[f] = "calling"

\* A calm step, one which leaves the jobs, the stack, the calls and the
\* counters alone, preserves IInv when it keeps the mutex exclusive and every
\* frame in range.
LEMMA CalmStep ==
  ASSUME IInv, Calm, TypeOK', MutexInv', ControlInv', RangeInv'
  PROVE  IInv'
<1>1. \A j \in Jobs : Live(j)' <=> Live(j)
  BY CallAssumption DEF Live, Calm
<1>2. \A j \in Jobs : running(j)' <=> running(j)
  BY DEF running, Calm
<1>3. StackHoldsPendingJobs'
  BY <1>1 DEF IInv, StackHoldsPendingJobs, Calm
<1>4. ActiveWorkersCounted'
  BY DEF IInv, ActiveWorkersCounted, Calm
<1>5. NoDanglingJob'
  <2>1. \A f \in Frames : cur[f] # NULL => cur[f] \in Jobs
    BY DEF IInv, TypeOK, FramesOK
  <2> QED BY <1>1, <2>1 DEF IInv, NoDanglingJob, Calm
<1>6. JoinInv'
  <2>1. \A c \in Calls : idx'[c] \in 1..Len(CallJobs[c])
    BY DEF IInv, JoinInv, Calm
  <2>2. \A j \in Jobs : ~Live(j)' => ~running(j)'
    BY <1>1, <1>2 DEF IInv, JoinInv
  <2>3. \A c \in Calls : \A i \in 1..(idx'[c] - 1) : ~running(CallJobs[c][i])'
    BY DEF IInv, JoinInv, Calm, running
  <2>4. shutdown' => \A c \in Calls : pc'[c] = "idle"
    BY DEF IInv, JoinInv, Calm
  <2> QED BY <2>1, <2>2, <2>3, <2>4 DEF JoinInv
<1>7. CallerInv'
  BY DEF IInv, CallerInv, Calm
<1> QED BY <1>3, <1>4, <1>5, <1>6, <1>7 DEF IInv

\* ... and the range of what a frame works on changes with its own locals only.
LEMMA RangeKept ==
  ASSUME RangeInv, UNCHANGED <<extent, min, cur, run>>,
         \A f \in Loops : pc'[f] = pc[f] \/ pc'[f] \notin Busy
  PROVE  RangeInv'
<1>1. ASSUME NEW f \in Loops PROVE InRange(f)'
  <2>1. InRange(f) BY DEF RangeInv
  <2> QED BY <2>1 DEF InRange, Busy, InTask
<1> QED BY <1>1 DEF RangeInv

\* The frame that moves is in range when its new pc and run are.
LEMMA RangeMoved ==
  ASSUME RangeInv, NEW f \in Loops, UNCHANGED <<extent, min, cur>>, InRange(f)',
         \A g \in Loops : g # f => pc'[g] = pc[g] /\ run'[g] = run[g]
  PROVE  RangeInv'
<1>1. ASSUME NEW g \in Loops PROVE InRange(g)'
  <2>1. InRange(g) BY DEF RangeInv
  <2>2. CASE g = f BY <2>2
  <2>3. CASE g # f BY <2>1, <2>3 DEF InRange
  <2> QED BY <2>2, <2>3
<1> QED BY <1>1 DEF RangeInv

\* work::make_runnable takes no more than a semaphore has.
LEMMA MakeRunnableType ==
  ASSUME JobsOK, NEW j \in Jobs, NEW k, make_runnable(j, k)
  PROVE  value' \in [Sems -> Nat] /\ next_semaphore' \in [Jobs -> Nat \ {0}]
<1> DEFINE t == Task[j]
           n == next_semaphore[j]
<1>1. t.sems \in Seq(Sems) /\ t.count \in [Sems -> Nat] /\ n \in Nat \ {0}
  BY TaskAssumption DEF JobsOK
<1>2. k \in n..(Len(t.sems) + 1) /\ k \in Nat \ {0}
  BY <1>1, SMTT(30) DEF make_runnable
<1>3. ASSUME NEW s \in Sems PROVE value'[s] \in Nat
  <2>1. value'[s] = IF \E m \in n..(k - 1) : t.sems[m] = s
                    THEN value[s] - t.count[s] ELSE value[s]
    BY DEF make_runnable
  <2>2. (\E m \in n..(k - 1) : t.sems[m] = s) => value[s] >= t.count[s]
    BY DEF make_runnable
  <2>3. value[s] \in Nat BY DEF JobsOK
  <2>4. t.count[s] \in Nat BY <1>1
  <2>5. \A x, y \in Nat : x >= y => x - y \in Nat BY SMTT(30)
  <2> QED BY <2>1, <2>2, <2>3, <2>4, <2>5
<1>4. value' \in [Sems -> Nat]
  BY <1>3 DEF make_runnable
<1>5. NextSemaphore(j, k) \in Nat \ {0}
  BY <1>2, SMTT(30) DEF NextSemaphore
<1> QED BY <1>4, <1>5 DEF make_runnable, JobsOK

\* The jobs that owners have joined stay so when no job starts again.
LEMMA JoinKept ==
  ASSUME IInv, UNCHANGED <<idx, shutdown>>,
         \A j \in Jobs : (Live(j)' <=> Live(j)) /\ (running(j)' => running(j)),
         \A c \in Calls : pc[c] = "idle" => pc'[c] = "idle"
  PROVE  JoinInv'
<1>1. ASSUME NEW d \in Calls, NEW i \in 1..(idx[d] - 1) PROVE ~running(CallJobs[d][i])'
  <2>1. idx[d] \in 1..Len(CallJobs[d]) BY DEF IInv, JoinInv
  <2>2. CallJobs[d] \in Seq(Jobs) BY CallAssumption
  <2>3. PICK j \in Jobs : j = CallJobs[d][i] BY <2>1, <2>2, SMTT(30)
  <2>4. ~running(j) BY <2>3 DEF IInv, JoinInv
  <2>5. ~running(j)' BY <2>3, <2>4
  <2> QED BY <2>3, <2>5 DEF running
<1>2. \A j \in Jobs : ~Live(j)' => ~running(j)' BY DEF IInv, JoinInv
<1> QED BY <1>1, <1>2 DEF IInv, JoinInv

\* clamp_num_threads returns a count between 1 and MAX_THREADS.
LEMMA ClampType == ASSUME NEW n \in Int PROVE clamp_num_threads(n) \in 1..MAX_THREADS
  BY FrameAssumption, SMTT(30) DEF clamp_num_threads

\* Reservations are integers.
LEMMA ReserveType ==
  ASSUME IInv, NEW j \in Jobs, NEW d \in Int, Reserve(j, d)
  PROVE  threads_reserved' \in Int /\ job_reserved' \in [Jobs -> Int]
<1>1. Parent(j) \in Jobs \cup {NULL} /\ Task[j].min_threads \in Nat
  BY CallAssumption, TaskAssumption DEF Parent
<1>2. threads_reserved \in Int /\ job_reserved \in [Jobs -> Int]
  BY DEF IInv, TypeOK, QueueOK, JobsOK
<1>3. d * Task[j].min_threads \in Int
  BY <1>1, SMTT(30)
<1> QED BY <1>1, <1>2, <1>3, SMTT(30) DEF Reserve

\* A frame begins to work on a job.
LEMMA CountUp ==
  ASSUME Counting, IInv, NEW f \in Frames, NEW j \in Jobs, cur[f] = NULL,
         cur' = [cur EXCEPT ![f] = j], active_workers' = [active_workers EXCEPT ![j] = @ + 1]
  PROVE  ActiveWorkersCounted'
<1> SUFFICES ASSUME NEW i \in Jobs
             PROVE  active_workers'[i] = Cardinality({g \in Frames : cur'[g] = i})
  BY DEF ActiveWorkersCounted
<1> DEFINE W == {g \in Frames : cur[g] = i}
<1>1. active_workers[i] = Cardinality(W) /\ cur \in [Frames -> Jobs \cup {NULL}]
      /\ active_workers \in [Jobs -> Nat]
  BY DEF IInv, ActiveWorkersCounted, TypeOK, FramesOK, JobsOK
<1>2. CASE i = j
  <2>1. {g \in Frames : cur'[g] = i} = W \cup {f} BY <1>1, <1>2
  <2>2. IsFiniteSet(W) /\ f \notin W BY FrameAssumption DEF Counting, FiniteSubsets, FramesFinite
  <2>3. Cardinality(W \cup {f}) = Cardinality(W) + 1 BY <2>2 DEF Counting, OneMore
  <2> QED BY <1>1, <1>2, <2>1, <2>3
<1>3. CASE i # j
  <2>1. {g \in Frames : cur'[g] = i} = W BY <1>1, <1>3, FrameAssumption
  <2> QED BY <1>1, <1>3, <2>1
<1> QED BY <1>2, <1>3

\* ... and ends.
LEMMA CountDown ==
  ASSUME Counting, IInv, NEW f \in Frames, NEW j \in Jobs, cur[f] = j,
         cur' = [cur EXCEPT ![f] = NULL], active_workers' = [active_workers EXCEPT ![j] = @ - 1]
  PROVE  ActiveWorkersCounted' /\ active_workers[j] >= 1
<1>0. active_workers[j] # 0 /\ active_workers \in [Jobs -> Nat]
  BY NoWorkers DEF IInv, TypeOK, JobsOK
<1> SUFFICES ASSUME NEW i \in Jobs
             PROVE  active_workers'[i] = Cardinality({g \in Frames : cur'[g] = i})
  BY <1>0, SMTT(30) DEF ActiveWorkersCounted
<1> DEFINE W == {g \in Frames : cur[g] = i}
<1>1. active_workers[i] = Cardinality(W) /\ cur \in [Frames -> Jobs \cup {NULL}]
  BY DEF IInv, ActiveWorkersCounted, TypeOK, FramesOK
<1>2. CASE i = j
  <2>1. {g \in Frames : cur'[g] = i} = W \ {f} BY <1>1, <1>2, FrameAssumption
  <2>2. IsFiniteSet(W) /\ f \in W BY <1>2 DEF Counting, FiniteSubsets, FramesFinite
  <2>3. Cardinality(W \ {f}) = Cardinality(W) - 1 BY <2>2 DEF Counting, OneLess
  <2> QED BY <1>0, <1>1, <1>2, <2>1, <2>3
<1>3. CASE i # j
  <2>1. {g \in Frames : cur'[g] = i} = W BY <1>1, <1>3, FrameAssumption
  <2> QED BY <1>0, <1>1, <1>3, <2>1
<1> QED BY <1>2, <1>3

\* Setting the shutdown flag and waking all threads preserves IInv.
LEMMA ShutdownInv == ASSUME IInv, halide_shutdown_thread_pool PROVE IInv'
<1> USE DEF halide_shutdown_thread_pool, sleepVars, jobVars, semVars, frameVars
<1>1. QueueOK' /\ JobsOK'
  BY DEF IInv, TypeOK, QueueOK, JobsOK
<1>2. /\ pc' \in [Frames -> PC]
      /\ \A f \in Frames : \/ pc'[f] = pc[f]
                           \/ pc[f] = "sleepA" /\ pc'[f] = "wokenA"
                           \/ pc[f] = "sleepB" /\ pc'[f] = "wokenB"
                           \/ pc[f] = "sleepOwner" /\ pc'[f] = "wokenOwner"
  BY BroadcastPC DEF IInv, TypeOK, FramesOK
<1>3. FramesOK'
  BY <1>2 DEF IInv, TypeOK, FramesOK
<1>4. \A c \in Calls : pc'[c] = "idle"
  BY <1>2 DEF Frames, Loops
<1>5. MutexInv' /\ ControlInv'
  BY <1>2 DEF IInv, MutexInv, ControlInv, Busy, WorkerPC, CallPC, Loops, Frames
<1>6. RangeInv'
  BY <1>2, RangeKept DEF IInv, Busy, Frames
<1>7. CallerInv'
  BY <1>4 DEF CallerInv
<1>8. \A j \in Jobs : (Live(j)' <=> Live(j)) /\ (running(j)' <=> running(j))
  BY <1>4, CallAssumption DEF Live, running
<1>9. JoinInv'
  BY <1>4, <1>8, CallAssumption DEF IInv, JoinInv, running
<1>10. StackHoldsPendingJobs' /\ ActiveWorkersCounted'
  BY <1>8 DEF IInv, StackHoldsPendingJobs, ActiveWorkersCounted
<1>11. NoDanglingJob'
  BY <1>8, QuietPool DEF IInv, NoDanglingJob
<1> QED BY <1>1, <1>3, <1>5, <1>6, <1>7, <1>9, <1>10, <1>11 DEF IInv, TypeOK

\* Joining the worker threads and resetting the queue preserves IInv.
LEMMA JoinWorkersInv == ASSUME IInv, JoinWorkers PROVE IInv'
<1> USE DEF JoinWorkers, semVars, frameVars
<1>0. (\A c \in Calls : pc[c] = "idle") /\ jobs = <<>> /\ \A f \in Frames : cur[f] = NULL
  BY QuietPool DEF IInv, JoinInv
<1>1. QueueOK'
  <2>1. shutdown' \in BOOLEAN /\ initialized' \in BOOLEAN
    OBVIOUS
  <2>2. threads_created' \in 0..MAX_THREADS /\ jobs' \in Seq(Jobs)
    BY FrameAssumption, SMTT(30)
  <2> QED BY <2>1, <2>2, SMTT(30) DEF IInv, TypeOK, QueueOK
<1>2. JobsOK'
  BY DEF IInv, TypeOK, JobsOK
<1>3. /\ pc' \in [Frames -> PC]
      /\ \A f \in Frames : pc'[f] = IF pc[f] = "exited" THEN "idle" ELSE pc[f]
  BY DEF IInv, TypeOK, FramesOK, PC
<1>4. FramesOK'
  BY <1>3 DEF IInv, TypeOK, FramesOK
<1>5. \A c \in Calls : pc'[c] = "idle"
  BY <1>0, <1>3 DEF Frames, Loops
<1>6. MutexInv' /\ ControlInv'
  <2>1. MutexInv'
    BY <1>3 DEF IInv, MutexInv
  <2>2. \A w \in Workers : pc'[w] = "idle"
    BY <1>3, SMTT(30) DEF IInv, ControlInv, TypeOK, QueueOK, Workers, Loops, Frames
  <2>3. \A k \in Clients : pc'[k] = pc[k] /\ cur'[k] = cur[k]
    BY <1>3 DEF IInv, ControlInv, Frames
  <2>4. \A f \in Loops : cur'[f] = NULL /\ pc'[f] = "idle"
    BY <1>0, <1>5, <2>2 DEF Loops, Frames
  <2> QED BY <1>5, <2>1, <2>2, <2>3, <2>4 DEF IInv, ControlInv, WorkerPC, CallPC, Busy
<1>7. RangeInv'
  BY <1>3, RangeKept DEF IInv, Busy, Frames
<1>8. CallerInv'
  BY <1>5 DEF CallerInv
<1>9. \A j \in Jobs : (Live(j)' <=> Live(j)) /\ (running(j)' <=> running(j))
  BY <1>0, <1>5, CallAssumption DEF Live, running
<1>10. JoinInv'
  BY <1>5, <1>9, CallAssumption DEF IInv, JoinInv, running
<1>11. StackHoldsPendingJobs' /\ ActiveWorkersCounted'
  BY <1>0, <1>9 DEF IInv, StackHoldsPendingJobs, ActiveWorkersCounted
<1>12. NoDanglingJob'
  BY <1>0, <1>9 DEF IInv, NoDanglingJob
<1> QED BY <1>1, <1>2, <1>4, <1>6, <1>7, <1>8, <1>10, <1>11, <1>12 DEF IInv, TypeOK

\* A call moving on to its next job after one is done preserves IInv.
LEMMA JoinNextInv == ASSUME IInv, NEW c \in Calls, JoinNext(c) PROVE IInv'
<1> USE DEF JoinNext, AtHead, queueVars, sleepVars, jobVars, semVars
<1>1. QueueOK' /\ JobsOK'
  BY DEF IInv, TypeOK, QueueOK, JobsOK
<1>2. FramesOK'
  BY JoinedType, SMTT(30) DEF IInv, TypeOK, FramesOK
<1>3. MutexInv' /\ ControlInv' /\ CallerInv'
  BY DEF IInv, MutexInv, ControlInv, CallerInv
<1>4. RangeInv'
  BY RangeKept DEF IInv
<1>5. \A j \in Jobs : (Live(j)' <=> Live(j)) /\ (running(j)' <=> running(j))
  BY DEF Live, running
<1>6. StackHoldsPendingJobs' /\ ActiveWorkersCounted'
  BY <1>5 DEF IInv, StackHoldsPendingJobs, ActiveWorkersCounted
<1>7. NoDanglingJob'
  BY <1>5 DEF IInv, NoDanglingJob, TypeOK, FramesOK
<1>8. JoinInv'
  <2>1. ASSUME NEW d \in Calls PROVE idx'[d] \in 1..Len(CallJobs[d])
    <3>1. idx[d] \in 1..Len(CallJobs[d]) /\ CallJobs[d] \in Seq(Jobs)
      BY CallAssumption DEF IInv, JoinInv
    <3>2. idx'[d] = IF d = c THEN idx[d] + 1 ELSE idx[d]
      BY DEF IInv, TypeOK, FramesOK
    <3>3. idx[c] < Len(CallJobs[c])
      OBVIOUS
    <3> HIDE DEF JoinNext
    <3> QED BY <3>1, <3>2, <3>3, SMTT(30)
  <2>2. ASSUME NEW d \in Calls, NEW i \in 1..(idx'[d] - 1)
        PROVE  ~running(CallJobs[d][i])'
    <3>1. CASE d = c /\ i = idx[c]
      BY <3>1 DEF OwnedJob, running
    <3>2. CASE ~(d = c /\ i = idx[c])
      <4>1. i \in 1..(idx[d] - 1)
        BY <3>2, SMTT(30) DEF IInv, TypeOK, FramesOK
      <4> QED BY <4>1 DEF IInv, JoinInv, running
    <3> QED BY <3>1, <3>2
  <2> QED BY <1>5, <2>1, <2>2 DEF IInv, JoinInv
<1> QED BY <1>1, <1>2, <1>3, <1>4, <1>6, <1>7, <1>8 DEF IInv, TypeOK

-----------------------------------------------------------------------------
(* Calls return, jobs are dropped and started.                             *)

\* A call returning to the iteration it was made from preserves IInv.
LEMMA ReturnInv == ASSUME Counting, IInv, NEW c \in Calls, Return(c) PROVE IInv'
<1> USE DEF AtHead, queueVars, sleepVars, jobVars, semVars
<1>f. PICK f \in Frames : f = caller[c] /\ pc[f] = "calling" /\ pc[c] = "head"
  BY DEF Return, IInv, CallerInv
<1>0. f # c /\ c \in Loops /\ c \in Frames /\ c \notin Clients /\ c \notin Workers
  BY <1>f, FrameAssumption DEF Loops, Frames
<1>1. QueueOK' /\ JobsOK'
  BY DEF Return, IInv, TypeOK, QueueOK, JobsOK
<1>2. PICK q \in {"failed", "body"} : /\ pc' = [pc EXCEPT ![c] = "idle", ![f] = q]
                                      /\ f \in Clients => q = "body"
  BY <1>f, FrameAssumption DEF Return
<1>3. /\ pc' \in [Frames -> PC] /\ pc'[c] = "idle" /\ pc'[f] = q
      /\ \A g \in Frames : g # c /\ g # f => pc'[g] = pc[g]
  <2>1. pc \in [Frames -> PC] BY DEF IInv, TypeOK, FramesOK
  <2>2. [pc EXCEPT ![c] = "idle"] \in [Frames -> PC] BY <2>1 DEF PC
  <2> QED BY <1>0, <1>2, <2>1, <2>2 DEF PC
<1>4. run' = NextStep(f) /\ pc[f] \in InTask /\ pc'[f] \in InTask
  BY <1>f, <1>0, <1>3 DEF Return, NextStep, InTask
<1>5. /\ run' \in [Frames -> RunType]
      /\ f \in Loops => InRange(f)'
      /\ \A g \in Frames : g # f => run'[g] = run[g]
  <2>1. UNCHANGED <<extent, min, cur>> BY DEF Return
  <2> QED BY <1>4, <2>1, NextStepInRange
<1>6. FramesOK'
  <2>1. status' \in [Calls -> {0, 1}]
    BY JoinedType DEF Return, IInv, TypeOK, FramesOK
  <2> QED BY <1>3, <1>5, <2>1 DEF Return, IInv, TypeOK, FramesOK
<1>7. MutexInv'
  BY <1>f, <1>0, <1>2, <1>3, FrameAssumption DEF Return, IInv, MutexInv
<1>8. ControlInv'
  BY <1>f, <1>0, <1>2, <1>3, FrameAssumption
  DEF Return, IInv, ControlInv, Busy, WorkerPC, CallPC, Loops, Frames
<1>9. RangeInv'
  <2>1. ASSUME NEW g \in Loops PROVE InRange(g)'
    <3>1. CASE g = f BY <1>5, <3>1
    <3>2. CASE g = c BY <1>3, <3>2 DEF InRange, InTask, Busy
    <3>3. CASE g # f /\ g # c
      <4>1. InRange(g) BY DEF IInv, RangeInv
      <4> QED BY <1>3, <1>5, <3>3, <4>1 DEF Return, InRange, Frames
    <3> QED BY <3>1, <3>2, <3>3
  <2> QED BY <2>1 DEF Return, IInv, RangeInv
<1>10. \A d \in Calls : d # c => (pc'[d] = "idle" <=> pc[d] = "idle")
  BY <1>f, <1>2, <1>3 DEF Frames, Loops
<1>11. CallerInv'
  <2>1. \A d \in Calls : d # c /\ pc[d] # "idle" => caller[d] # f
    BY <1>f DEF IInv, CallerInv
  <2>2. \A d \in Calls : pc'[d] # "idle" => d # c /\ pc[d] # "idle"
    BY <1>3, <1>10
  <2>3. \A d \in Calls : pc'[d] # "idle" => caller[d] # c
    BY <1>f, <2>2 DEF IInv, CallerInv
  <2>4. \A d \in Calls : pc'[d] # "idle" =>
          caller[d] \in Frames /\ pc'[caller[d]] = "calling"
    BY <1>3, <2>1, <2>2, <2>3 DEF IInv, CallerInv
  <2>5. UNCHANGED <<caller, cur>> BY DEF Return
  <2> QED BY <2>2, <2>4, <2>5, SMTT(30) DEF IInv, CallerInv
<1>12. \A j \in Jobs : CallOf[j] = c => ~running(j) /\ extent[j] = 0 /\ active_workers[j] = 0
  BY AllJoined DEF Return
<1>13. \A j \in Jobs : running(j)' <=> running(j)
  BY DEF Return, running
<1>14. \A j \in Jobs : Live(j)' <=> Live(j) /\ CallOf[j] # c
  BY <1>3, <1>10, CallAssumption DEF Live
<1>15. StackHoldsPendingJobs'
  <2>1. UNCHANGED <<jobs, extent, active_workers>> BY DEF Return
  <2>2. \A j \in Jobs : Holds(jobs, j) => CallOf[j] # c
    BY <1>12, SMTT(30) DEF IInv, StackHoldsPendingJobs
  <2> QED BY <1>14, <2>1, <2>2 DEF IInv, StackHoldsPendingJobs
<1>16. ActiveWorkersCounted'
  BY DEF Return, IInv, ActiveWorkersCounted
<1>17. NoDanglingJob'
  <2>1. ASSUME NEW g \in Frames, cur'[g] # NULL PROVE Live(cur[g])'
    <3>1. PICK j \in Jobs : j = cur[g] /\ j = cur'[g]
      BY <2>1 DEF Return, IInv, TypeOK, FramesOK
    <3>2. active_workers[j] # 0 BY <3>1, NoWorkers
    <3>3. Live(j)'
      BY <1>12, <1>14, <2>1, <3>1, <3>2, FrameAssumption DEF IInv, NoDanglingJob
    <3> QED BY <3>1, <3>3 DEF Live
  <2> QED BY <1>14, <2>1 DEF Return, IInv, NoDanglingJob
<1>18. JoinInv'
  <2>1. \A d \in Calls : \A i \in 1..(idx'[d] - 1) : ~running(CallJobs[d][i])'
    BY DEF Return, IInv, JoinInv, running
  <2>2. shutdown' => \A d \in Calls : pc'[d] = "idle"
    BY <1>3, <1>10 DEF Return, IInv, JoinInv
  <2> QED BY <1>12, <1>13, <1>14, <2>1, <2>2 DEF Return, IInv, JoinInv
<1> QED BY <1>1, <1>6, <1>7, <1>8, <1>9, <1>11, <1>15, <1>16, <1>17, <1>18 DEF IInv, TypeOK

\* An owner taking its failed job off the stack preserves IInv.
LEMMA DropFailedInv == ASSUME Counting, IInv, NEW c \in Calls, DropFailed(c) PROVE IInv'
<1> USE DEF AtHead, queueVars, sleepVars, semVars, frameVars
<1>j. PICK j \in Jobs : j = OwnedJob(c) /\ active_workers[j] = 0
  BY OwnedJobType DEF DropFailed
<1>k. PICK k \in 1..Len(jobs) : jobs[k] = j /\ jobs' = RemoveJob(jobs, k)
  BY <1>j DEF DropFailed
<1>e. extent' = [extent EXCEPT ![j] = 0]
  BY <1>j DEF DropFailed
<1>1. /\ jobs' \in Seq(Jobs) /\ Distinct(jobs')
      /\ \A i \in Jobs : Holds(jobs', i) <=> Holds(jobs, i) /\ i # j
  BY <1>k, RemoveJobStack DEF IInv, TypeOK, QueueOK, StackHoldsPendingJobs
<1>2. QueueOK' /\ JobsOK' /\ FramesOK'
  BY <1>1, <1>e DEF DropFailed, IInv, TypeOK, QueueOK, JobsOK, FramesOK
<1>3. MutexInv' /\ ControlInv' /\ CallerInv' /\ ActiveWorkersCounted'
  <2>1. UNCHANGED <<mutex, threads_created, pc, cur, caller, active_workers>>
    BY DEF DropFailed
  <2>2. MutexInv' BY <2>1 DEF IInv, MutexInv
  <2>3. ControlInv' BY <2>1 DEF IInv, ControlInv
  <2>4. CallerInv' BY <2>1 DEF IInv, CallerInv
  <2>5. ActiveWorkersCounted' BY <2>1 DEF IInv, ActiveWorkersCounted
  <2> QED BY <2>2, <2>3, <2>4, <2>5
<1>4. RangeInv'
  <2>1. ASSUME NEW g \in Loops PROVE InRange(g)'
    <3>1. InRange(g) BY DEF IInv, RangeInv
    <3>2. cur[g] # j BY <1>j, NoWorkers DEF Frames
    <3>3. extent'[cur[g]] = extent[cur[g]]
      BY <1>e, <3>2, SMTT(30) DEF IInv, TypeOK, JobsOK
    <3> QED BY <3>1, <3>3 DEF DropFailed, InRange
  <2>2. ASSUME NEW i \in Jobs PROVE min'[i] + extent'[i] <= Task[i].extent
    <3>1. min[i] + extent[i] <= Task[i].extent BY DEF IInv, RangeInv
    <3>2. min' = min BY DEF DropFailed
    <3>3. extent'[i] \in {0, extent[i]} BY <1>e DEF IInv, TypeOK, JobsOK
    <3>4. min[i] \in Nat /\ extent[i] \in Nat /\ Task[i].extent \in Nat
      BY TaskAssumption DEF IInv, TypeOK, JobsOK
    <3> QED BY <3>1, <3>2, <3>3, <3>4, SMTT(30)
  <2> QED BY <2>1, <2>2 DEF DropFailed, IInv, RangeInv
<1>5. \A i \in Jobs : (Live(i)' <=> Live(i)) /\ (running(i)' => running(i))
  BY <1>e DEF DropFailed, Live, running, IInv, TypeOK, JobsOK
<1>6. StackHoldsPendingJobs'
  <2>1. StackHoldsPendingJobs /\ extent \in [Jobs -> Nat] BY DEF IInv, TypeOK, JobsOK
  <2>2. active_workers' = active_workers BY DEF DropFailed
  <2> QED BY <1>1, <1>5, <1>e, <2>1, <2>2, SMTT(30) DEF StackHoldsPendingJobs
<1>7. NoDanglingJob'
  BY DEF DropFailed, IInv, NoDanglingJob, Live
<1>8. JoinInv'
  <2>1. UNCHANGED <<idx, shutdown, pc>> BY DEF DropFailed
  <2> QED BY <1>5, <2>1, JoinKept
<1> QED BY <1>2, <1>3, <1>4, <1>6, <1>7, <1>8 DEF IInv, TypeOK

\* A frame starts a job it has found on the stack.
LEMMA StartJob ==
  ASSUME Counting, IInv, TypeOK', NEW f \in Loops, NEW j \in Jobs, NEW q \in {"claim", "body"},
         Live(j), extent[j] > 0, Serial(j) => active_workers[j] = 0,
         mutex = f, pc[f] = "scan", mutex' = NULL,
         pc' = [pc EXCEPT ![f] = q], cur' = [cur EXCEPT ![f] = j],
         active_workers' = [active_workers EXCEPT ![j] = @ + 1],
         UNCHANGED <<threads_created, idx, caller, shutdown>>,
         \A i \in Jobs : i # j => extent'[i] = extent[i] /\ min'[i] = min[i],
         Serial(j) => UNCHANGED <<extent, min>>,
         min'[j] + extent'[j] <= Task[j].extent,
         InRange(f)', \A g \in Loops : g # f => run'[g] = run[g],
         StackHoldsPendingJobs'
  PROVE  IInv'
<1>0. f \in Frames /\ f \notin Clients /\ cur[f] = NULL
  BY FrameAssumption DEF Frames, IInv, ControlInv, Busy
<1>t. pc \in [Frames -> PC] /\ cur \in [Frames -> Jobs \cup {NULL}]
      /\ active_workers \in [Jobs -> Nat] /\ j # NULL
  BY FrameAssumption DEF IInv, TypeOK, FramesOK, JobsOK
<1>1. MutexInv'
  BY <1>0, <1>t, FrameAssumption DEF IInv, MutexInv
<1>2. ControlInv'
  BY <1>0, <1>t, FrameAssumption DEF IInv, ControlInv, Loops, Frames, Busy, WorkerPC, CallPC
<1>3. ActiveWorkersCounted'
  BY <1>0, CountUp
<1>4. CallerInv'
  <2>1. \A c \in Calls : pc'[c] # "idle" => pc[c] # "idle" BY <1>0, <1>t DEF Frames, Loops
  <2>2. \A g \in Frames : pc[g] = "calling" => pc'[g] = "calling" /\ cur'[g] = cur[g]
    BY <1>0, <1>t
  <2>3. CallerInv /\ caller' = caller BY DEF IInv
  <2> QED BY <2>1, <2>2, <2>3, SMTT(30) DEF CallerInv
<1>5. \A i \in Jobs : (Live(i)' <=> Live(i)) /\ active_workers'[i] >= active_workers[i]
                      /\ (running(i)' => running(i))
  <2>1. \A i \in Jobs : Live(i)' <=> Live(i)
    BY <1>0, <1>t, CallAssumption DEF Live, Frames, Loops
  <2>2. \A i \in Jobs : active_workers'[i] >= active_workers[i] BY <1>t, SMTT(30)
  <2>3. running(j) BY DEF running
  <2>4. \A i \in Jobs : i # j => (running(i)' => running(i)) BY <1>t DEF running
  <2> QED BY <2>1, <2>2, <2>3, <2>4
<1>6. NoDanglingJob'
  <2>1. \A g \in Frames : cur'[g] # NULL => cur'[g] \in Jobs /\ Live(cur'[g])
    BY <1>0, <1>t DEF IInv, NoDanglingJob
  <2>2. ASSUME NEW g \in Frames, cur'[g] # NULL PROVE Live(cur[g])'
    <3>1. PICK i \in Jobs : i = cur'[g] /\ Live(i) BY <2>1, <2>2
    <3>2. Live(i)' BY <1>5, <3>1
    <3> QED BY <3>1, <3>2 DEF Live
  <2>3. ASSUME NEW i \in Jobs, Live(i)', Parent(i) # NULL PROVE active_workers'[Parent(i)] > 0
    <3>1. PICK p \in Jobs : p = Parent(i) BY <2>3, CallAssumption, SMTT(30) DEF Parent
    <3>2. Live(i) BY <1>5, <2>3
    <3>3. active_workers[p] > 0 BY <2>3, <3>1, <3>2 DEF IInv, NoDanglingJob
    <3>4. active_workers[p] \in Nat /\ active_workers'[p] \in {active_workers[p], active_workers[p] + 1}
      BY <1>t
    <3> QED BY <3>1, <3>3, <3>4, SMTT(30)
  <2> QED BY <2>2, <2>3 DEF NoDanglingJob, Parent
<1>7. JoinInv'
  <2>1. \A c \in Calls : pc[c] = "idle" => pc'[c] = "idle" BY <1>0, <1>t DEF Frames, Loops
  <2> QED BY <1>5, <2>1, JoinKept
<1>8. RangeInv'
  <2>0. \A g \in Loops : g # f /\ cur[g] = j => ~Serial(j)
    BY NoWorkers DEF Frames
  <2>1. ASSUME NEW g \in Loops PROVE InRange(g)'
    <3>1. CASE g = f BY <3>1
    <3>2. CASE g # f
      <4>1. InRange(g) /\ pc'[g] = pc[g] /\ cur'[g] = cur[g] /\ run'[g] = run[g]
        BY <1>0, <1>t, <3>2 DEF IInv, RangeInv, Frames
      <4>2. cur[g] \in Jobs /\ Serial(cur[g]) =>
              min'[cur[g]] = min[cur[g]] /\ extent'[cur[g]] = extent[cur[g]]
        BY <2>0, <3>2
      <4>3. pc[g] \in Busy => cur[g] \in Jobs
        BY <1>t DEF IInv, ControlInv, Frames
      <4> QED BY <4>1, <4>2, <4>3 DEF InRange
    <3> QED BY <3>1, <3>2
  <2>2. \A i \in Jobs : min'[i] + extent'[i] <= Task[i].extent
    BY DEF IInv, RangeInv
  <2>3. \A g, h \in Loops : cur'[g] # NULL /\ cur'[g] = cur'[h] /\ Serial(cur'[g]) => g = h
    BY <1>0, <1>t, <2>0 DEF IInv, RangeInv, Frames
  <2> QED BY <2>1, <2>2, <2>3 DEF RangeInv, Serial
<1> QED BY <1>1, <1>2, <1>3, <1>4, <1>6, <1>7, <1>8 DEF IInv

\* Taking a serial job off the stack to run it preserves IInv.
LEMMA StartSerialInv == ASSUME Counting, IInv, NEW f \in Loops, StartSerial(f) PROVE IInv'
<1>1. PICK k \in 1..Len(jobs) : k = cursor[f] /\ jobs[k] \in Jobs
  BY AtScanJob DEF StartSerial
<1>2. PICK j \in Jobs : j = jobs[k]
  BY <1>1
<1>a. /\ mutex = f /\ pc[f] = "scan" /\ can_add_worker(j) /\ Serial(j)
      /\ make_runnable(j, Acquires(j) + 1)
      /\ active_workers' = [active_workers EXCEPT ![j] = @ + 1]
      /\ Reserve(j, 1)
      /\ jobs' = RemoveJob(jobs, k)
      /\ mutex' = NULL
      /\ cur' = [cur EXCEPT ![f] = j]
      /\ run' = [run EXCEPT ![f] = NewRun(min[j])]
      /\ pc' = [pc EXCEPT ![f] = "claim"]
      /\ UNCHANGED <<queueVars, sleepVars, extent, min, exit_status,
                     cursor, idx, caller, status>>
  BY <1>1, <1>2 DEF StartSerial, AtScan, CanStart
<1>b. /\ Live(j) /\ extent[j] > 0 /\ active_workers[j] = 0
  <2>1. Holds(jobs, j) BY <1>2 DEF Holds
  <2> QED BY <1>a, <2>1 DEF IInv, StackHoldsPendingJobs
<1>t. f \in Frames /\ pc \in [Frames -> PC] /\ cur \in [Frames -> Jobs \cup {NULL}]
      /\ run \in [Frames -> RunType] /\ active_workers \in [Jobs -> Nat]
      /\ extent \in [Jobs -> Nat] /\ min \in [Jobs -> Nat] /\ jobs \in Seq(Jobs)
  BY DEF IInv, TypeOK, FramesOK, JobsOK, QueueOK, Frames
<1>w. active_workers' = [active_workers EXCEPT ![j] = @ + 1] /\ active_workers \in [Jobs -> Nat]
  BY <1>a, <1>t
<1>n. NewRun(min[j]) \in RunType /\ NewRun(min[j]).min = min[j] /\ NewRun(min[j]).total = 0
      /\ NewRun(min[j]).iters = 1 /\ NewRun(min[j]).done = 0
  BY <1>t, NewRunFields
<1>s. /\ jobs' \in Seq(Jobs) /\ Distinct(jobs')
      /\ \A i \in Jobs : Holds(jobs', i) <=> Holds(jobs, i) /\ i # j
  BY <1>a, <1>2, RemoveJobStack DEF IInv, TypeOK, QueueOK, StackHoldsPendingJobs
<1>3. QueueOK'
  <2>1. QueueOK /\ mutex' = NULL /\ UNCHANGED <<queueVars, sleepVars>>
    BY <1>a DEF IInv, TypeOK
  <2>2. threads_reserved' \in Int BY <1>a, ReserveType, SMTT(30)
  <2> QED BY <1>s, <2>1, <2>2 DEF QueueOK, queueVars, sleepVars
<1>4. JobsOK'
  <2>1. value' \in [Sems -> Nat] /\ next_semaphore' \in [Jobs -> Nat \ {0}]
    BY <1>a, MakeRunnableType DEF IInv, TypeOK
  <2>2. job_reserved' \in [Jobs -> Int] BY <1>a, ReserveType, SMTT(30)
  <2>3. active_workers' \in [Jobs -> Nat] BY <1>w, SMTT(30)
  <2>4. UNCHANGED <<extent, min, exit_status, owner_is_sleeping>> BY <1>a DEF sleepVars
  <2> QED BY <2>1, <2>2, <2>3, <2>4 DEF IInv, TypeOK, JobsOK
<1>5. FramesOK'
  BY <1>a, <1>t, <1>n DEF IInv, TypeOK, FramesOK, PC
<1>6. InRange(f)'
  <2>1. pc'[f] = "claim" /\ cur'[f] = j /\ run'[f] = NewRun(min[j]) BY <1>a, <1>t
  <2>2. Serial(j) /\ min' = min /\ extent' = extent /\ extent[j] \in Nat \ {0}
    BY <1>a, <1>b, <1>t, SMTT(30)
  <2>3. run'[f].min = min'[j] /\ run'[f].total = 0 /\ run'[f].iters = 1 /\ run'[f].done = 0
    BY <1>n, <2>1, <2>2
  <2>4. 0 <= extent'[j] /\ 0 + 1 <= extent'[j] BY <2>2, SMTT(30)
  <2>5. Serial(cur'[f]) /\ min'[cur'[f]] = min'[j] /\ extent'[cur'[f]] = extent'[j]
    BY <2>1, <2>2
  <2> QED BY <2>1, <2>3, <2>4, <2>5 DEF InRange, Busy, InTask, Serial
<1>7. StackHoldsPendingJobs'
  <2>1. \A i \in Jobs : Live(i)' <=> Live(i)
    BY <1>a, <1>t, CallAssumption DEF Live, Frames, Loops
  <2>2. StackHoldsPendingJobs BY DEF IInv
  <2>3. extent' = extent /\ Serial(j) BY <1>a
  <2> QED BY <1>b, <1>s, <1>w, <2>1, <2>2, <2>3, SMTT(30) DEF StackHoldsPendingJobs
<1>8. min'[j] + extent'[j] <= Task[j].extent
  BY <1>a DEF IInv, RangeInv
<1> QED BY <1>a, <1>b, <1>t, <1>3, <1>4, <1>5, <1>6, <1>7, <1>8, StartJob
    DEF TypeOK, queueVars, Frames

\* Taking one iteration of a parallel job preserves IInv.
LEMMA StartParallelInv == ASSUME Counting, IInv, NEW f \in Loops, StartParallel(f) PROVE IInv'
<1>1. PICK k \in 1..Len(jobs) : k = cursor[f] /\ jobs[k] \in Jobs
  BY AtScanJob DEF StartParallel
<1>2. PICK j \in Jobs : j = jobs[k]
  BY <1>1
<1>a. /\ mutex = f /\ pc[f] = "scan" /\ ~Serial(j)
      /\ make_runnable(j, Acquires(j) + 1)
      /\ active_workers' = [active_workers EXCEPT ![j] = @ + 1]
      /\ Reserve(j, 1)
      /\ min' = [min EXCEPT ![j] = @ + 1]
      /\ extent' = [extent EXCEPT ![j] = @ - 1]
      /\ jobs' = IF LastIteration(j) THEN RemoveJob(jobs, k) ELSE jobs
      /\ mutex' = NULL
      /\ cur' = [cur EXCEPT ![f] = j]
      /\ run' = [run EXCEPT ![f] = NewRun(min[j])]
      /\ pc' = [pc EXCEPT ![f] = "body"]
      /\ UNCHANGED <<queueVars, sleepVars, exit_status, cursor, idx, caller, status>>
  BY <1>1, <1>2 DEF StartParallel, AtScan
<1>e. min' = [min EXCEPT ![j] = @ + 1] /\ extent' = [extent EXCEPT ![j] = @ - 1]
  BY <1>a
<1>b. /\ Live(j) /\ extent[j] > 0
  <2>1. Holds(jobs, j) BY <1>2 DEF Holds
  <2> QED BY <2>1 DEF IInv, StackHoldsPendingJobs
<1>t. f \in Frames /\ pc \in [Frames -> PC] /\ cur \in [Frames -> Jobs \cup {NULL}]
      /\ run \in [Frames -> RunType] /\ active_workers \in [Jobs -> Nat]
      /\ extent \in [Jobs -> Nat] /\ min \in [Jobs -> Nat] /\ jobs \in Seq(Jobs)
  BY DEF IInv, TypeOK, FramesOK, JobsOK, QueueOK, Frames
<1>x. /\ extent \in [Jobs -> Nat] /\ min \in [Jobs -> Nat]
      /\ extent[j] \in Nat \ {0} /\ extent[j] - 1 \in Nat /\ min[j] \in Nat
  <2>1. extent[j] > 0 BY <1>b
  <2>2. extent \in [Jobs -> Nat] /\ min \in [Jobs -> Nat] BY <1>t
  <2> QED BY <2>1, <2>2, SMTT(30)
<1>w. active_workers' = [active_workers EXCEPT ![j] = @ + 1] /\ active_workers \in [Jobs -> Nat]
  BY <1>a, <1>t
<1>n. NewRun(min[j]) \in RunType /\ NewRun(min[j]).min = min[j] /\ NewRun(min[j]).total = 0
      /\ NewRun(min[j]).iters = 1 /\ NewRun(min[j]).done = 0
  BY <1>t, NewRunFields
<1>s. /\ jobs' \in Seq(Jobs) /\ Distinct(jobs')
      /\ \A i \in Jobs : Holds(jobs', i) <=> Holds(jobs, i) /\ (i = j => extent[j] # 1)
  <2>1. CASE LastIteration(j)
    BY <1>a, <1>2, <2>1, RemoveJobStack
    DEF IInv, TypeOK, QueueOK, StackHoldsPendingJobs, LastIteration
  <2>2. CASE ~LastIteration(j)
    BY <1>a, <1>2, <2>2 DEF IInv, TypeOK, QueueOK, StackHoldsPendingJobs, LastIteration
  <2> QED BY <2>1, <2>2
<1>3. QueueOK'
  <2>1. QueueOK /\ mutex' = NULL /\ UNCHANGED <<queueVars, sleepVars>>
    BY <1>a DEF IInv, TypeOK
  <2>2. threads_reserved' \in Int BY <1>a, ReserveType, SMTT(30)
  <2> QED BY <1>s, <2>1, <2>2 DEF QueueOK, queueVars, sleepVars
<1>4. JobsOK'
  <2>1. value' \in [Sems -> Nat] /\ next_semaphore' \in [Jobs -> Nat \ {0}]
    BY <1>a, MakeRunnableType DEF IInv, TypeOK
  <2>2. job_reserved' \in [Jobs -> Int] BY <1>a, ReserveType, SMTT(30)
  <2>3. active_workers' \in [Jobs -> Nat] BY <1>w, SMTT(30)
  <2>4. UNCHANGED <<exit_status, owner_is_sleeping>> BY <1>a DEF sleepVars
  <2>5. extent' \in [Jobs -> Nat] /\ min' \in [Jobs -> Nat] BY <1>e, <1>x, SMTT(30)
  <2> QED BY <2>1, <2>2, <2>3, <2>4, <2>5 DEF IInv, TypeOK, JobsOK
<1>5. FramesOK'
  BY <1>a, <1>t, <1>n DEF IInv, TypeOK, FramesOK, PC
<1>8. min'[j] + extent'[j] <= Task[j].extent /\ min[j] < Task[j].extent
  <2>1. min[j] + extent[j] <= Task[j].extent BY DEF IInv, RangeInv
  <2>2. min'[j] = min[j] + 1 /\ extent'[j] = extent[j] - 1 BY <1>e, <1>t
  <2>3. Task[j].extent \in Nat BY TaskAssumption
  <2> QED BY <1>x, <2>1, <2>2, <2>3, SMTT(30)
<1>6. InRange(f)'
  <2>1. pc'[f] = "body" /\ cur'[f] = j /\ run'[f] = NewRun(min[j]) BY <1>a, <1>t
  <2>2. ~Serial(j) BY <1>a
  <2>3. /\ run'[f].min = min[j] /\ run'[f].total = 0
        /\ run'[f].iters = 1 /\ run'[f].done = 0
    BY <1>n, <2>1
  <2>4. run'[f].done < run'[f].iters /\ run'[f].min < Task[j].extent BY <1>8, <2>3, SMTT(30)
  <2>5. ~Serial(cur'[f]) BY <2>1, <2>2
  <2> QED BY <2>1, <2>3, <2>4, <2>5 DEF InRange, Busy, InTask, Serial
<1>7. StackHoldsPendingJobs'
  <2>1. \A i \in Jobs : Live(i)' <=> Live(i)
    BY <1>a, <1>t, CallAssumption DEF Live, Frames, Loops
  <2>2. \A i \in Jobs : extent'[i] > 0 <=> extent[i] > 0 /\ (i = j => extent[j] # 1)
    BY <1>e, <1>x, SMTT(30)
  <2>3. \A i \in Jobs : Serial(i) => active_workers'[i] = active_workers[i]
    BY <1>a, <1>t
  <2>4. ASSUME NEW i \in Jobs
        PROVE  Holds(jobs', i) <=> /\ Live(i)' /\ extent'[i] > 0
                                   /\ Serial(i) => active_workers'[i] = 0
    BY <1>s, <2>1, <2>2, <2>3 DEF IInv, StackHoldsPendingJobs
  <2> QED BY <1>s, <2>4 DEF StackHoldsPendingJobs, Holds, Serial, Distinct
<1> QED BY <1>a, <1>b, <1>t, <1>3, <1>4, <1>5, <1>6, <1>7, <1>8, StartJob
    DEF TypeOK, queueVars, Frames

-----------------------------------------------------------------------------
(* A frame finishes with a job; a call is enqueued.                        *)

\* The bookkeeping after a task function returns preserves IInv.
LEMMA FinishJobInv == ASSUME Counting, IInv, NEW f \in Loops, FinishJob(f) PROVE IInv'
<1>t. f \in Frames /\ f \notin Clients /\ pc \in [Frames -> PC] /\ run[f] \in RunType
      /\ cur \in [Frames -> Jobs \cup {NULL}] /\ active_workers \in [Jobs -> Nat]
      /\ extent \in [Jobs -> Nat] /\ min \in [Jobs -> Nat] /\ jobs \in Seq(Jobs)
      /\ exit_status \in [Jobs -> {0, 1}] /\ run[f].total \in Nat /\ run[f].result \in {0, 1}
  BY FrameAssumption DEF IInv, TypeOK, FramesOK, JobsOK, QueueOK, Frames, RunType
<1>1. PICK j \in Jobs : j = cur[f]
  BY <1>t DEF FinishJob, IInv, ControlInv, Busy
<1>a. /\ pc[f] = "relock" /\ mutex = NULL
      /\ mutex' = f
      /\ extent' = [extent EXCEPT ![j] = ExtentAfter(f)]
      /\ min' = [min EXCEPT ![j] = MinAfter(f)]
      /\ jobs' = IF Serial(j) /\ ExtentAfter(f) > 0 THEN <<j>> \o jobs ELSE jobs
      /\ exit_status' = [i \in Jobs |-> StatusAfter(f, i)]
      /\ Reserve(j, -1)
      /\ active_workers' = [active_workers EXCEPT ![j] = @ - 1]
      /\ cur' = [cur EXCEPT ![f] = NULL]
      /\ pc' = [(IF MustWakeOwner(f) THEN Broadcast({"owner"}) ELSE pc) EXCEPT ![f] = "head"]
      /\ UNCHANGED <<queueVars, sleepVars, semVars, cursor, run, idx, caller, status>>
  BY <1>1, <1>t DEF FinishJob, ActiveAfter
<1>2. /\ pc' \in [Frames -> PC] /\ pc'[f] = "head"
      /\ \A g \in Frames : g # f =>
           \/ pc'[g] = pc[g]
           \/ pc[g] = "sleepA" /\ pc'[g] = "wokenA"
           \/ pc[g] = "sleepB" /\ pc'[g] = "wokenB"
           \/ pc[g] = "sleepOwner" /\ pc'[g] = "wokenOwner"
  <2>1. "head" \in PC BY DEF PC
  <2>2. CASE MustWakeOwner(f)
    <3> DEFINE B == Broadcast({"owner"})
    <3>1. /\ B \in [Frames -> PC]
          /\ \A g \in Frames :
               \/ B[g] = pc[g]
               \/ pc[g] = "sleepA" /\ B[g] = "wokenA"
               \/ pc[g] = "sleepB" /\ B[g] = "wokenB"
               \/ pc[g] = "sleepOwner" /\ B[g] = "wokenOwner"
      BY <1>t, BroadcastPC
    <3> HIDE DEF B
    <3>2. pc' = [B EXCEPT ![f] = "head"] BY <1>a, <2>2 DEF B
    <3> QED BY <1>t, <2>1, <3>1, <3>2
  <2>3. CASE ~MustWakeOwner(f)
    <3>1. pc' = [pc EXCEPT ![f] = "head"] BY <1>a, <2>3
    <3> QED BY <1>t, <2>1, <3>1
  <2> QED BY <2>2, <2>3
<1>3. /\ ExtentAfter(f) \in Nat /\ MinAfter(f) \in Nat
      /\ ExtentAfter(f) <= extent[j]
      /\ MinAfter(f) + ExtentAfter(f) <= Task[j].extent
      /\ ~Serial(j) => MinAfter(f) = min[j] /\ ExtentAfter(f) = extent[j]
  <2>1. /\ Serial(j) => run[f].total <= extent[j]
        /\ min[j] + extent[j] <= Task[j].extent
        /\ Task[j].extent \in Nat
    <3>1. InRange(f) /\ min[j] + extent[j] <= Task[j].extent
      BY <1>1, <1>a DEF IInv, RangeInv
    <3>2. Task[j].extent \in Nat
      BY <1>1, TaskAssumption
    <3> QED BY <1>1, <1>a, <3>1, <3>2 DEF InRange, Busy
  <2>2. extent[j] \in Nat /\ min[j] \in Nat /\ run[f].total \in Nat
    BY <1>1, <1>t DEF RunType
  <2>3. CASE Serial(j)
    <3>1. /\ min[j] + run[f].total \in Nat /\ extent[j] - run[f].total \in Nat
          /\ extent[j] - run[f].total <= extent[j] /\ 0 <= extent[j]
          /\ (min[j] + run[f].total) + (extent[j] - run[f].total) <= Task[j].extent
          /\ (min[j] + run[f].total) + 0 <= Task[j].extent
      BY <2>1, <2>2, <2>3, SMTT(30)
    <3>2. /\ MinAfter(f) = min[j] + run[f].total
          /\ ExtentAfter(f) \in {0, extent[j] - run[f].total}
      BY <1>1, <2>3 DEF ExtentAfter, ExtentLeft, MinAfter
    <3>3. 0 \in Nat
      BY SMTT(30)
    <3> QED BY <2>3, <3>1, <3>2, <3>3
  <2>4. CASE ~Serial(j)
    <3>1. MinAfter(f) = min[j] /\ ExtentAfter(f) = extent[j]
      BY <1>1, <2>4 DEF ExtentAfter, ExtentLeft, MinAfter
    <3>2. extent[j] <= extent[j]
      BY <2>2, SMTT(30)
    <3> QED BY <2>1, <2>2, <2>4, <3>1, <3>2
  <2> QED BY <2>3, <2>4
<1>4. ActiveWorkersCounted' /\ active_workers[j] >= 1
  BY <1>1, <1>a, <1>t, CountDown
<1>5. Serial(j) => active_workers[j] = 1
  BY <1>1, SerialWorker
<1>6. \A i \in Jobs : Live(i)' <=> Live(i)
  <2>1. \A g \in Frames : pc'[g] = "idle" <=> pc[g] = "idle"
    BY <1>2, <1>a
  <2>2. \A i \in Jobs : CallOf[i] \in Frames BY CallAssumption DEF Frames, Loops
  <2> QED BY <2>1, <2>2 DEF Live
<1>s. /\ jobs' \in Seq(Jobs) /\ Distinct(jobs')
      /\ \A i \in Jobs : Holds(jobs', i) <=> Holds(jobs, i) \/ (i = j /\ Serial(j) /\ ExtentAfter(f) > 0)
  <2>1. CASE Serial(j) /\ ExtentAfter(f) > 0
    <3>1. ~Holds(jobs, j) /\ Distinct(jobs)
      BY <1>5, <2>1, SMTT(30) DEF IInv, StackHoldsPendingJobs
    <3>2. <<j>> \in Seq(Jobs) /\ Distinct(<<j>>) /\ \A i : Holds(<<j>>, i) <=> i = j
      BY SMTT(30) DEF Distinct, Holds
    <3>3. jobs' = <<j>> \o jobs BY <1>a, <2>1
    <3>4. \A i \in Jobs : ~(Holds(jobs, i) /\ Holds(<<j>>, i))
      BY <3>1, <3>2
    <3>5. /\ <<j>> \o jobs \in Seq(Jobs) /\ Distinct(<<j>> \o jobs)
          /\ \A i \in Jobs : Holds(<<j>> \o jobs, i) <=> Holds(jobs, i) \/ Holds(<<j>>, i)
      BY <1>t, <3>1, <3>2, <3>4, PushStack
    <3> QED BY <2>1, <3>2, <3>3, <3>5
  <2>2. CASE ~(Serial(j) /\ ExtentAfter(f) > 0)
    BY <1>a, <1>t, <2>2 DEF IInv, StackHoldsPendingJobs
  <2> QED BY <2>1, <2>2
<1>7. QueueOK'
  <2>1. threads_reserved' \in Int BY <1>a, ReserveType, SMTT(30)
  <2>2. QueueOK BY DEF IInv, TypeOK
  <2> QED BY <1>a, <1>s, <2>1, <2>2 DEF QueueOK, queueVars, sleepVars
<1>8. JobsOK'
  <2>1. exit_status' \in [Jobs -> {0, 1}]
    BY <1>a, <1>t DEF StatusAfter
  <2>2. job_reserved' \in [Jobs -> Int] BY <1>a, ReserveType, SMTT(30)
  <2>3. active_workers' \in [Jobs -> Nat] BY <1>a, <1>t, <1>4, SMTT(30)
  <2> QED BY <1>a, <1>3, <2>1, <2>2, <2>3 DEF IInv, TypeOK, JobsOK, sleepVars, semVars
<1>9. FramesOK'
  BY <1>a, <1>t, <1>2 DEF IInv, TypeOK, FramesOK
<1>10. MutexInv'
  BY <1>a, <1>t, <1>2, FrameAssumption DEF IInv, MutexInv
<1>11. ControlInv'
  <2>1. \A g \in Loops : pc'[g] \in Busy <=> g # f /\ pc[g] \in Busy
    BY <1>2 DEF Busy, Frames
  <2>2. \A g \in Loops : cur'[g] # NULL <=> g # f /\ cur[g] # NULL
    BY <1>a, <1>t DEF Frames
  <2>3. \A k \in Clients : pc'[k] = pc[k] /\ cur'[k] = cur[k]
    BY <1>a, <1>t, <1>2 DEF Frames, IInv, ControlInv
  <2>4. \A w \in Workers : pc'[w] \in WorkerPC /\ (w > threads_created' => pc'[w] = "idle")
    BY <1>a, <1>2 DEF Frames, Loops, IInv, ControlInv, WorkerPC, Busy, queueVars
  <2>5. \A c \in Calls : pc'[c] \in CallPC
    BY <1>2 DEF Frames, Loops, IInv, ControlInv, CallPC, Busy
  <2> QED BY <2>1, <2>2, <2>3, <2>4, <2>5 DEF IInv, ControlInv
<1>12. CallerInv'
  <2>1. \A c \in Calls : pc'[c] = "idle" <=> pc[c] = "idle"
    BY <1>2, <1>a DEF Frames, Loops
  <2>2. \A g \in Frames : pc[g] = "calling" => pc'[g] = "calling" /\ cur'[g] = cur[g]
    BY <1>a, <1>t, <1>2
  <2>3. caller' = caller BY <1>a
  <2> QED BY <2>1, <2>2, <2>3, SMTT(30) DEF IInv, CallerInv
<1>13. RangeInv'
  <2>1. ASSUME NEW g \in Loops PROVE InRange(g)'
    <3>1. CASE g = f BY <1>2, <3>1 DEF InRange, Busy, InTask
    <3>2. CASE g # f
      <4>1. InRange(g) /\ cur'[g] = cur[g] /\ run'[g] = run[g]
        BY <1>a, <1>t, <3>2 DEF IInv, RangeInv, Frames
      <4>2. pc'[g] \in Busy => pc[g] = pc'[g] /\ cur[g] \in Jobs
        BY <1>2, <1>t, <3>2 DEF IInv, ControlInv, Frames, Busy
      <4>3. cur[g] \in Jobs /\ Serial(cur[g]) => cur[g] # j
        BY <1>1, <3>2, FrameAssumption DEF IInv, RangeInv
      <4>4. cur[g] \in Jobs /\ Serial(cur[g]) =>
              min'[cur[g]] = min[cur[g]] /\ extent'[cur[g]] = extent[cur[g]]
        BY <1>a, <1>t, <4>3
      <4> QED BY <4>1, <4>2, <4>4 DEF InRange, Busy, InTask
    <3> QED BY <3>1, <3>2
  <2>2. \A i \in Jobs : min'[i] + extent'[i] <= Task[i].extent
    BY <1>a, <1>t, <1>3 DEF IInv, RangeInv
  <2>3. \A g, h \in Loops : cur'[g] # NULL /\ cur'[g] = cur'[h] /\ Serial(cur'[g]) => g = h
    BY <1>a, <1>t DEF IInv, RangeInv, Frames
  <2> QED BY <2>1, <2>2, <2>3 DEF RangeInv, Serial
<1>14. \A i \in Jobs : running(i)' => running(i)
  BY <1>a, <1>t, <1>4, SMTT(30) DEF running
<1>15. JoinInv'
  <2>1. \A c \in Calls : pc[c] = "idle" => pc'[c] = "idle" BY <1>2, <1>a DEF Frames, Loops
  <2>2. UNCHANGED <<idx, shutdown>> BY <1>a DEF queueVars
  <2> QED BY <1>6, <1>14, <2>1, <2>2, JoinKept
<1>16. StackHoldsPendingJobs'
  <2>1. ASSUME NEW i \in Jobs
        PROVE  Holds(jobs', i) <=> /\ Live(i)' /\ extent'[i] > 0
                                   /\ Serial(i) => active_workers'[i] = 0
    <3>1. CASE i # j
      BY <1>a, <1>t, <1>s, <1>6, <3>1 DEF IInv, StackHoldsPendingJobs
    <3>2. CASE i = j
      <4>1. Live(j) BY <1>1, <1>t, FrameAssumption DEF IInv, NoDanglingJob
      <4>2. extent'[j] = ExtentAfter(f) /\ active_workers'[j] = active_workers[j] - 1
        BY <1>a, <1>t
      <4>3. Holds(jobs, j) <=> /\ extent[j] > 0
                               /\ Serial(j) => active_workers[j] = 0
        BY <4>1 DEF IInv, StackHoldsPendingJobs
      <4> QED BY <1>s, <1>3, <1>5, <1>6, <3>2, <4>1, <4>2, <4>3, SMTT(30)
    <3> QED BY <3>1, <3>2
  <2> QED BY <1>s, <2>1 DEF StackHoldsPendingJobs, Holds, Serial, Distinct
<1>17. NoDanglingJob'
  <2>1. ASSUME NEW g \in Frames, cur'[g] # NULL PROVE Live(cur[g])'
    <3>1. PICK i \in Jobs : i = cur'[g] /\ i = cur[g]
      BY <1>a, <1>t, <2>1
    <3>2. Live(i)' BY <1>6, <3>1, FrameAssumption DEF IInv, NoDanglingJob
    <3> QED BY <3>1, <3>2 DEF Live
  <2>2. ASSUME NEW i \in Jobs, Live(i)', Parent(i) # NULL PROVE active_workers'[Parent(i)] > 0
    <3>1. PICK p \in Jobs : p = Parent(i) BY <2>2, CallAssumption DEF Parent
    <3>2. PICK g \in Frames : g = caller[CallOf[i]] /\ pc[g] = "calling" /\ cur[g] = p
      <4>1. CallerInv BY DEF IInv
      <4>2. Live(i) BY <1>6, <2>2
      <4> QED BY <2>2, <3>1, <4>1, <4>2, CallAssumption DEF CallerInv, Live, Parent
    <3>3. cur'[g] = p BY <1>a, <1>t, <3>2
    <3>4. {h \in Frames : cur'[h] = p} # {} BY <3>3
    <3>5. IsFiniteSet({h \in Frames : cur'[h] = p}) BY DEF Counting, FiniteSubsets, FramesFinite
    <3>6. Cardinality({h \in Frames : cur'[h] = p}) # 0 BY <3>4, <3>5 DEF Counting, EmptyCount
    <3>7. active_workers'[p] # 0 /\ active_workers'[p] \in Nat
      BY <1>4, <1>8, <3>6 DEF ActiveWorkersCounted, JobsOK
    <3> QED BY <3>1, <3>7, SMTT(30)
  <2> QED BY <2>1, <2>2 DEF NoDanglingJob, Parent
<1> QED BY <1>4, <1>7, <1>8, <1>9, <1>10, <1>11, <1>12, <1>13, <1>15, <1>16, <1>17 DEF IInv, TypeOK

\* Enqueueing the jobs of a call preserves IInv.
LEMMA DoParallelTasksInv ==
  ASSUME Counting, IInv, NEW f \in Frames, halide_do_parallel_tasks(f) PROVE IInv'
<1>0. PICK c \in Calls : /\ c = Step(f).call
                         /\ CallParent[c] \in {NULL, cur[f]}
  BY StepType DEF halide_do_parallel_tasks, IInv
<1>t. /\ pc \in [Frames -> PC] /\ cur \in [Frames -> Jobs \cup {NULL}]
      /\ idx \in [Calls -> Nat \ {0}] /\ caller \in [Calls -> Frames \cup {NULL}]
      /\ status \in [Calls -> {0, 1}] /\ jobs \in Seq(Jobs)
      /\ c \in Frames /\ c \in Loops /\ c \notin Clients /\ c \notin Workers
  BY FrameAssumption DEF IInv, TypeOK, FramesOK, QueueOK, Frames, Loops
<1>a. /\ pc[f] = "body" /\ mutex = NULL /\ pc[c] = "idle" /\ ~shutdown
      /\ mutex' = c /\ initialized' = TRUE
      /\ jobs' = CallJobs[c] \o jobs
      /\ idx' = [idx EXCEPT ![c] = 1]
      /\ status' = [status EXCEPT ![c] = 0]
      /\ caller' = [caller EXCEPT ![c] = f]
      /\ UNCHANGED <<shutdown, workers_sleeping, owners_sleeping, threads_reserved,
                     value, cursor, cur, run>>
  BY <1>0 DEF halide_do_parallel_tasks, AtStep
<1>j. /\ extent' = [j \in Jobs |-> IF CallOf[j] = c THEN Task[j].extent ELSE extent[j]]
      /\ min' = [j \in Jobs |-> IF CallOf[j] = c THEN 0 ELSE min[j]]
      /\ active_workers' = [j \in Jobs |-> IF CallOf[j] = c THEN 0 ELSE active_workers[j]]
      /\ exit_status' = [j \in Jobs |-> IF CallOf[j] = c THEN 0 ELSE exit_status[j]]
      /\ next_semaphore' = [j \in Jobs |-> IF CallOf[j] = c THEN 1 ELSE next_semaphore[j]]
      /\ owner_is_sleeping' =
           [j \in Jobs |-> IF CallOf[j] = c THEN FALSE ELSE owner_is_sleeping[j]]
      /\ job_reserved' = [j \in Jobs |-> IF CallOf[j] = c THEN 0 ELSE job_reserved[j]]
  BY <1>0 DEF halide_do_parallel_tasks
<1>p. /\ pc' \in [Frames -> PC] /\ pc'[f] = "calling" /\ pc'[c] = "head" /\ f # c
      /\ threads_created' \in threads_created..MAX_THREADS
      /\ target_a_team_size' \in Int /\ a_team_size' \in Int
      /\ \A g \in Frames : g # f /\ g # c =>
           \/ pc'[g] = pc[g]
           \/ pc[g] = "idle" /\ pc'[g] = "enter" /\ g \in Workers /\ g <= threads_created'
           \/ pc[g] = "sleepA" /\ pc'[g] = "wokenA"
           \/ pc[g] = "sleepB" /\ pc'[g] = "wokenB"
           \/ pc[g] = "sleepOwner" /\ pc'[g] = "wokenOwner"
  BY <1>0, EnqueuePC
<1>n. \A j \in Jobs : CallOf[j] = c =>
        /\ ~Holds(jobs, j) /\ active_workers[j] = 0
        /\ \A g \in Frames : cur[g] # j
  BY <1>a, IdleCall
<1>w. active_workers' = active_workers
  BY <1>j, <1>n DEF IInv, TypeOK, JobsOK
<1>c. \A d \in Calls : pc'[d] = "idle" <=> d # c /\ pc[d] = "idle"
  <2>1. ASSUME NEW d \in Calls PROVE pc'[d] = "idle" <=> d # c /\ pc[d] = "idle"
    <3>1. d \in Frames /\ d \notin Workers BY FrameAssumption DEF Frames, Loops
    <3> QED BY <1>a, <1>p, <3>1
  <2> QED BY <2>1
<1>l. \A j \in Jobs : Live(j)' <=> CallOf[j] = c \/ Live(j)
  BY <1>c, CallAssumption DEF Live
<1>s. /\ jobs' \in Seq(Jobs) /\ Distinct(jobs')
      /\ \A j \in Jobs : Holds(jobs', j) <=> Holds(jobs, j) \/ CallOf[j] = c
  <2>1. CallJobs[c] \in Seq(Jobs) /\ Distinct(CallJobs[c]) /\ Distinct(jobs)
    BY CallAssumption DEF IInv, StackHoldsPendingJobs
  <2>2. \A j \in Jobs : CallOf[j] = c <=> Holds(CallJobs[c], j) BY CallAssumption
  <2>3. \A j \in Jobs : ~(Holds(jobs, j) /\ Holds(CallJobs[c], j)) BY <1>n, <2>2
  <2>4. /\ CallJobs[c] \o jobs \in Seq(Jobs) /\ Distinct(CallJobs[c] \o jobs)
        /\ \A j \in Jobs : Holds(CallJobs[c] \o jobs, j) <=> Holds(jobs, j) \/ Holds(CallJobs[c], j)
    BY <1>t, <2>1, <2>3, PushStack
  <2> QED BY <1>a, <2>2, <2>4
<1>1. QueueOK'
  <2>1. shutdown' \in BOOLEAN BY <1>a DEF IInv, TypeOK, QueueOK
  <2>2. initialized' \in BOOLEAN BY <1>a
  <2>3. desired_threads_working' \in 0..MAX_THREADS
    <3>1. (IF desired_threads_working = 0 THEN DEFAULT_THREADS ELSE desired_threads_working) \in Int
      BY FrameAssumption, SMTT(30) DEF IInv, TypeOK, QueueOK
    <3>2. clamp_num_threads(IF desired_threads_working = 0 THEN DEFAULT_THREADS
                            ELSE desired_threads_working) \in 0..MAX_THREADS
      BY <3>1, ClampType, FrameAssumption, SMTT(30)
    <3> QED BY <3>2 DEF halide_do_parallel_tasks, IInv, TypeOK, QueueOK
  <2>4. threads_created' \in 0..MAX_THREADS BY <1>p, FrameAssumption, SMTT(30) DEF IInv, TypeOK, QueueOK
  <2> QED BY <1>a, <1>t, <1>p, <1>s, <2>1, <2>2, <2>3, <2>4 DEF IInv, TypeOK, QueueOK
<1>2. JobsOK'
  <2>1. extent' \in [Jobs -> Nat] /\ min' \in [Jobs -> Nat]
    BY <1>j, TaskAssumption DEF IInv, TypeOK, JobsOK
  <2>2. exit_status' \in [Jobs -> {0, 1}] /\ next_semaphore' \in [Jobs -> Nat \ {0}]
        /\ job_reserved' \in [Jobs -> Int]
    BY <1>j, SMTT(30) DEF IInv, TypeOK, JobsOK
  <2>3. owner_is_sleeping' \in [Jobs -> BOOLEAN]
    <3>1. \A j \in Jobs : owner_is_sleeping[j] \in BOOLEAN BY DEF IInv, TypeOK, JobsOK
    <3>2. \A j \in Jobs : (IF CallOf[j] = c THEN FALSE ELSE owner_is_sleeping[j]) \in BOOLEAN
      BY <3>1
    <3> QED BY <1>j, <3>2
  <2> QED BY <1>a, <1>w, <2>1, <2>2, <2>3 DEF IInv, TypeOK, JobsOK
<1>3. FramesOK'
  <2>1. idx' \in [Calls -> Nat \ {0}] /\ status' \in [Calls -> {0, 1}]
        /\ caller' \in [Calls -> Frames \cup {NULL}]
    BY <1>a, <1>t, SMTT(30)
  <2> QED BY <1>a, <1>p, <2>1 DEF IInv, TypeOK, FramesOK
<1>4. MutexInv'
  BY <1>a, <1>p, <1>t, FrameAssumption DEF IInv, MutexInv
<1>5. ControlInv'
  <2>1. \A k \in Clients : pc'[k] \in {"body", "notify", "calling"} /\ cur'[k] = NULL
    BY <1>a, <1>p, <1>t DEF IInv, ControlInv, Frames
  <2>2. ASSUME NEW w \in Workers
        PROVE  pc'[w] \in WorkerPC /\ (w > threads_created' => pc'[w] = "idle")
    <3>1. w \in Frames /\ w # c /\ pc[w] \in WorkerPC /\ (w > threads_created => pc[w] = "idle")
      BY <1>t DEF IInv, ControlInv, Frames, Loops
    <3>0. w \in Int /\ threads_created \in Int BY SMTT(30) DEF Workers, IInv, TypeOK, QueueOK
    <3>2. w > threads_created' => w > threads_created /\ ~(w <= threads_created')
      <4>1. threads_created' \in threads_created..MAX_THREADS BY <1>p
      <4> QED BY <3>0, <4>1, FrameAssumption, SMTT(30)
    <3> QED BY <1>a, <1>p, <3>1, <3>2 DEF WorkerPC, Busy
  <2>3. ASSUME NEW d \in Calls PROVE pc'[d] \in CallPC
    <3>1. d \in Frames /\ d \notin Workers /\ pc[d] \in CallPC
      BY FrameAssumption DEF IInv, ControlInv, Frames, Loops
    <3> QED BY <1>p, <3>1 DEF CallPC, Busy
  <2>4. ASSUME NEW g \in Loops PROVE cur'[g] # NULL <=> pc'[g] \in Busy
    <3>1. g \in Frames /\ (cur[g] # NULL <=> pc[g] \in Busy) /\ cur'[g] = cur[g]
      BY <1>a DEF IInv, ControlInv, Frames
    <3> QED BY <1>a, <1>p, <3>1 DEF Busy
  <2> QED BY <2>1, <2>2, <2>3, <2>4 DEF ControlInv
<1>6. CallerInv'
  <2>1. ASSUME NEW d \in Calls, d # c, pc'[d] # "idle"
        PROVE  /\ caller'[d] = caller[d] /\ caller[d] \in Frames /\ caller[d] # f
               /\ pc'[caller[d]] = "calling" /\ CallParent[d] \in {NULL, cur'[caller'[d]]}
    <3>1. /\ pc[d] # "idle" /\ caller[d] \in Frames /\ pc[caller[d]] = "calling"
          /\ CallParent[d] \in {NULL, cur[caller[d]]}
      BY <1>c, <2>1 DEF IInv, CallerInv
    <3>2. caller'[d] = caller[d] BY <1>a, <1>t, <2>1
    <3> QED BY <1>a, <1>p, <3>1, <3>2
  <2>2. caller'[c] = f BY <1>a, <1>t
  <2>3. \A d \in Calls : pc'[d] # "idle" =>
          /\ caller'[d] \in Frames /\ pc'[caller'[d]] = "calling"
          /\ CallParent[d] \in {NULL, cur'[caller'[d]]}
    <3>1. ASSUME NEW d \in Calls, pc'[d] # "idle", d = c
          PROVE  /\ caller'[d] \in Frames /\ pc'[caller'[d]] = "calling"
                 /\ CallParent[d] \in {NULL, cur'[caller'[d]]}
      <4>1. f \in Frames /\ pc'[f] = "calling" /\ cur' = cur BY <1>0, <1>a, <1>p
      <4>2. CallParent[c] \in {NULL, cur[f]} BY <1>0, <1>a
      <4> QED BY <2>2, <3>1, <4>1, <4>2
    <3> QED BY <2>1, <3>1
  <2>4. ASSUME NEW d \in Calls, NEW e \in Calls, pc'[d] # "idle", pc'[e] # "idle",
               caller'[d] = caller'[e]
        PROVE  d = e
    <3>1. CASE d = c \/ e = c BY <2>1, <2>2, <2>4, <3>1
    <3>2. CASE d # c /\ e # c
      <4>1. CallerInv BY DEF IInv
      <4> QED BY <1>c, <2>1, <2>4, <3>2, <4>1, SMTT(30) DEF CallerInv
    <3> QED BY <3>1, <3>2
  <2> QED BY <2>3, <2>4 DEF CallerInv
<1>7. RangeInv'
  <2>1. ASSUME NEW i \in Jobs PROVE min'[i] + extent'[i] <= Task[i].extent
    <3>1. CASE CallOf[i] = c
      <4>1. min'[i] = 0 /\ extent'[i] = Task[i].extent BY <1>j, <3>1
      <4> QED BY <4>1, TaskAssumption, SMTT(30)
    <3>2. CASE CallOf[i] # c
      <4>1. min'[i] = min[i] /\ extent'[i] = extent[i] BY <1>j, <3>2
      <4> QED BY <4>1 DEF IInv, RangeInv
    <3> QED BY <3>1, <3>2
  <2>2. ASSUME NEW g \in Loops PROVE InRange(g)'
    <3>1. InRange(g) /\ g \in Frames /\ run'[g] = run[g] /\ cur'[g] = cur[g]
      BY <1>a DEF IInv, RangeInv, Frames
    <3>2. pc'[g] \in Busy => /\ pc[g] \in Busy /\ cur[g] \in Jobs
                             /\ pc'[g] = pc[g] \/ (pc[g] = "body" /\ pc'[g] = "calling")
      BY <1>a, <1>p, <1>t, <3>1 DEF IInv, ControlInv, Busy
    <3>3. cur[g] \in Jobs => CallOf[cur[g]] # c BY <1>n, <3>1
    <3>4. cur[g] \in Jobs => min'[cur[g]] = min[cur[g]] /\ extent'[cur[g]] = extent[cur[g]]
      BY <1>j, <3>3
    <3> QED BY <3>1, <3>2, <3>4 DEF InRange, Busy, InTask
  <2>3. cur' = cur BY <1>a
  <2> QED BY <2>1, <2>2, <2>3 DEF IInv, RangeInv
<1>8. JoinInv'
  <2>1. \A d \in Calls : idx'[d] \in 1..Len(CallJobs[d])
    <3>1. Len(CallJobs[c]) \in Nat \ {0} BY CallAssumption, SMTT(30)
    <3> QED BY <1>a, <1>t, <3>1, SMTT(30) DEF IInv, JoinInv
  <2>2. \A j \in Jobs : CallOf[j] # c => (running(j)' <=> running(j))
    BY <1>j, <1>w DEF running
  <2>3. \A j \in Jobs : ~Live(j)' => ~running(j)'
    BY <1>l, <2>2 DEF IInv, JoinInv
  <2>4. ASSUME NEW d \in Calls, NEW i \in 1..(idx'[d] - 1) PROVE ~running(CallJobs[d][i])'
    <3>1. d # c BY <1>a, <1>t, SMTT(30)
    <3>2. idx'[d] = idx[d] BY <1>a, <1>t, <3>1
    <3>3. CallJobs[d][i] \in Jobs /\ CallOf[CallJobs[d][i]] = d
      <4>1. i \in 1..Len(CallJobs[d]) BY <2>1, SMTT(30)
      <4> QED BY <4>1, CallAssumption, SMTT(30) DEF Holds
    <3>4. ~running(CallJobs[d][i]) BY <3>2 DEF IInv, JoinInv
    <3> QED BY <2>2, <3>1, <3>3, <3>4
  <2>5. ~shutdown' BY <1>a
  <2> QED BY <2>1, <2>3, <2>4, <2>5 DEF JoinInv
<1>9. StackHoldsPendingJobs'
  <2>1. ASSUME NEW i \in Jobs
        PROVE  Holds(jobs', i) <=> /\ Live(i)' /\ extent'[i] > 0
                                   /\ Serial(i) => active_workers'[i] = 0
    <3>1. CASE CallOf[i] = c
      <4>0. extent'[i] = Task[i].extent BY <1>j, <3>1
      <4>1. extent'[i] > 0 BY <4>0, TaskAssumption, SMTT(30)
      <4> QED BY <1>l, <1>n, <1>s, <1>w, <3>1, <4>1
    <3>2. CASE CallOf[i] # c
      BY <1>j, <1>l, <1>s, <1>w, <3>2 DEF IInv, StackHoldsPendingJobs
    <3> QED BY <3>1, <3>2
  <2> QED BY <1>s, <2>1 DEF StackHoldsPendingJobs, Holds, Serial, Distinct
<1>10. ActiveWorkersCounted'
  BY <1>a, <1>w DEF IInv, ActiveWorkersCounted
<1>11. NoDanglingJob'
  <2>1. ASSUME NEW g \in Frames, cur'[g] # NULL PROVE Live(cur[g])'
    <3>1. PICK i \in Jobs : i = cur'[g] /\ i = cur[g]
      BY <1>a, <1>t, <2>1
    <3>2. Live(i)' BY <1>l, <3>1, FrameAssumption DEF IInv, NoDanglingJob
    <3> QED BY <3>1, <3>2 DEF Live
  <2>2. ASSUME NEW i \in Jobs, Live(i)', Parent(i) # NULL PROVE active_workers[Parent(i)] > 0
    <3>1. CASE CallOf[i] = c
      <4>1. Parent(i) = cur[f] /\ cur[f] \in Jobs BY <1>0, <1>t, <2>2, <3>1 DEF Parent
      <4>2. active_workers[cur[f]] # 0 BY <4>1, NoWorkers
      <4>3. active_workers[cur[f]] \in Nat BY <4>1 DEF IInv, TypeOK, JobsOK
      <4> QED BY <4>1, <4>2, <4>3, SMTT(30)
    <3>2. CASE CallOf[i] # c
      BY <1>l, <2>2, <3>2 DEF IInv, NoDanglingJob
    <3> QED BY <3>1, <3>2
  <2> QED BY <1>w, <2>1, <2>2 DEF NoDanglingJob, Parent
<1> QED BY <1>1, <1>2, <1>3, <1>4, <1>5, <1>6, <1>7, <1>8, <1>9, <1>10, <1>11 DEF IInv, TypeOK

-----------------------------------------------------------------------------
(* The actions which only move frames from one pc to another.              *)

\* A frame outside of any task takes, keeps or gives up the mutex.
LEMMA LoopMove ==
  ASSUME IInv, TypeOK', NEW f \in Loops, NEW q,
         UNCHANGED <<jobs, threads_created, extent, min, active_workers, cur, idx, caller,
                     shutdown, run>>,
         pc' = [pc EXCEPT ![f] = q],
         pc[f] \notin Busy \cup {"idle"}, q \notin Busy \cup {"idle"},
         f \in Workers => q \in WorkerPC,
         f \in Calls => q \in CallPC,
         mutex \in {f, NULL}, mutex' = IF q \in {"head", "scan"} THEN f ELSE NULL
  PROVE  IInv'
<1>0. f \in Frames /\ f \notin Clients
  BY FrameAssumption DEF Frames
<1>1. MutexInv'
  BY <1>0, FrameAssumption DEF IInv, MutexInv, TypeOK, FramesOK
<1>2. ControlInv'
  BY <1>0, FrameAssumption DEF IInv, ControlInv, TypeOK, FramesOK, Loops, Frames
<1>3. RangeInv'
  BY <1>0, RangeKept DEF IInv, TypeOK, FramesOK, Loops, Frames
<1>4. Calm
  BY <1>0 DEF IInv, TypeOK, FramesOK, Calm, Frames, Loops, Busy
<1> QED BY <1>1, <1>2, <1>3, <1>4, CalmStep

\* A frame within a task makes progress in it.
LEMMA TaskMove ==
  ASSUME IInv, TypeOK', NEW f \in Frames, NEW q,
         UNCHANGED <<mutex, jobs, threads_created, extent, min, active_workers, cur, idx,
                     caller, shutdown>>,
         pc' = [pc EXCEPT ![f] = q],
         pc[f] \in Busy \ {"calling"}, q \in Busy,
         f \in Clients => q \in {"body", "notify"},
         f \in Loops => InRange(f)',
         \A g \in Frames : g # f => run'[g] = run[g]
  PROVE  IInv'
<1>1. MutexInv'
  BY FrameAssumption DEF IInv, MutexInv, TypeOK, FramesOK, Busy
<1>2. ControlInv'
  BY FrameAssumption
  DEF IInv, ControlInv, TypeOK, FramesOK, Loops, Frames, Busy, WorkerPC, CallPC
<1>3. RangeInv'
  <2>1. CASE f \in Loops
    BY <2>1, RangeMoved DEF IInv, TypeOK, FramesOK, Frames
  <2>2. CASE f \in Clients
    <3>1. \A g \in Loops : pc'[g] = pc[g] /\ run'[g] = run[g]
      BY <2>2, FrameAssumption DEF IInv, TypeOK, FramesOK, Frames
    <3>2. \A g \in Loops : InRange(g)' <=> InRange(g)
      BY <3>1 DEF InRange
    <3> QED BY <3>2 DEF IInv, RangeInv
  <2> QED BY <2>1, <2>2 DEF Frames
<1>4. Calm
  BY DEF IInv, TypeOK, FramesOK, Calm, Frames, Loops, Busy
<1> QED BY <1>1, <1>2, <1>3, <1>4, CalmStep

-----------------------------------------------------------------------------
(* One lemma per action: it preserves the inductive invariant.             *)

\* A new worker thread entering worker_thread preserves IInv.
LEMMA EnterWorkerInv == ASSUME IInv, NEW w \in Workers, EnterWorker(w) PROVE IInv'
<1> USE DEF EnterWorker, queueVars, sleepVars, jobVars, semVars, frameVars
<1>0. w \in Loops /\ w \in Frames /\ w \notin Calls
  BY FrameAssumption DEF Loops, Frames
<1>1. TypeOK'
  BY <1>0 DEF IInv, TypeOK, QueueOK, JobsOK, FramesOK, PC
<1> QED BY <1>0, <1>1, LoopMove DEF Busy, WorkerPC

\* A worker leaving its loop at shutdown preserves IInv.
LEMMA ExitWorkerInv == ASSUME IInv, NEW w \in Workers, ExitWorker(w) PROVE IInv'
<1> USE DEF ExitWorker, AtHead, queueVars, sleepVars, jobVars, semVars, frameVars
<1>0. w \in Loops /\ w \in Frames /\ w \notin Calls
  BY FrameAssumption DEF Loops, Frames
<1>1. TypeOK'
  BY <1>0 DEF IInv, TypeOK, QueueOK, JobsOK, FramesOK, PC
<1> QED BY <1>0, <1>1, LoopMove DEF Busy, WorkerPC

\* Nothing added to what a worker has done.
LEMMA NoneMore == \A t, n \in Nat : t + n + 0 = t + n
BY SMTT(30)

\* A counter of sleeping or working threads goes up and down by one.
LEMMA IntegerSteps == \A x \in Int : x + 1 \in Int /\ x - 1 \in Int
BY SMTT(30)

\* Starting at the top of the job stack preserves IInv.
LEMMA BeginScanInv == ASSUME IInv, NEW f \in Loops, BeginScan(f) PROVE IInv'
<1> USE DEF BeginScan, AtHead, queueVars, sleepVars, jobVars, semVars
<1>1. TypeOK'
  BY SMTT(30) DEF IInv, TypeOK, QueueOK, JobsOK, FramesOK, PC, Frames
<1> QED BY <1>1, LoopMove DEF Busy, WorkerPC, CallPC

\* Passing over a job that may not run on this stack preserves IInv.
LEMMA SkipJobInv == ASSUME IInv, NEW f \in Loops, SkipJob(f) PROVE IInv'
<1> USE DEF SkipJob, AtScan, queueVars, sleepVars, jobVars, semVars
<1>1. QueueOK' /\ JobsOK'
  BY DEF IInv, TypeOK, QueueOK, JobsOK
<1>2. FramesOK' /\ pc' = [pc EXCEPT ![f] = "scan"]
  BY SMTT(30) DEF IInv, TypeOK, FramesOK
<1> QED BY <1>1, <1>2, LoopMove DEF TypeOK, Busy, WorkerPC, CallPC

\* Passing over a job whose semaphores cannot be acquired preserves IInv.
LEMMA BlockedJobInv == ASSUME IInv, NEW f \in Loops, BlockedJob(f) PROVE IInv'
<1> USE DEF BlockedJob, queueVars, sleepVars, jobVars
<1>0. jobs[cursor[f]] \in Jobs /\ \E k : make_runnable(jobs[cursor[f]], k)
  BY AtScanJob
<1>1. QueueOK'
  BY DEF IInv, TypeOK, QueueOK
<1>2. JobsOK'
  BY <1>0, MakeRunnableType DEF IInv, TypeOK, JobsOK
<1>3. FramesOK' /\ pc' = [pc EXCEPT ![f] = "scan"]
  BY SMTT(30) DEF IInv, TypeOK, FramesOK, AtScan
<1> QED BY <1>1, <1>2, <1>3, LoopMove DEF TypeOK, AtScan, Busy, WorkerPC, CallPC

\* An owner going to sleep on wake_owners preserves IInv.
LEMMA SleepOwnerInv == ASSUME IInv, NEW c \in Calls, SleepOwner(c) PROVE IInv'
<1> USE DEF SleepOwner, AtScanEnd, queueVars, jobVars, semVars, frameVars
<1>0. c \in Loops /\ c \in Frames /\ c \notin Workers
  BY FrameAssumption DEF Loops, Frames
<1>1. QueueOK'
  BY IntegerSteps DEF IInv, TypeOK, QueueOK
<1>2. JobsOK'
  BY OwnedJobType DEF IInv, TypeOK, JobsOK
<1>3. FramesOK'
  BY <1>0 DEF IInv, TypeOK, FramesOK, PC
<1> QED BY <1>0, <1>1, <1>2, <1>3, LoopMove DEF TypeOK, Busy, WorkerPC, CallPC

\* A worker going to sleep on one of the two teams' conditions preserves
\* IInv.
LEMMA SleepWorkerInv == ASSUME IInv, NEW w \in Workers, SleepWorker(w) PROVE IInv'
<1> USE DEF SleepWorker, AtScanEnd, jobVars, semVars, frameVars
<1>0. w \in Loops /\ w \in Frames /\ w \notin Calls
  BY FrameAssumption DEF Loops, Frames
<1>1. QueueOK'
  BY IntegerSteps DEF IInv, TypeOK, QueueOK
<1>2. JobsOK'
  BY DEF IInv, TypeOK, JobsOK
<1>3. PICK q \in {"sleepA", "sleepB"} : pc' = [pc EXCEPT ![w] = q]
  OBVIOUS
<1>4. FramesOK'
  BY <1>0, <1>3 DEF IInv, TypeOK, FramesOK, PC
<1> QED BY <1>0, <1>1, <1>2, <1>3, <1>4, LoopMove DEF TypeOK, Busy, WorkerPC

\* An owner returning from its wait preserves IInv.
LEMMA WakeOwnerInv == ASSUME IInv, NEW c \in Calls, WakeOwner(c) PROVE IInv'
<1> USE DEF WakeOwner, queueVars, jobVars, semVars, frameVars
<1>0. c \in Loops /\ c \in Frames /\ c \notin Workers
  BY FrameAssumption DEF Loops, Frames
<1>1. QueueOK'
  BY <1>0, IntegerSteps DEF IInv, TypeOK, QueueOK
<1>2. JobsOK'
  BY OwnedJobType DEF IInv, TypeOK, JobsOK
<1>3. FramesOK'
  BY <1>0 DEF IInv, TypeOK, FramesOK, PC
<1> QED BY <1>0, <1>1, <1>2, <1>3, LoopMove DEF TypeOK, Busy, CallPC

\* A worker returning from its wait preserves IInv.
LEMMA WakeWorkerInv == ASSUME IInv, NEW w \in Workers, WakeWorker(w) PROVE IInv'
<1> USE DEF WakeWorker, TeamSizeAfterWait, jobVars, semVars, frameVars
<1>0. w \in Loops /\ w \in Frames /\ w \notin Calls
  BY FrameAssumption DEF Loops, Frames
<1>1. QueueOK'
  BY <1>0, IntegerSteps DEF IInv, TypeOK, QueueOK
<1>2. JobsOK'
  BY DEF IInv, TypeOK, JobsOK
<1>3. FramesOK'
  BY <1>0 DEF IInv, TypeOK, FramesOK, PC
<1> QED BY <1>0, <1>1, <1>2, <1>3, LoopMove DEF TypeOK, Busy, WorkerPC

\* A call taking over the failure of a sibling preserves IInv.
LEMMA InheritFailureInv == ASSUME IInv, NEW c \in Calls, InheritFailure(c) PROVE IInv'
<1> USE DEF InheritFailure, queueVars, sleepVars, semVars, frameVars
<1>1. QueueOK'
  BY DEF IInv, TypeOK, QueueOK
<1>2. Parent(OwnedJob(c)) \in Jobs
  BY OwnedJobType, CallAssumption DEF Parent
<1>3. JobsOK'
  BY <1>2, OwnedJobType DEF IInv, TypeOK, JobsOK
<1>4. FramesOK'
  BY BroadcastPC DEF IInv, TypeOK, FramesOK
<1>5. \A f \in Frames :
        \/ pc'[f] = pc[f]
        \/ pc[f] = "sleepA" /\ pc'[f] = "wokenA"
        \/ pc[f] = "sleepB" /\ pc'[f] = "wokenB"
        \/ pc[f] = "sleepOwner" /\ pc'[f] = "wokenOwner"
  BY BroadcastPC DEF IInv, TypeOK, FramesOK
<1>6. MutexInv'
  BY <1>5 DEF IInv, MutexInv
<1>7. ControlInv'
  BY <1>5 DEF IInv, ControlInv, Busy, WorkerPC, CallPC, Loops, Frames
<1>8. RangeInv'
  BY <1>5, RangeKept DEF IInv, Busy, Frames
<1>9. Calm
  BY <1>5 DEF Calm, Frames, Loops
<1> QED BY <1>1, <1>3, <1>4, <1>6, <1>7, <1>8, <1>9, CalmStep DEF TypeOK

\* A serial task acquiring its semaphores for one more iteration preserves
\* IInv.
LEMMA ClaimMoreInv == ASSUME IInv, NEW f \in Loops, ClaimMore(f) PROVE IInv'
<1> USE DEF ClaimMore, queueVars, sleepVars, jobVars
<1>0. f \in Frames /\ f \notin Clients /\ cur[f] \in Jobs
  BY FrameAssumption DEF IInv, ControlInv, TypeOK, FramesOK, Busy, Frames
<1>1. QueueOK'
  BY DEF IInv, TypeOK, QueueOK
<1>2. JobsOK'
  BY <1>0, MakeRunnableType DEF IInv, TypeOK, JobsOK
<1>r. run[f] \in RunType /\ run'[f] = [run[f] EXCEPT !.iters = run[f].iters + 1]
  BY <1>0 DEF IInv, TypeOK, FramesOK
<1>3. FramesOK'
  <2>1. run'[f] \in RunType
    BY <1>r, FieldTypes, SMTT(30) DEF RunType
  <2> QED BY <1>0, <2>1 DEF IInv, TypeOK, FramesOK
<1>4. InRange(f)'
  <2>1. InRange(f)
    BY DEF IInv, RangeInv
  <2>2. /\ run'[f].min = run[f].min /\ run'[f].total = run[f].total
        /\ run'[f].done = run[f].done /\ run'[f].iters = run[f].iters + 1
    BY <1>r, SMTT(30) DEF RunType
  <2>3. run[f].total \in Nat /\ run[f].iters \in Nat /\ extent[cur[f]] \in Nat
    BY <1>0, <1>r DEF RunType, IInv, TypeOK, JobsOK
  <2> QED BY <2>1, <2>2, <2>3, SMTT(30) DEF InRange, InTask, Busy
<1>5. pc' = [pc EXCEPT ![f] = "claim"]
  BY <1>0 DEF IInv, TypeOK, FramesOK
<1> QED BY <1>0, <1>1, <1>2, <1>3, <1>4, <1>5, TaskMove DEF TypeOK, Busy, IInv, FramesOK

\* A serial task giving up or finishing its batch preserves IInv.
LEMMA ClaimDoneInv == ASSUME IInv, NEW f \in Loops, ClaimDone(f) PROVE IInv'
<1> USE DEF ClaimDone, queueVars, sleepVars, jobVars, frameVars
<1>0. f \in Frames /\ f \notin Clients /\ cur[f] \in Jobs
  BY FrameAssumption DEF IInv, ControlInv, TypeOK, FramesOK, Busy, Frames
<1>1. QueueOK'
  BY DEF IInv, TypeOK, QueueOK
<1>2. JobsOK'
  <2>1. value' \in [Sems -> Nat] /\ next_semaphore' \in [Jobs -> Nat \ {0}]
    BY <1>0, MakeRunnableType DEF IInv, TypeOK, JobsOK, semVars
  <2> QED BY <2>1 DEF IInv, TypeOK, JobsOK
<1>3. PICK q \in {"relock", "body"} :
        /\ pc' = [pc EXCEPT ![f] = q]
        /\ q = "body" <=> run[f].iters # 0
  OBVIOUS
<1>4. FramesOK'
  BY <1>0, <1>3 DEF IInv, TypeOK, FramesOK, PC
<1>5. InRange(f)'
  <2>1. InRange(f)
    BY DEF IInv, RangeInv
  <2> QED BY <1>0, <1>3, <2>1, SMTT(30) DEF InRange, InTask, Busy, IInv, TypeOK, FramesOK, RunType
<1> QED BY <1>0, <1>1, <1>2, <1>3, <1>4, <1>5, TaskMove DEF TypeOK, Busy

\* Going on to the next iteration of a batch preserves IInv.
LEMMA NextIterationInv == ASSUME IInv, NEW f \in Loops, NextIteration(f) PROVE IInv'
<1> USE DEF NextIteration, AtEnd, queueVars, sleepVars, jobVars, semVars
<1>0. f \in Frames /\ f \notin Clients
  BY FrameAssumption DEF Frames
<1>1. QueueOK' /\ JobsOK'
  BY DEF IInv, TypeOK, QueueOK, JobsOK
<1>r. run[f] \in RunType /\ run'[f] = IterationDone(run[f])
  BY <1>0 DEF IInv, TypeOK, FramesOK
<1>2. FramesOK'
  BY <1>0, <1>r, RunTypes DEF IInv, TypeOK, FramesOK
<1>3. InRange(f)'
  <2>1. InRange(f)
    BY DEF IInv, RangeInv
  <2>2. /\ run'[f].min = run[f].min /\ run'[f].total = run[f].total
        /\ run'[f].iters = run[f].iters /\ run'[f].done = run[f].done + 1
    BY <1>r, RunFields
  <2> QED BY <1>r, <2>1, <2>2 DEF InRange, InTask, Busy, RunType
<1>4. pc' = [pc EXCEPT ![f] = "body"]
  BY DEF IInv, TypeOK, FramesOK
<1> QED BY <1>0, <1>1, <1>2, <1>3, <1>4, TaskMove DEF TypeOK, Busy, IInv, FramesOK

\* A task function returning success preserves IInv.
LEMMA TaskReturnsInv == ASSUME IInv, NEW f \in Loops, TaskReturns(f) PROVE IInv'
<1> USE DEF TaskReturns, AtEnd, queueVars, sleepVars, jobVars, semVars
<1>0. f \in Frames /\ f \notin Clients /\ cur[f] \in Jobs
  BY FrameAssumption DEF IInv, ControlInv, TypeOK, FramesOK, Busy, Frames
<1>1. QueueOK' /\ JobsOK'
  BY DEF IInv, TypeOK, QueueOK, JobsOK
<1>r. run[f] \in RunType /\ InRange(f)
  BY <1>0 DEF IInv, TypeOK, FramesOK, RangeInv
<1>2. CASE Serial(cur[f])
  <2>1. run'[f] = SliceDone(run[f]) /\ pc' = [pc EXCEPT ![f] = "claim"]
    BY <1>0, <1>2 DEF IInv, TypeOK, FramesOK
  <2>2. FramesOK'
    <3>1. SliceDone(run[f]) \in RunType /\ "claim" \in PC
      BY <1>r, RunTypes DEF PC
    <3> QED BY <1>0, <1>2, <2>1, <3>1 DEF IInv, TypeOK, FramesOK
  <2>3. InRange(f)'
    <3>1. /\ run'[f].min = run[f].min /\ run'[f].total = run[f].total + run[f].iters
          /\ run'[f].iters = 0 /\ run'[f].done = 0
      BY <1>r, <2>1, RunFields
    <3>2. pc'[f] = "claim"
      BY <1>0, <2>1 DEF IInv, TypeOK, FramesOK
    <3>3. run[f].total \in Nat /\ run[f].iters \in Nat
      BY <1>r DEF RunType
    <3>4. run[f].min = min[cur[f]] /\ run[f].total + run[f].iters <= extent[cur[f]]
      BY <1>2, <1>r DEF InRange, Busy
    <3>5. run'[f].total <= extent[cur[f]] /\ run'[f].total + run'[f].iters <= extent[cur[f]]
      <4>1. run[f].total + run[f].iters + 0 = run[f].total + run[f].iters
        BY <3>3, NoneMore
      <4> QED BY <3>1, <3>4, <4>1
    <3>6. UNCHANGED <<cur, min, extent>>
      OBVIOUS
    <3> HIDE DEF TaskReturns
    <3> QED BY <1>2, <3>1, <3>2, <3>4, <3>5, <3>6 DEF InRange, InTask, Busy, Serial
  <2> QED BY <1>0, <1>1, <1>2, <2>1, <2>2, <2>3, TaskMove DEF TypeOK, Busy, IInv, FramesOK
<1>3. CASE ~Serial(cur[f])
  <2>1. FramesOK'
    BY <1>0, <1>3 DEF IInv, TypeOK, FramesOK, PC
  <2>2. InRange(f)'
    BY <1>0, <1>3 DEF InRange, InTask, IInv, TypeOK, FramesOK
  <2> QED BY <1>0, <1>1, <1>3, <2>1, <2>2, TaskMove DEF TypeOK, Busy
<1> QED BY <1>2, <1>3

\* What the two ways for a task function to fail have in common preserves
\* IInv.
LEMMA ReturnErrorInv ==
  ASSUME IInv, NEW f \in Loops, pc[f] \in {"body", "failed"}, ReturnError(f)
  PROVE  IInv'
<1> USE DEF ReturnError, queueVars, sleepVars, jobVars, semVars
<1>0. f \in Frames /\ f \notin Clients /\ cur[f] \in Jobs
  BY FrameAssumption DEF IInv, ControlInv, TypeOK, FramesOK, Busy, Frames
<1>1. QueueOK' /\ JobsOK'
  BY DEF IInv, TypeOK, QueueOK, JobsOK
<1>r. run[f] \in RunType /\ InRange(f) /\ run'[f] = SliceFailed(run[f])
  BY <1>0 DEF IInv, TypeOK, FramesOK, RangeInv
<1>2. FramesOK'
  BY <1>0, <1>r, RunTypes DEF IInv, TypeOK, FramesOK, PC
<1>3. InRange(f)'
  <2>1. run'[f].min = run[f].min /\ run'[f].total = run[f].total + run[f].iters
    BY <1>r, RunFields
  <2>2. pc'[f] = "relock"
    BY <1>0 DEF IInv, TypeOK, FramesOK
  <2> QED BY <1>r, <2>1, <2>2 DEF InRange, InTask, Busy
<1> QED BY <1>0, <1>1, <1>2, <1>3, TaskMove DEF TypeOK, Busy, IInv, FramesOK

\* A task function returning an error of its own preserves IInv.
LEMMA TaskErrorInv == ASSUME IInv, NEW f \in Loops, TaskError(f) PROVE IInv'
  BY ReturnErrorInv DEF TaskError

\* A task function passing on the error of a nested call preserves IInv.
LEMMA CallErrorInv == ASSUME IInv, NEW f \in Loops, CallError(f) PROVE IInv'
  BY ReturnErrorInv DEF CallError

\* halide_semaphore_init preserves IInv.
LEMMA SemaphoreInitInv == ASSUME IInv, NEW f \in Frames, halide_semaphore_init(f) PROVE IInv'
<1> USE DEF halide_semaphore_init, queueVars, sleepVars, jobVars
<1>0. Step(f).sem \in Sems /\ Step(f).n \in Nat /\ pc[f] = "body"
  BY StepType DEF IInv, AtStep
<1>1. QueueOK'
  BY DEF IInv, TypeOK, QueueOK
<1>2. JobsOK'
  BY <1>0 DEF IInv, TypeOK, JobsOK
<1>3. /\ run' \in [Frames -> RunType]
      /\ f \in Loops => InRange(f)'
      /\ \A g \in Frames : g # f => run'[g] = run[g]
  BY <1>0, NextStepInRange DEF InTask
<1>4. FramesOK' /\ pc' = [pc EXCEPT ![f] = "body"]
  BY <1>0, <1>3 DEF IInv, TypeOK, FramesOK
<1> QED BY <1>0, <1>1, <1>2, <1>3, <1>4, TaskMove DEF TypeOK, Busy

\* halide_semaphore_release, up to its call of the notification, preserves
\* IInv.
LEMMA SemaphoreReleaseInv ==
  ASSUME IInv, NEW f \in Frames, halide_semaphore_release(f) PROVE IInv'
<1> USE DEF halide_semaphore_release, queueVars, sleepVars, jobVars
<1>0. Step(f).sem \in Sems /\ Step(f).n \in Nat /\ pc[f] = "body"
  BY StepType DEF IInv, AtStep
<1>1. QueueOK'
  BY DEF IInv, TypeOK, QueueOK
<1>2. JobsOK'
  BY <1>0, SMTT(30) DEF IInv, TypeOK, JobsOK
<1>3. PICK q \in {"body", "notify"} : pc' = [pc EXCEPT ![f] = q]
  BY <1>0 DEF IInv, TypeOK, FramesOK
<1>4. /\ run' \in [Frames -> RunType]
      /\ f \in Loops => InRange(f)'
      /\ \A g \in Frames : g # f => run'[g] = run[g]
  <2>1. pc'[f] \in InTask /\ pc[f] \in InTask
    BY <1>0, <1>3 DEF InTask, IInv, TypeOK, FramesOK
  <2> QED BY <2>1, NextStepInRange
<1>5. FramesOK'
  BY <1>3, <1>4 DEF IInv, TypeOK, FramesOK, PC
<1> QED BY <1>0, <1>1, <1>2, <1>3, <1>4, <1>5, TaskMove DEF TypeOK, Busy

\* The broadcast after a release from zero preserves IInv.
LEMMA NotifyReleaseInv == ASSUME IInv, NEW f \in Frames, NotifyRelease(f) PROVE IInv'
<1> USE DEF NotifyRelease, queueVars, sleepVars, jobVars, semVars
<1>1. QueueOK' /\ JobsOK'
  BY DEF IInv, TypeOK, QueueOK, JobsOK
<1>2. /\ pc' \in [Frames -> PC] /\ pc'[f] = "body"
      /\ \A g \in Frames : \/ g = f \/ pc'[g] = pc[g]
                           \/ pc[g] = "sleepA" /\ pc'[g] = "wokenA"
                           \/ pc[g] = "sleepB" /\ pc'[g] = "wokenB"
                           \/ pc[g] = "sleepOwner" /\ pc'[g] = "wokenOwner"
  BY BroadcastPC DEF IInv, TypeOK, FramesOK, PC
<1>3. /\ run' \in [Frames -> RunType]
      /\ f \in Loops => InRange(f)'
      /\ \A g \in Frames : g # f => run'[g] = run[g]
  BY <1>2, NextStepInRange DEF InTask
<1>4. FramesOK'
  BY <1>2, <1>3 DEF IInv, TypeOK, FramesOK
<1>5. MutexInv'
  BY <1>2 DEF IInv, MutexInv
<1>6. ControlInv'
  BY <1>2, FrameAssumption DEF IInv, ControlInv, Busy, WorkerPC, CallPC, Loops, Frames
<1>7. RangeInv'
  <2>1. ASSUME NEW g \in Loops PROVE InRange(g)'
    <3>1. CASE g = f BY <1>3, <3>1
    <3>2. CASE g # f
      <4>1. InRange(g) BY DEF IInv, RangeInv
      <4>2. run'[g] = run[g] /\ (pc'[g] = pc[g] \/ pc'[g] \notin Busy)
        BY <1>2, <1>3, <3>2 DEF Frames, Busy
      <4> QED BY <4>1, <4>2 DEF InRange, InTask, Busy
    <3> QED BY <3>1, <3>2
  <2> QED BY <2>1 DEF IInv, RangeInv
<1>8. Calm
  BY <1>2 DEF Calm, Frames, Loops
<1> QED BY <1>1, <1>4, <1>5, <1>6, <1>7, <1>8, CalmStep DEF TypeOK

\* halide_set_num_threads preserves IInv.
LEMMA SetNumThreadsInv ==
  ASSUME IInv, NEW n \in ThreadRequests, halide_set_num_threads(n) PROVE IInv'
<1> USE DEF halide_set_num_threads, sleepVars, jobVars, semVars, frameVars
<1>1. QueueOK'
  <2>1. (IF n = 0 THEN DEFAULT_THREADS ELSE n) \in Int
    BY FrameAssumption, SMTT(30)
  <2>2. desired_threads_working' \in 0..MAX_THREADS
    BY <2>1, ClampType, FrameAssumption, SMTT(30)
  <2> QED BY <2>2 DEF IInv, TypeOK, QueueOK
<1>2. JobsOK' /\ FramesOK'
  BY DEF IInv, TypeOK, JobsOK, FramesOK
<1>3. MutexInv' /\ ControlInv'
  BY DEF IInv, MutexInv, ControlInv
<1>4. RangeInv'
  BY RangeKept DEF IInv
<1>5. Calm
  BY DEF Calm
<1> QED BY <1>1, <1>2, <1>3, <1>4, <1>5, CalmStep DEF TypeOK

-----------------------------------------------------------------------------
(* The invariant.                                                          *)

\* The queue before the first call satisfies IInv.
LEMMA InitIInv == ASSUME Counting, Init PROVE IInv
<1>1. QueueOK
  <2>1. shutdown \in BOOLEAN /\ initialized \in BOOLEAN BY DEF Init
  <2>2. jobs \in Seq(Jobs) /\ mutex \in Loops \cup {NULL} BY SMTT(30) DEF Init
  <2>3. desired_threads_working \in 0..MAX_THREADS /\ threads_created \in 0..MAX_THREADS
    BY FrameAssumption, SMTT(30) DEF Init
  <2> QED BY <2>1, <2>2, <2>3, SMTT(30) DEF Init, QueueOK
<1>2. JobsOK
  <2>1. owner_is_sleeping \in [Jobs -> BOOLEAN] BY DEF Init
  <2>2. value \in [Sems -> Nat] BY TaskAssumption DEF Init
  <2> QED BY <2>1, <2>2, SMTT(30) DEF Init, JobsOK
<1>3. FramesOK
  <2>1. NewRun(0) \in RunType BY NewRunFields
  <2>2. run \in [Frames -> RunType] BY <2>1 DEF Init
  <2>3. pc \in [Frames -> PC] BY DEF Init, PC
  <2> QED BY <2>2, <2>3, SMTT(30) DEF Init, FramesOK
<1>4. /\ \A k \in Clients : pc[k] = "body"
      /\ \A f \in Loops : pc[f] = "idle"
      /\ \A f \in Frames : cur[f] = NULL
      /\ mutex = NULL /\ jobs = <<>> /\ shutdown = FALSE
      /\ \A j \in Jobs : extent[j] = 0 /\ min[j] = 0 /\ active_workers[j] = 0
      /\ \A c \in Calls : idx[c] = 1
  BY FrameAssumption DEF Init, Frames
<1>5. MutexInv
  BY <1>4, FrameAssumption DEF MutexInv, Frames
<1>6. ControlInv
  BY <1>4 DEF ControlInv, WorkerPC, CallPC, Busy, Frames, Loops
<1>7. CallerInv
  BY <1>4 DEF CallerInv, Loops
<1>8. RangeInv
  BY <1>4, TaskAssumption, SMTT(30) DEF RangeInv, InRange, Busy, InTask, Frames
<1>9. \A j \in Jobs : ~Live(j) /\ ~running(j)
  BY <1>4, CallAssumption, SMTT(30) DEF Live, running, Loops
<1>10. JoinInv
  <2>1. \A c \in Calls : Len(CallJobs[c]) \in Nat \ {0} BY CallAssumption, SMTT(30)
  <2> QED BY <1>4, <1>9, <2>1, SMTT(30) DEF JoinInv, Loops
<1>11. StackHoldsPendingJobs
  BY <1>4, <1>9, SMTT(30) DEF StackHoldsPendingJobs, Holds, Distinct
<1>12. ActiveWorkersCounted
  <2>1. \A j \in Jobs : {f \in Frames : cur[f] = j} = {} BY <1>4, FrameAssumption, SMTT(30)
  <2> QED BY <1>4, <2>1 DEF ActiveWorkersCounted, Counting, EmptyCount
<1>13. NoDanglingJob
  BY <1>4, <1>9 DEF NoDanglingJob
<1> QED BY <1>1, <1>2, <1>3, <1>5, <1>6, <1>7, <1>8, <1>10, <1>11, <1>12, <1>13 DEF IInv, TypeOK

\* Nothing changes.
LEMMA StutterInv == ASSUME IInv, UNCHANGED vars PROVE IInv'
<1> USE DEF vars, queueVars, sleepVars, jobVars, semVars, frameVars
<1>1. QueueOK' /\ JobsOK' /\ FramesOK'
  BY DEF IInv, TypeOK, QueueOK, JobsOK, FramesOK
<1>2. MutexInv' /\ ControlInv'
  BY DEF IInv, MutexInv, ControlInv
<1>3. RangeInv'
  BY RangeKept DEF IInv
<1>4. Calm
  BY DEF Calm
<1> QED BY <1>1, <1>2, <1>3, <1>4, CalmStep DEF TypeOK

\* IInv is inductive: every step of the thread pool preserves it.
LEMMA NextIInv == ASSUME Counting, IInv, [Next]_vars PROVE IInv'
<1>1. ASSUME NEW w \in Workers, WorkerStep(w) PROVE IInv'
  BY <1>1, EnterWorkerInv, ExitWorkerInv, SleepWorkerInv, WakeWorkerInv DEF WorkerStep
<1>2. ASSUME NEW c \in Calls, OwnerStep(c) PROVE IInv'
  BY <1>2, JoinNextInv, ReturnInv, DropFailedInv, InheritFailureInv, SleepOwnerInv, WakeOwnerInv
  DEF OwnerStep
<1>3. ASSUME NEW f \in Loops, LoopStep(f) \/ TaskError(f) PROVE IInv'
  BY <1>3, BeginScanInv, SkipJobInv, BlockedJobInv, StartSerialInv, StartParallelInv,
     ClaimMoreInv, ClaimDoneInv, NextIterationInv, TaskReturnsInv, CallErrorInv, FinishJobInv,
     TaskErrorInv
  DEF LoopStep
<1>4. ASSUME NEW f \in Frames, CallStep(f) PROVE IInv'
  BY <1>4, SemaphoreInitInv, SemaphoreReleaseInv, NotifyReleaseInv, DoParallelTasksInv
  DEF CallStep
<1>5. ASSUME NEW n \in ThreadRequests, halide_set_num_threads(n) PROVE IInv'
  BY <1>5, SetNumThreadsInv
<1>6. CASE halide_shutdown_thread_pool BY <1>6, ShutdownInv
<1>7. CASE JoinWorkers BY <1>7, JoinWorkersInv
<1>8. CASE UNCHANGED vars BY <1>8, StutterInv
<1> QED BY <1>1, <1>2, <1>3, <1>4, <1>5, <1>6, <1>7, <1>8 DEF Next, Terminating

-----------------------------------------------------------------------------
(* The counts of the threads that sleep.                                   *)

\* A frame that neither starts nor ends a wait, though it may be woken.
Alike(f) ==
  /\ pc[f] \in {"sleepA", "wokenA"} <=> pc'[f] \in {"sleepA", "wokenA"}
  /\ pc[f] \in {"sleepB", "wokenB"} <=> pc'[f] \in {"sleepB", "wokenB"}
  /\ pc[f] \in {"sleepOwner", "wokenOwner"} <=> pc'[f] \in {"sleepOwner", "wokenOwner"}

\* The counts stay right when no wait starts or ends and no count changes.
LEMMA SleepersKept ==
  ASSUME SleepersCounted, \A f \in Frames : Alike(f),
         UNCHANGED <<workers_sleeping, owners_sleeping, owner_is_sleeping,
                     a_team_size, threads_created>>,
         \A c \in OwnersWaiting : idx'[c] = idx[c]
  PROVE  SleepersCounted'
<1>1. WorkersWaiting' = WorkersWaiting /\ OffTheTeam' = OffTheTeam
  BY DEF WorkersWaiting, OffTheTeam, Alike, Frames, Loops
<1>2. OwnersWaiting' = OwnersWaiting
  BY DEF OwnersWaiting, Alike, Frames, Loops
<1>3. \A c \in OwnersWaiting : OwnedJob(c)' = OwnedJob(c)
  BY DEF OwnedJob, OwnersWaiting
<1> QED BY <1>1, <1>2, <1>3 DEF SleepersCounted

\* A frame of a worker's or an owner's loop takes a step in which it does not
\* sleep.
LEMMA SleepersLoop ==
  ASSUME IInv, SleepersCounted, NEW f \in Loops, LoopStep(f) \/ TaskError(f)
  PROVE  SleepersCounted'
<1>t. pc \in [Frames -> PC] /\ f \in Frames
  BY DEF IInv, TypeOK, FramesOK, Frames
<1>1. CASE BeginScan(f)
  BY <1>t, <1>1, SleepersKept DEF BeginScan, AtHead, sleepVars, queueVars, Alike
<1>2. CASE SkipJob(f)
  BY <1>t, <1>2, SleepersKept DEF SkipJob, sleepVars, queueVars, Alike
<1>3. CASE BlockedJob(f)
  BY <1>t, <1>3, SleepersKept DEF BlockedJob, sleepVars, queueVars, Alike
<1>4. CASE StartSerial(f) \/ StartParallel(f)
  <2>1. pc[f] = "scan" /\ \E q \in {"claim", "body"} : pc' = [pc EXCEPT ![f] = q]
    BY <1>4 DEF StartSerial, StartParallel, AtScan
  <2>2. UNCHANGED <<sleepVars, queueVars, idx>>
    BY <1>4 DEF StartSerial, StartParallel
  <2> QED BY <1>t, <2>1, <2>2, SleepersKept DEF sleepVars, queueVars, Alike
<1>6. CASE ClaimMore(f)
  BY <1>t, <1>6, SleepersKept DEF ClaimMore, sleepVars, queueVars, Alike
<1>7. CASE ClaimDone(f)
  BY <1>t, <1>7, SleepersKept DEF ClaimDone, sleepVars, queueVars, frameVars, Alike
<1>8. CASE NextIteration(f)
  BY <1>t, <1>8, SleepersKept DEF NextIteration, sleepVars, queueVars, Alike
<1>9. CASE TaskReturns(f)
  BY <1>t, <1>9, SleepersKept DEF TaskReturns, AtEnd, sleepVars, queueVars, Alike
<1>10. CASE CallError(f) \/ TaskError(f)
  BY <1>t, <1>10, SleepersKept DEF CallError, TaskError, ReturnError, sleepVars, queueVars, Alike
<1>11. CASE FinishJob(f)
  BY <1>t, <1>11, SleepersKept, BroadcastPC DEF FinishJob, sleepVars, queueVars, Alike
<1> QED BY <1>1, <1>2, <1>3, <1>4, <1>6, <1>7, <1>8, <1>9, <1>10, <1>11 DEF LoopStep

\* The sleeping threads can be counted.
LEMMA SleepersFinite ==
  ASSUME Counting
  PROVE  IsFiniteSet(WorkersWaiting) /\ IsFiniteSet(OwnersWaiting) /\ IsFiniteSet(OffTheTeam)
<1>1. WorkersWaiting \subseteq Workers /\ OffTheTeam \subseteq Workers /\ OwnersWaiting \subseteq Calls
  BY DEF WorkersWaiting, OffTheTeam, OwnersWaiting
<1>2. IsFiniteSet(Workers) /\ IsFiniteSet(Calls)
  BY FrameAssumption DEF Workers, Counting, FramesFinite
<1> QED BY <1>1, <1>2 DEF Counting, FiniteSubsets

\* An owner joins a job, returns, fails, sleeps or wakes.
LEMMA SleepersOwner ==
  ASSUME Counting, IInv, SleepersCounted, NEW c \in Calls, OwnerStep(c)
  PROVE  SleepersCounted'
<1>t. pc \in [Frames -> PC] /\ c \in Frames /\ caller[c] \in Frames \cup {NULL}
      /\ idx \in [Calls -> Nat \ {0}] /\ owner_is_sleeping \in [Jobs -> BOOLEAN]
      /\ OwnedJob(c) \in Jobs /\ CallOf[OwnedJob(c)] = c
  BY OwnedJobType DEF IInv, TypeOK, FramesOK, JobsOK, Frames, Loops
<1>f. IsFiniteSet(OwnersWaiting)
  BY SleepersFinite
<1>1. CASE JoinNext(c)
  BY <1>t, <1>1, SleepersKept DEF JoinNext, AtHead, sleepVars, queueVars, Alike, OwnersWaiting
<1>2. CASE Return(c)
  <2>1. pc[c] = "head" /\ caller[c] \in Frames /\ pc[caller[c]] = "calling"
    BY <1>2 DEF Return, AtHead, IInv, CallerInv
  <2>2. pc'[caller[c]] \in {"failed", "body"} /\ pc'[c] \in {"idle", "failed", "body"}
        /\ \A f \in Frames : f # c /\ f # caller[c] => pc'[f] = pc[f]
    BY <1>2, <1>t, <2>1 DEF Return
  <2>3. \A f \in Frames : Alike(f)
    BY <2>1, <2>2 DEF Alike
  <2> QED BY <1>2, <2>3, SleepersKept DEF Return, sleepVars, queueVars
<1>3. CASE DropFailed(c)
  BY <1>t, <1>3, SleepersKept DEF DropFailed, sleepVars, queueVars, frameVars, Alike
<1>4. CASE InheritFailure(c)
  <2>1. UNCHANGED <<sleepVars, queueVars, idx>> /\ pc' = Broadcast({"owner"})
    BY <1>4 DEF InheritFailure, frameVars
  <2> QED BY <1>t, <2>1, SleepersKept, BroadcastPC DEF sleepVars, queueVars, Alike
<1>5. CASE SleepOwner(c)
  <2>1. /\ pc[c] = "scan" /\ pc' = [pc EXCEPT ![c] = "sleepOwner"]
        /\ owners_sleeping' = owners_sleeping + 1
        /\ owner_is_sleeping' = [owner_is_sleeping EXCEPT ![OwnedJob(c)] = TRUE]
        /\ UNCHANGED <<workers_sleeping, queueVars, idx>>
    BY <1>5 DEF SleepOwner, AtScanEnd, frameVars
  <2>2. OwnersWaiting' = OwnersWaiting \cup {c} /\ c \notin OwnersWaiting
    BY <1>t, <2>1 DEF OwnersWaiting, Frames, Loops
  <2>3. Cardinality(OwnersWaiting') = Cardinality(OwnersWaiting) + 1
    BY <1>f, <2>2 DEF Counting, OneMore
  <2>4. WorkersWaiting' = WorkersWaiting /\ OffTheTeam' = OffTheTeam
    BY <1>t, <2>1, FrameAssumption DEF WorkersWaiting, OffTheTeam, Frames, Loops
  <2>5. \A d \in Calls : OwnedJob(d)' = OwnedJob(d)
    BY <2>1 DEF OwnedJob
  <2>6. \A d \in Calls : \A j \in JobsOf(d) :
          owner_is_sleeping'[j] => j = OwnedJob(d) /\ d \in OwnersWaiting'
    BY <1>t, <2>1, <2>2 DEF SleepersCounted, JobsOf
  <2> QED BY <2>1, <2>3, <2>4, <2>5, <2>6 DEF SleepersCounted, queueVars
<1>6. CASE WakeOwner(c)
  <2>1. /\ pc[c] = "wokenOwner" /\ pc' = [pc EXCEPT ![c] = "head"]
        /\ owners_sleeping' = owners_sleeping - 1
        /\ owner_is_sleeping' = [owner_is_sleeping EXCEPT ![OwnedJob(c)] = FALSE]
        /\ UNCHANGED <<workers_sleeping, queueVars, idx>>
    BY <1>6 DEF WakeOwner, frameVars
  <2>2. OwnersWaiting' = OwnersWaiting \ {c} /\ c \in OwnersWaiting
    BY <1>t, <2>1 DEF OwnersWaiting, Frames, Loops
  <2>3. Cardinality(OwnersWaiting') = Cardinality(OwnersWaiting) - 1
    BY <1>f, <2>2 DEF Counting, OneLess
  <2>4. WorkersWaiting' = WorkersWaiting /\ OffTheTeam' = OffTheTeam
    BY <1>t, <2>1, FrameAssumption DEF WorkersWaiting, OffTheTeam, Frames, Loops
  <2>5. \A d \in Calls : OwnedJob(d)' = OwnedJob(d)
    BY <2>1 DEF OwnedJob
  <2>6. \A d \in Calls : \A j \in JobsOf(d) :
          owner_is_sleeping'[j] => j = OwnedJob(d) /\ d \in OwnersWaiting'
    BY <1>t, <2>1, <2>2 DEF SleepersCounted, JobsOf
  <2> QED BY <2>1, <2>3, <2>4, <2>5, <2>6 DEF SleepersCounted, queueVars
<1> QED BY <1>1, <1>2, <1>3, <1>4, <1>5, <1>6 DEF OwnerStep

\* A worker enters its loop, leaves it, sleeps or wakes.
LEMMA SleepersWorker ==
  ASSUME Counting, IInv, SleepersCounted, NEW w \in Workers, WorkerStep(w)
  PROVE  SleepersCounted'
<1>t. pc \in [Frames -> PC] /\ w \in Frames /\ w \notin Calls
      /\ a_team_size \in Int /\ threads_created \in 0..MAX_THREADS
  BY FrameAssumption DEF IInv, TypeOK, FramesOK, QueueOK, Frames, Loops
<1>f. IsFiniteSet(WorkersWaiting) /\ IsFiniteSet(OffTheTeam)
  BY SleepersFinite
<1>c. Cardinality(WorkersWaiting) \in Nat /\ Cardinality(OffTheTeam) \in Nat
  BY <1>f DEF Counting, NaturalCount
<1>1. CASE EnterWorker(w)
  BY <1>t, <1>1, SleepersKept DEF EnterWorker, sleepVars, queueVars, frameVars, Alike
<1>2. CASE ExitWorker(w)
  BY <1>t, <1>2, SleepersKept DEF ExitWorker, AtHead, sleepVars, queueVars, frameVars, Alike
<1>o. ASSUME UNCHANGED <<owners_sleeping, owner_is_sleeping, idx>>,
             \A f \in Frames : f # w => pc'[f] = pc[f]
      PROVE  /\ owners_sleeping' = Cardinality(OwnersWaiting')
             /\ \A c \in Calls : \A j \in JobsOf(c) :
                  owner_is_sleeping'[j] => j = OwnedJob(c)' /\ c \in OwnersWaiting'
  <2>1. \A c \in Calls : c \in Frames /\ c # w
    BY <1>t DEF Frames, Loops
  <2>2. OwnersWaiting' = OwnersWaiting
    BY <1>o, <2>1 DEF OwnersWaiting
  <2>3. \A c \in Calls : OwnedJob(c)' = OwnedJob(c)
    BY <1>o DEF OwnedJob
  <2> QED BY <1>o, <2>2, <2>3 DEF SleepersCounted
<1>3. CASE SleepWorker(w)
  <2>1. /\ pc[w] = "scan" /\ workers_sleeping' = workers_sleeping + 1
        /\ a_team_size' = IF a_team_size > target_a_team_size THEN a_team_size - 1 ELSE a_team_size
        /\ pc' = [pc EXCEPT ![w] = IF a_team_size > target_a_team_size THEN "sleepB" ELSE "sleepA"]
        /\ UNCHANGED <<owners_sleeping, owner_is_sleeping, idx, threads_created>>
    BY <1>3 DEF SleepWorker, AtScanEnd, frameVars
  <2>2. \A f \in Frames : f # w => pc'[f] = pc[f]
    BY <1>t, <2>1
  <2>3. WorkersWaiting' = WorkersWaiting \cup {w} /\ w \notin WorkersWaiting /\ w \notin OffTheTeam
        /\ OffTheTeam' = IF a_team_size > target_a_team_size THEN OffTheTeam \cup {w} ELSE OffTheTeam
    BY <1>t, <2>1 DEF WorkersWaiting, OffTheTeam, Frames, Loops
  <2>4. Cardinality(WorkersWaiting') = Cardinality(WorkersWaiting) + 1
    BY <1>f, <2>3 DEF Counting, OneMore
  <2>5. Cardinality(OffTheTeam \cup {w}) = Cardinality(OffTheTeam) + 1
    BY <1>f, <2>3 DEF Counting, OneMore
  <2>6. a_team_size' = threads_created' - Cardinality(OffTheTeam')
    BY <1>t, <1>c, <2>1, <2>3, <2>5, SMTT(30) DEF SleepersCounted
  <2> QED BY <1>o, <2>1, <2>2, <2>4, <2>6 DEF SleepersCounted
<1>4. CASE WakeWorker(w)
  <2>1. /\ pc[w] \in {"wokenA", "wokenB"} /\ workers_sleeping' = workers_sleeping - 1
        /\ a_team_size' = IF pc[w] = "wokenB" THEN a_team_size + 1 ELSE a_team_size
        /\ pc' = [pc EXCEPT ![w] = "head"]
        /\ UNCHANGED <<owners_sleeping, owner_is_sleeping, idx, threads_created>>
    BY <1>4 DEF WakeWorker, TeamSizeAfterWait, frameVars
  <2>2. \A f \in Frames : f # w => pc'[f] = pc[f]
    BY <1>t, <2>1
  <2>3. WorkersWaiting' = WorkersWaiting \ {w} /\ w \in WorkersWaiting
        /\ OffTheTeam' = (IF pc[w] = "wokenB" THEN OffTheTeam \ {w} ELSE OffTheTeam)
        /\ (pc[w] = "wokenB" => w \in OffTheTeam)
    BY <1>t, <2>1 DEF WorkersWaiting, OffTheTeam, Frames, Loops
  <2>4. Cardinality(WorkersWaiting') = Cardinality(WorkersWaiting) - 1
    BY <1>f, <2>3 DEF Counting, OneLess
  <2>5. w \in OffTheTeam => Cardinality(OffTheTeam \ {w}) = Cardinality(OffTheTeam) - 1
    BY <1>f DEF Counting, OneLess
  <2>6. a_team_size' = threads_created' - Cardinality(OffTheTeam')
    BY <1>t, <1>c, <2>1, <2>3, <2>5, SMTT(30) DEF SleepersCounted
  <2> QED BY <1>o, <2>1, <2>2, <2>4, <2>6 DEF SleepersCounted
<1> QED BY <1>1, <1>2, <1>3, <1>4 DEF WorkerStep

\* The runtime calls of a task: those that wake sleepers do not count them out.
LEMMA SleepersCall ==
  ASSUME Counting, IInv, SleepersCounted, NEW f \in Frames, CallStep(f)
  PROVE  SleepersCounted'
<1>t. pc \in [Frames -> PC] /\ a_team_size \in Int /\ threads_created \in 0..MAX_THREADS
  BY DEF IInv, TypeOK, FramesOK, QueueOK
<1>1. CASE halide_semaphore_init(f)
  BY <1>t, <1>1, SleepersKept DEF halide_semaphore_init, sleepVars, queueVars, Alike
<1>2. CASE halide_semaphore_release(f)
  BY <1>t, <1>2, SleepersKept DEF halide_semaphore_release, AtStep, sleepVars, queueVars, Alike
<1>3. CASE NotifyRelease(f)
  BY <1>t, <1>3, SleepersKept, BroadcastPC DEF NotifyRelease, sleepVars, queueVars, Alike
<1>4. CASE halide_do_parallel_tasks(f)
  <2> DEFINE c == Step(f).call
  <2>0. AtStep(f, "call") /\ pc[f] = "body" /\ pc[c] = "idle"
    BY <1>4 DEF halide_do_parallel_tasks, AtStep
  <2>1. c \in Calls
    BY <2>0, StepType DEF IInv
  <2> HIDE DEF c
  <2>2. /\ pc'[f] = "calling" /\ pc'[c] = "head"
        /\ \A g \in Frames : g # f /\ g # c =>
              \/ pc'[g] = pc[g]
              \/ pc[g] = "idle" /\ pc'[g] = "enter" /\ g \in Workers /\ g <= threads_created'
              \/ pc[g] = "sleepA" /\ pc'[g] = "wokenA"
              \/ pc[g] = "sleepB" /\ pc'[g] = "wokenB"
              \/ pc[g] = "sleepOwner" /\ pc'[g] = "wokenOwner"
    BY <1>4, <2>1, EnqueuePC DEF c
  <2>3. \A g \in Frames : Alike(g)
    BY <2>0, <2>2 DEF Alike
  <2>4. WorkersWaiting' = WorkersWaiting /\ OwnersWaiting' = OwnersWaiting /\ OffTheTeam' = OffTheTeam
    BY <2>3 DEF WorkersWaiting, OwnersWaiting, OffTheTeam, Alike, Frames, Loops
  <2>5. \E n \in threads_created..MAX_THREADS :
          threads_created' = n /\ a_team_size' = a_team_size + (n - threads_created)
    BY <1>4 DEF halide_do_parallel_tasks
  <2>6. /\ owner_is_sleeping' = [j \in Jobs |-> IF CallOf[j] = c THEN FALSE ELSE owner_is_sleeping[j]]
        /\ idx' = [idx EXCEPT ![c] = 1]
        /\ UNCHANGED <<workers_sleeping, owners_sleeping>>
    BY <1>4 DEF halide_do_parallel_tasks, c
  <2>7. \A d \in Calls : d # c => OwnedJob(d)' = OwnedJob(d)
    BY <2>6 DEF OwnedJob, IInv, TypeOK, FramesOK
  <2>8. \A d \in Calls : \A j \in JobsOf(d) :
          owner_is_sleeping'[j] => j = OwnedJob(d)' /\ d \in OwnersWaiting'
    BY <2>4, <2>6, <2>7 DEF SleepersCounted, JobsOf
  <2>9. a_team_size' = threads_created' - Cardinality(OffTheTeam')
    BY <1>t, <2>4, <2>5, SleepersFinite, SMTT(30) DEF SleepersCounted, Counting, NaturalCount
  <2> QED BY <2>4, <2>6, <2>8, <2>9 DEF SleepersCounted
<1> QED BY <1>1, <1>2, <1>3, <1>4 DEF CallStep

\* What the application does: a shutdown wakes every sleeper, and when the workers
\* are joined nobody sleeps.
LEMMA SleepersApplication ==
  ASSUME Counting, IInv, SleepersCounted,
         \/ \E n \in ThreadRequests : halide_set_num_threads(n)
         \/ halide_shutdown_thread_pool \/ JoinWorkers \/ Terminating \/ UNCHANGED vars
  PROVE  SleepersCounted'
<1>t. pc \in [Frames -> PC]
  BY DEF IInv, TypeOK, FramesOK
<1>1. CASE \E n \in ThreadRequests : halide_set_num_threads(n)
  BY <1>1, SleepersKept DEF halide_set_num_threads, sleepVars, frameVars, Alike
<1>2. CASE halide_shutdown_thread_pool
  BY <1>t, <1>2, SleepersKept, BroadcastPC DEF halide_shutdown_thread_pool, sleepVars, frameVars, Alike
<1>3. CASE JoinWorkers
  <2>1. \A w \in Workers : pc[w] \in {"exited", "idle"}
    BY <1>3, FrameAssumption, SMTT(30) DEF JoinWorkers, IInv, ControlInv, TypeOK, QueueOK, Workers
  <2>2. \A c \in Calls : pc[c] = "idle"
    BY <1>3 DEF JoinWorkers, IInv, JoinInv
  <2>3. \A f \in Frames : pc'[f] = IF pc[f] = "exited" THEN "idle" ELSE pc[f]
    BY <1>3 DEF JoinWorkers
  <2>4. \A f \in Loops : pc'[f] = "idle"
    BY <2>1, <2>2, <2>3 DEF Frames, Loops
  <2>5. WorkersWaiting' = {} /\ OwnersWaiting' = {} /\ OffTheTeam' = {}
    BY <2>4 DEF WorkersWaiting, OwnersWaiting, OffTheTeam, Loops
  <2>6. OwnersWaiting = {}
    BY <2>2 DEF OwnersWaiting
  <2>7. /\ workers_sleeping' = 0 /\ owners_sleeping' = 0 /\ a_team_size' = 0 /\ threads_created' = 0
        /\ UNCHANGED owner_is_sleeping
    BY <1>3 DEF JoinWorkers
  <2>8. Cardinality({}) = 0
    BY DEF Counting, EmptyCount
  <2>9. \A c \in Calls : \A j \in JobsOf(c) : ~owner_is_sleeping'[j]
    BY <2>6, <2>7 DEF SleepersCounted
  <2>10. a_team_size' = threads_created' - 0
    BY <2>7, SMTT(30)
  <2> QED BY <2>5, <2>7, <2>8, <2>9, <2>10 DEF SleepersCounted
<1>4. CASE Terminating \/ UNCHANGED vars
  BY <1>4, SleepersKept DEF Terminating, vars, sleepVars, queueVars, frameVars, Alike
<1> QED BY <1>1, <1>2, <1>3, <1>4

\* At the start nobody sleeps.
LEMMA SleepersInit == ASSUME Counting, Init PROVE SleepersCounted
<1>1. \A f \in Frames : pc[f] \in {"body", "idle"}
  BY DEF Init
<1>2. WorkersWaiting = {} /\ OwnersWaiting = {} /\ OffTheTeam = {}
  BY <1>1 DEF WorkersWaiting, OwnersWaiting, OffTheTeam, Frames, Loops
<1>3. Cardinality({}) = 0
  BY DEF Counting, EmptyCount
<1>4. \A j \in Jobs : ~owner_is_sleeping[j]
  BY DEF Init
<1>5. workers_sleeping = 0 /\ owners_sleeping = 0 /\ a_team_size = 0 /\ threads_created = 0
  BY DEF Init
<1> QED BY <1>2, <1>3, <1>4, <1>5, SMTT(30) DEF SleepersCounted, JobsOf

\* Every step keeps the counts of the sleepers.
LEMMA SleepersStep ==
  ASSUME Counting, IInv, SleepersCounted, [Next]_vars
  PROVE  SleepersCounted'
  BY SleepersLoop, SleepersOwner, SleepersWorker, SleepersCall, SleepersApplication DEF Next

-----------------------------------------------------------------------------
(* The threads that are reserved.                                          *)

\* What is reserved is a number, and what each frame needs is too.
LEMMA ReservedType ==
  ASSUME Counting, IInv, NEW p
  PROVE  /\ IsFiniteSet(RunsFor(p)) /\ Reserved(p) \in Nat
         /\ \A f \in Frames : Needs[f] \in Nat /\ Needs[f] =
              IF cur[f] = NULL THEN 0 ELSE Task[cur[f]].min_threads
         /\ RunsFor(p) \subseteq Frames
<1>1. RunsFor(p) \subseteq Frames
  BY DEF RunsFor
<1>2. IsFiniteSet(RunsFor(p))
  BY <1>1 DEF Counting, FiniteSubsets, FramesFinite
<1>3. \A f \in Frames : cur[f] \in Jobs \cup {NULL}
  BY DEF IInv, TypeOK, FramesOK
<1>4. \A j \in Jobs : Task[j].min_threads \in Nat
  BY TaskAssumption
<1>5. \A f \in Frames : Needs[f] \in Nat /\ Needs[f] =
              IF cur[f] = NULL THEN 0 ELSE Task[cur[f]].min_threads
  BY <1>3, <1>4 DEF Needs
<1>6. Reserved(p) \in Nat
  BY <1>1, <1>2, <1>5 DEF Reserved, Counting, SumNatural
<1> QED BY <1>1, <1>2, <1>5, <1>6

\* A frame that starts a job adds what the job needs to what is reserved on the
\* parent of the job, and to nothing else.
LEMMA ReservedMore ==
  ASSUME Counting, IInv, NEW f \in Frames, NEW j \in Jobs, cur[f] = NULL,
         cur' = [cur EXCEPT ![f] = j], NEW p
  PROVE  Reserved(p)' = IF p = Parent(j) THEN Reserved(p) + Task[j].min_threads ELSE Reserved(p)
<1>t. cur \in [Frames -> Jobs \cup {NULL}] /\ NULL \notin Jobs /\ Task[j].min_threads \in Nat
  BY FrameAssumption, TaskAssumption DEF IInv, TypeOK, FramesOK
<1>1. cur'[f] = j /\ \A g \in Frames : g # f => cur'[g] = cur[g]
  BY <1>t
<1>2. Needs'[f] = Task[j].min_threads /\ \A g \in Frames : g # f => Needs'[g] = Needs[g]
  BY <1>1, <1>t DEF Needs
<1>3. f \notin RunsFor(p)
        /\ RunsFor(p)' = IF p = Parent(j) THEN RunsFor(p) \cup {f} ELSE RunsFor(p)
  BY <1>1, <1>t DEF RunsFor, Parent
<1>r. /\ IsFiniteSet(RunsFor(p))
      /\ \A g \in Frames : Needs[g] \in Nat
      /\ RunsFor(p) \subseteq Frames
  BY ReservedType
<1>4. SumOver(RunsFor(p), Needs') = SumOver(RunsFor(p), Needs)
  <2>1. \A g \in RunsFor(p) : Needs'[g] = Needs[g]
    BY <1>2, <1>3, <1>r
  <2> HIDE DEF Needs, RunsFor
  <2> QED BY <2>1, SumSame
<1>5. SumOver(RunsFor(p) \cup {f}, Needs') = SumOver(RunsFor(p), Needs') + Task[j].min_threads
  <2>1. \A g \in RunsFor(p) : Needs'[g] \in Nat
    BY <1>2, <1>3, <1>r
  <2>2. Needs'[f] \in Nat
    BY <1>2, <1>t
  <2>3. SumOver(RunsFor(p) \cup {f}, Needs') = SumOver(RunsFor(p), Needs') + Needs'[f]
    BY <1>3, <1>r, <2>1, <2>2 DEF Counting, SumMore
  <2> QED BY <1>2, <2>3
<1> QED BY <1>3, <1>4, <1>5 DEF Reserved

\* A frame that ends its work on a job takes it away again.
LEMMA ReservedLess ==
  ASSUME Counting, IInv, NEW f \in Frames, NEW j \in Jobs, cur[f] = j,
         cur' = [cur EXCEPT ![f] = NULL], NEW p
  PROVE  Reserved(p)' = IF p = Parent(j) THEN Reserved(p) - Task[j].min_threads ELSE Reserved(p)
<1>t. cur \in [Frames -> Jobs \cup {NULL}] /\ NULL \notin Jobs /\ Task[j].min_threads \in Nat
  BY FrameAssumption, TaskAssumption DEF IInv, TypeOK, FramesOK
<1>1. cur'[f] = NULL /\ \A g \in Frames : g # f => cur'[g] = cur[g]
  BY <1>t
<1>2. Needs[f] = Task[j].min_threads /\ \A g \in Frames : g # f => Needs'[g] = Needs[g]
  BY <1>1, <1>t DEF Needs
<1> DEFINE S == RunsFor(p)'
<1>3. f \notin S /\ RunsFor(p) = IF p = Parent(j) THEN S \cup {f} ELSE S
  BY <1>1, <1>t DEF RunsFor, Parent
<1>r. /\ IsFiniteSet(RunsFor(p))
      /\ \A g \in Frames : Needs[g] \in Nat
      /\ RunsFor(p) \subseteq Frames /\ Reserved(p) \in Nat
  BY ReservedType
<1>s. S \subseteq RunsFor(p) /\ IsFiniteSet(S)
  <2>1. S \subseteq RunsFor(p)
    BY <1>3
  <2> HIDE DEF S
  <2> QED BY <1>r, <2>1 DEF Counting, FiniteSubsets
<1>4. SumOver(S, Needs') = SumOver(S, Needs)
  <2>1. \A g \in S : Needs'[g] = Needs[g]
    BY <1>2, <1>3, <1>r, <1>s
  <2> HIDE DEF S
  <2> QED BY <2>1, SumSame
<1>5. SumOver(S \cup {f}, Needs) = SumOver(S, Needs) + Task[j].min_threads /\ SumOver(S, Needs) \in Nat
  <2>1. \A g \in S : Needs[g] \in Nat
    BY <1>r, <1>s
  <2> HIDE DEF S
  <2>2. SumOver(S \cup {f}, Needs) = SumOver(S, Needs) + Needs[f] /\ SumOver(S, Needs) \in Nat
    BY <1>3, <1>r, <1>s, <2>1 DEF Counting, SumNatural, SumMore
  <2> QED BY <1>2, <2>2
<1>6. Reserved(p)' = SumOver(S, Needs) /\ Reserved(p) = SumOver(RunsFor(p), Needs)
  BY <1>4 DEF Reserved
<1> HIDE DEF S
<1> QED BY <1>3, <1>5, <1>6, <1>t, SMTT(30)

\* The numbers that a reservation is made of.
LEMMA ParentType ==
  ASSUME IInv, NEW j \in Jobs
  PROVE  threads_created \in Int /\ Task[j].min_threads \in Nat /\ Parent(j) \in Jobs \cup {NULL}
<1>1. threads_created \in 0..MAX_THREADS
  BY DEF IInv, TypeOK, QueueOK
<1>2. Task[j].min_threads \in Nat
  BY TaskAssumption
<1>3. Parent(j) \in Jobs \cup {NULL}
  BY CallAssumption DEF Parent
<1> QED BY <1>1, <1>2, <1>3, FrameAssumption, SMTT(30)

\* A step that starts and ends no job and reserves nothing.
LEMMA ReservedKept ==
  ASSUME ReservationsBalanced, UNCHANGED <<cur, threads_reserved, job_reserved, threads_created>>,
         \A c \in Calls : pc[c] = "idle" => pc'[c] = "idle"
  PROVE  ReservationsBalanced'
<1>1. \A p : Reserved(p)' = Reserved(p)
  BY DEF Reserved, RunsFor, Needs
<1>2. \A j \in Jobs : Live(j)' => Live(j)
  BY CallAssumption DEF Live
<1> QED BY <1>1, <1>2 DEF ReservationsBalanced

\* A frame starts a job for which there are enough threads.
LEMMA ReservedStart ==
  ASSUME Counting, IInv, ReservationsBalanced, NEW f \in Loops, StartSerial(f) \/ StartParallel(f)
  PROVE  ReservationsBalanced'
<1> DEFINE j == jobs[cursor[f]]
<1>1. /\ AtScan(f) /\ pc[f] = "scan" /\ enough_threads(j) /\ Reserve(j, 1)
      /\ cur' = [cur EXCEPT ![f] = j] /\ \E q \in {"claim", "body"} : pc' = [pc EXCEPT ![f] = q]
      /\ UNCHANGED threads_created
  BY DEF StartSerial, StartParallel, AtScan, CanStart, queueVars
<1>2. j \in Jobs
  BY <1>1, AtScanJob
<1> HIDE DEF j
<1>t. /\ f \in Frames /\ cur[f] = NULL /\ pc \in [Frames -> PC] /\ NULL \notin Jobs
      /\ threads_reserved \in Int /\ job_reserved \in [Jobs -> Int]
  <2>1. f \in Frames /\ pc \in [Frames -> PC] /\ NULL \notin Jobs
        /\ threads_reserved \in Int /\ job_reserved \in [Jobs -> Int]
    BY FrameAssumption DEF Frames, IInv, TypeOK, FramesOK, QueueOK, JobsOK
  <2>2. pc[f] \notin Busy
    BY <1>1 DEF Busy
  <2> QED BY <2>1, <2>2 DEF IInv, ControlInv
<1>n. threads_created \in Int /\ Task[j].min_threads \in Nat /\ Parent(j) \in Jobs \cup {NULL}
  BY <1>2, ParentType
<1>3. \A p : Reserved(p)' = IF p = Parent(j) THEN Reserved(p) + Task[j].min_threads ELSE Reserved(p)
  BY <1>1, <1>2, <1>t, ReservedMore
<1>4. \A p \in Jobs : Live(p)' => Live(p)
  BY <1>1, <1>t, CallAssumption DEF Live, Frames, Loops
<1>5. CASE Parent(j) = NULL
  <2>1. threads_reserved' = threads_reserved + Task[j].min_threads /\ UNCHANGED job_reserved
    BY <1>1, <1>5, <1>n, <1>t, SMTT(30) DEF Reserve
  <2>2. (threads_created + 1) - threads_reserved >= Task[j].min_threads
    BY <1>1, <1>5 DEF enough_threads, threads_available
  <2>3. threads_reserved' = Reserved(NULL)' /\ threads_reserved' <= threads_created' + 1
    <3>1. threads_reserved = Reserved(NULL) /\ threads_created' = threads_created
      BY <1>1 DEF ReservationsBalanced
    <3>2. Reserved(NULL)' = Reserved(NULL) + Task[j].min_threads
      BY <1>3, <1>5
    <3>3. threads_reserved + Task[j].min_threads <= threads_created + 1
      BY <1>n, <1>t, <2>2, SMTT(30)
    <3> QED BY <2>1, <3>1, <3>2, <3>3
  <2>4. \A p \in Jobs : Reserved(p)' = Reserved(p)
    BY <1>3, <1>5, <1>t
  <2> QED BY <1>4, <2>1, <2>3, <2>4 DEF ReservationsBalanced
<1>6. CASE Parent(j) # NULL
  <2>1. /\ job_reserved' = [job_reserved EXCEPT ![Parent(j)] = @ + Task[j].min_threads]
        /\ UNCHANGED threads_reserved
    BY <1>1, <1>6, <1>n, <1>t, SMTT(30) DEF Reserve
  <2>2. threads_reserved' = Reserved(NULL)' /\ threads_reserved' <= threads_created' + 1
    BY <1>1, <1>3, <1>6, <2>1 DEF ReservationsBalanced
  <2>3. \A p \in Jobs : Live(p)' => job_reserved'[p] = Reserved(p)'
    BY <1>3, <1>4, <1>6, <1>n, <1>t, <2>1 DEF ReservationsBalanced
  <2> QED BY <2>2, <2>3 DEF ReservationsBalanced
<1> QED BY <1>5, <1>6

\* A frame is done with its job and gives back what the job needed.
LEMMA ReservedFinish ==
  ASSUME Counting, IInv, ReservationsBalanced, NEW f \in Loops, FinishJob(f)
  PROVE  ReservationsBalanced'
<1> DEFINE j == cur[f]
<1>1. /\ pc[f] = "relock" /\ Reserve(j, -1) /\ cur' = [cur EXCEPT ![f] = NULL]
      /\ pc' \in {[pc EXCEPT ![f] = "head"], [Broadcast({"owner"}) EXCEPT ![f] = "head"]}
      /\ UNCHANGED threads_created
  <2>1. pc' = [(IF MustWakeOwner(f) THEN Broadcast({"owner"}) ELSE pc) EXCEPT ![f] = "head"]
    BY DEF FinishJob
  <2>2. pc' \in {[pc EXCEPT ![f] = "head"], [Broadcast({"owner"}) EXCEPT ![f] = "head"]}
    BY <2>1
  <2> QED BY <2>2 DEF FinishJob, queueVars
<1>t. /\ f \in Frames /\ j \in Jobs /\ pc \in [Frames -> PC] /\ NULL \notin Jobs
      /\ threads_reserved \in Int /\ job_reserved \in [Jobs -> Int]
  <2>1. f \in Frames /\ pc \in [Frames -> PC] /\ NULL \notin Jobs /\ cur[f] \in Jobs \cup {NULL}
        /\ threads_reserved \in Int /\ job_reserved \in [Jobs -> Int]
    BY FrameAssumption DEF Frames, IInv, TypeOK, FramesOK, QueueOK, JobsOK
  <2>2. pc[f] \in Busy
    BY <1>1 DEF Busy
  <2> QED BY <2>1, <2>2 DEF IInv, ControlInv
<1>3. \A p : Reserved(p)' = IF p = Parent(j) THEN Reserved(p) - Task[j].min_threads ELSE Reserved(p)
  BY <1>1, <1>t, ReservedLess
<1> HIDE DEF j
<1>n. threads_created \in Int /\ Task[j].min_threads \in Nat /\ Parent(j) \in Jobs \cup {NULL}
  BY <1>t, ParentType
<1>4. \A p \in Jobs : Live(p)' => Live(p)
  <2>1. \A g \in Frames : pc[g] = "idle" => pc'[g] = "idle"
    BY <1>1, <1>t, BroadcastPC
  <2> QED BY <2>1, CallAssumption DEF Live, Frames, Loops
<1>5. CASE Parent(j) = NULL
  <2>1. threads_reserved' = threads_reserved - Task[j].min_threads /\ UNCHANGED job_reserved
    BY <1>1, <1>5, <1>n, <1>t, SMTT(30) DEF Reserve
  <2>3. threads_reserved' = Reserved(NULL)' /\ threads_reserved' <= threads_created' + 1
    BY <1>1, <1>3, <1>5, <1>n, <1>t, <2>1, SMTT(30) DEF ReservationsBalanced
  <2>4. \A p \in Jobs : Reserved(p)' = Reserved(p)
    BY <1>3, <1>5, <1>t
  <2> QED BY <1>4, <2>1, <2>3, <2>4 DEF ReservationsBalanced
<1>6. CASE Parent(j) # NULL
  <2>1. /\ job_reserved' = [job_reserved EXCEPT ![Parent(j)] = @ - Task[j].min_threads]
        /\ UNCHANGED threads_reserved
    BY <1>1, <1>6, <1>n, <1>t, SMTT(30) DEF Reserve
  <2>2. threads_reserved' = Reserved(NULL)' /\ threads_reserved' <= threads_created' + 1
    BY <1>1, <1>3, <1>6, <2>1 DEF ReservationsBalanced
  <2>3. \A p \in Jobs : Live(p)' => job_reserved'[p] = Reserved(p)'
    BY <1>3, <1>4, <1>6, <1>n, <1>t, <2>1 DEF ReservationsBalanced
  <2> QED BY <2>2, <2>3 DEF ReservationsBalanced
<1> QED BY <1>5, <1>6

\* A frame makes a call: nothing is reserved yet on the jobs of the new call.
LEMMA ReservedEnqueue ==
  ASSUME Counting, IInv, ReservationsBalanced, NEW f \in Frames, halide_do_parallel_tasks(f)
  PROVE  ReservationsBalanced'
<1> DEFINE c == Step(f).call
<1>1. AtStep(f, "call") /\ pc[f] = "body" /\ pc[c] = "idle"
  BY DEF halide_do_parallel_tasks, AtStep
<1>2. c \in Calls
  BY <1>1, StepType DEF IInv
<1> HIDE DEF c
<1>3. /\ threads_created' \in threads_created..MAX_THREADS
      /\ \A g \in Frames : g # f /\ g # c /\ pc[g] = "idle" => pc'[g] = "idle" \/ g \in Workers
  BY <1>2, EnqueuePC DEF c
<1>4. /\ job_reserved' = [j \in Jobs |-> IF CallOf[j] = c THEN 0 ELSE job_reserved[j]]
      /\ UNCHANGED <<cur, threads_reserved>>
  BY DEF halide_do_parallel_tasks, c
<1>5. \A p : Reserved(p)' = Reserved(p)
  BY <1>4 DEF Reserved, RunsFor, Needs
<1>6. threads_created \in 0..MAX_THREADS /\ threads_reserved \in Int
  BY DEF IInv, TypeOK, QueueOK
<1>7. threads_reserved' = Reserved(NULL)' /\ threads_reserved' <= threads_created' + 1
  BY <1>3, <1>4, <1>5, <1>6, FrameAssumption, SMTT(30) DEF ReservationsBalanced
<1>8. ASSUME NEW p \in Jobs, CallOf[p] # c, Live(p)' PROVE job_reserved'[p] = Reserved(p)'
  <2>1. CallOf[p] \in Frames /\ CallOf[p] \notin Workers
    BY CallAssumption, FrameAssumption DEF Frames, Loops
  <2>2. Live(p)
    BY <1>1, <1>3, <1>8, <2>1 DEF Live
  <2> QED BY <1>4, <1>5, <1>8, <2>2 DEF ReservationsBalanced
<1>9. ASSUME NEW p \in Jobs, CallOf[p] = c PROVE job_reserved'[p] = Reserved(p)'
  <2>1. active_workers[p] = 0
    BY <1>1, <1>2, <1>9, IdleCall
  <2>2. ASSUME NEW g \in RunsFor(p) PROVE FALSE
    <3>1. g \in Frames /\ cur[g] # NULL /\ Parent(cur[g]) = p
      BY DEF RunsFor
    <3>2. cur[g] \in Jobs /\ Live(cur[g]) /\ p # NULL
      BY <3>1, FrameAssumption DEF IInv, NoDanglingJob, TypeOK, FramesOK
    <3>3. active_workers[p] > 0
      BY <3>1, <3>2 DEF IInv, NoDanglingJob
    <3> QED BY <2>1, <3>3, SMTT(30)
  <2>3. RunsFor(p) = {}
    BY <2>2
  <2>4. Pairs({}, Needs) = {}
    BY DEF Pairs
  <2>5. Reserved(p) = 0
    BY <2>3, <2>4 DEF Reserved, SumOver, Counting, EmptyCount
  <2> QED BY <1>4, <1>5, <1>9, <2>5
<1> QED BY <1>7, <1>8, <1>9 DEF ReservationsBalanced

\* The workers are joined: nobody works on a job.
LEMMA ReservedJoin ==
  ASSUME Counting, IInv, ReservationsBalanced, JoinWorkers
  PROVE  ReservationsBalanced'
<1>1. \A c \in Calls : pc[c] = "idle"
  BY DEF JoinWorkers, IInv, JoinInv
<1>2. \A g \in Frames : cur[g] = NULL
  BY <1>1, QuietPool
<1>3. UNCHANGED cur /\ threads_reserved' = 0 /\ threads_created' = 0
      /\ pc' = [g \in Frames |-> IF pc[g] = "exited" THEN "idle" ELSE pc[g]]
  BY DEF JoinWorkers, frameVars
<1>4. RunsFor(NULL) = {} /\ Pairs({}, Needs) = {}
  BY <1>2 DEF RunsFor, Pairs
<1>5. Reserved(NULL)' = Reserved(NULL)
  BY <1>3 DEF Reserved, RunsFor, Needs
<1>6. Reserved(NULL) = 0
  BY <1>4 DEF Reserved, SumOver, Counting, EmptyCount
<1>7. \A p \in Jobs : ~Live(p)'
  BY <1>1, <1>3, CallAssumption DEF Live, Frames, Loops
<1> QED BY <1>3, <1>5, <1>6, <1>7, SMTT(30) DEF ReservationsBalanced

\* The other steps of a loop reserve nothing.
LEMMA ReservedLoop ==
  ASSUME Counting, IInv, ReservationsBalanced, NEW f \in Loops, LoopStep(f) \/ TaskError(f)
  PROVE  ReservationsBalanced'
<1>t. pc \in [Frames -> PC] /\ f \in Frames
  BY DEF IInv, TypeOK, FramesOK, Frames
<1>q. ASSUME UNCHANGED <<queueVars, cur, threads_reserved, job_reserved>>, pc[f] # "idle",
             \/ UNCHANGED pc
             \/ \E q \in {"scan", "relock", "body", "claim"} : pc' = [pc EXCEPT ![f] = q]
      PROVE  ReservationsBalanced'
  <2>1. \A c \in Calls : pc[c] = "idle" => pc'[c] = "idle"
    BY <1>q, <1>t DEF Frames, Loops
  <2> QED BY <1>q, <2>1, ReservedKept DEF queueVars
<1>1. CASE BeginScan(f)
  BY <1>q, <1>1 DEF BeginScan, AtHead, jobVars
<1>2. CASE SkipJob(f)
  BY <1>q, <1>2 DEF SkipJob, AtScan, jobVars
<1>3. CASE BlockedJob(f)
  BY <1>q, <1>3 DEF BlockedJob, AtScan, jobVars
<1>6. CASE ClaimMore(f)
  BY <1>q, <1>6 DEF ClaimMore, jobVars
<1>7. CASE ClaimDone(f)
  BY <1>q, <1>7 DEF ClaimDone, jobVars, frameVars
<1>8. CASE NextIteration(f)
  BY <1>q, <1>8 DEF NextIteration, AtEnd, jobVars
<1>9. CASE TaskReturns(f)
  BY <1>q, <1>9 DEF TaskReturns, AtEnd, jobVars
<1>10. CASE CallError(f) \/ TaskError(f)
  BY <1>q, <1>10 DEF CallError, TaskError, ReturnError, jobVars
<1> QED
  BY <1>1, <1>2, <1>3, <1>6, <1>7, <1>8, <1>9, <1>10, ReservedStart, ReservedFinish DEF LoopStep

\* Owners, workers, runtime calls and the application reserve nothing.
LEMMA ReservedQuiet ==
  ASSUME IInv, ReservationsBalanced,
         \/ \E w \in Workers : WorkerStep(w)
         \/ \E c \in Calls : OwnerStep(c)
         \/ \E f \in Frames :
              halide_semaphore_init(f) \/ halide_semaphore_release(f) \/ NotifyRelease(f)
         \/ \E n \in ThreadRequests : halide_set_num_threads(n)
         \/ halide_shutdown_thread_pool \/ Terminating \/ UNCHANGED vars
  PROVE  ReservationsBalanced'
<1>t. pc \in [Frames -> PC] /\ Calls \subseteq Frames /\ Workers \subseteq Frames
  BY DEF IInv, TypeOK, FramesOK, Frames, Loops
<1>q. ASSUME NEW f \in Frames, UNCHANGED <<cur, threads_reserved, job_reserved, threads_created>>,
             pc[f] # "idle",
             \/ UNCHANGED pc
             \/ \E q \in PC \ {"idle"} : pc' = [pc EXCEPT ![f] = q]
      PROVE  ReservationsBalanced'
  <2>1. \A c \in Calls : pc[c] = "idle" => pc'[c] = "idle"
    BY <1>q, <1>t
  <2> QED BY <1>q, <2>1, ReservedKept
<1>1. ASSUME NEW w \in Workers, WorkerStep(w) PROVE ReservationsBalanced'
  <2>1. /\ UNCHANGED <<cur, threads_reserved, job_reserved, threads_created>> /\ pc[w] # "idle"
        /\ \E q \in {"head", "exited", "sleepA", "sleepB"} : pc' = [pc EXCEPT ![w] = q]
    <3>1. CASE EnterWorker(w) \/ ExitWorker(w)
      BY <3>1 DEF EnterWorker, ExitWorker, AtHead, queueVars, jobVars, frameVars
    <3>2. CASE SleepWorker(w)
      BY <3>2 DEF SleepWorker, AtScanEnd, jobVars, frameVars
    <3>3. CASE WakeWorker(w)
      BY <3>3 DEF WakeWorker, jobVars, frameVars
    <3> QED BY <1>1, <3>1, <3>2, <3>3 DEF WorkerStep
  <2> QED BY <1>q, <1>t, <2>1 DEF PC
<1>2. ASSUME NEW c \in Calls, OwnerStep(c) PROVE ReservationsBalanced'
  <2>1. CASE JoinNext(c)
    BY <1>q, <1>t, <2>1 DEF JoinNext, AtHead, queueVars, jobVars
  <2>2. CASE Return(c)
    <3>1. pc[c] = "head" /\ caller[c] \in Frames /\ pc[caller[c]] = "calling"
      BY <2>2 DEF Return, AtHead, IInv, CallerInv
    <3>2. \A d \in Calls : pc[d] = "idle" => pc'[d] = "idle"
      BY <1>t, <2>2, <3>1 DEF Return
    <3> QED BY <2>2, <3>2, ReservedKept DEF Return, queueVars, jobVars
  <2>3. CASE DropFailed(c)
    BY <1>q, <1>t, <2>3 DEF DropFailed, AtHead, queueVars, frameVars
  <2>4. CASE InheritFailure(c)
    <3>1. \A d \in Calls : pc[d] = "idle" => pc'[d] = "idle"
      BY <1>t, <2>4, BroadcastPC DEF InheritFailure
    <3> QED BY <2>4, <3>1, ReservedKept DEF InheritFailure, queueVars, frameVars
  <2>5. CASE SleepOwner(c)
    <3>1. pc[c] = "scan" /\ pc' = [pc EXCEPT ![c] = "sleepOwner"]
          /\ UNCHANGED <<cur, threads_reserved, job_reserved, threads_created>>
      BY <2>5 DEF SleepOwner, AtScanEnd, queueVars, jobVars, frameVars
    <3>2. \E q \in PC \ {"idle"} : pc' = [pc EXCEPT ![c] = q]
      BY <3>1 DEF PC
    <3> QED BY <1>q, <1>t, <3>1, <3>2
  <2>6. CASE WakeOwner(c)
    <3>1. pc[c] = "wokenOwner" /\ pc' = [pc EXCEPT ![c] = "head"]
          /\ UNCHANGED <<cur, threads_reserved, job_reserved, threads_created>>
      BY <2>6 DEF WakeOwner, queueVars, jobVars, frameVars
    <3>2. \E q \in PC \ {"idle"} : pc' = [pc EXCEPT ![c] = q]
      BY <3>1 DEF PC
    <3> QED BY <1>q, <1>t, <3>1, <3>2
  <2> QED BY <1>2, <2>1, <2>2, <2>3, <2>4, <2>5, <2>6 DEF OwnerStep
<1>3. ASSUME NEW f \in Frames, halide_semaphore_init(f) \/ halide_semaphore_release(f)
      PROVE  ReservationsBalanced'
  <2>1. \/ UNCHANGED pc
        \/ \E q \in PC \ {"idle"} : pc' = [pc EXCEPT ![f] = q]
    BY <1>3 DEF halide_semaphore_init, halide_semaphore_release, PC
  <2> QED BY <1>q, <1>3, <2>1
          DEF halide_semaphore_init, halide_semaphore_release, AtStep, queueVars, jobVars
<1>4. ASSUME NEW f \in Frames, NotifyRelease(f) PROVE ReservationsBalanced'
  <2>1. pc[f] = "notify" /\ pc' = [Broadcast({"A", "owner"}) EXCEPT ![f] = "body"]
        /\ UNCHANGED <<cur, threads_reserved, job_reserved, threads_created>>
    BY <1>4 DEF NotifyRelease, queueVars, jobVars
  <2>2. \A d \in Calls : pc[d] = "idle" => pc'[d] = "idle"
    BY <1>t, <2>1, BroadcastPC
  <2> QED BY <2>1, <2>2, ReservedKept
<1>5. ASSUME NEW n \in ThreadRequests, halide_set_num_threads(n) PROVE ReservationsBalanced'
  BY <1>5, ReservedKept DEF halide_set_num_threads, jobVars, frameVars
<1>6. CASE halide_shutdown_thread_pool
  <2>1. \A d \in Calls : pc[d] = "idle" => pc'[d] = "idle"
    BY <1>t, <1>6, BroadcastPC DEF halide_shutdown_thread_pool
  <2> QED BY <1>6, <2>1, ReservedKept DEF halide_shutdown_thread_pool, jobVars, frameVars
<1>7. CASE Terminating \/ UNCHANGED vars
  BY <1>7, ReservedKept DEF Terminating, vars, queueVars, jobVars, frameVars
<1> QED BY <1>1, <1>2, <1>3, <1>4, <1>5, <1>6, <1>7

\* At the start nothing is reserved.
LEMMA ReservedInit == ASSUME Counting, Init PROVE ReservationsBalanced
<1>1. RunsFor(NULL) = {} /\ Pairs({}, Needs) = {}
  BY DEF Init, RunsFor, Pairs
<1>2. Reserved(NULL) = 0
  BY <1>1 DEF Reserved, SumOver, Counting, EmptyCount
<1>3. \A j \in Jobs : ~Live(j)
  BY CallAssumption, FrameAssumption DEF Init, Live, Frames, Loops
<1>4. threads_reserved = 0 /\ threads_created = 0
  BY DEF Init
<1>5. threads_reserved <= threads_created + 1
  BY <1>4, SMTT(30)
<1> QED BY <1>2, <1>3, <1>4, <1>5 DEF ReservationsBalanced

\* Every step keeps the reservations balanced.
LEMMA ReservedStep ==
  ASSUME Counting, IInv, ReservationsBalanced, [Next]_vars
  PROVE  ReservationsBalanced'
<1>1. ASSUME NEW f \in Frames, CallStep(f) PROVE ReservationsBalanced'
  BY <1>1, ReservedEnqueue, ReservedQuiet DEF CallStep
<1> QED BY <1>1, ReservedLoop, ReservedJoin, ReservedQuiet DEF Next
=============================================================================
