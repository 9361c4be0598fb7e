# Verification of the Vyasa / Halide runtime

This directory holds TLA+ specifications of the concurrent parts of this
repository, the configurations that model-check them with TLC, and proofs
checked by TLAPS. The repository is a fork of Halide with a vectorizing
convolution compiler for the Xilinx AI Engine (Vyasa). Almost all of its
hundred thousand lines are a compiler: passes over an expression tree, without
concurrency and without state that outlives a compilation. What is hard to test is the **runtime**
that compiled pipelines are linked with (`src/runtime/`): a thread pool, its
synchronization primitives, a result cache, device buffers, a profiler and a
tracing buffer, all shared by every pipeline of a process. The specifications
describe that runtime.

Line numbers below are those of the module's main source file (named in the
table of section 2) unless another file is named.

## 1. Inventory

| Part | Source | State | Operations | What is hard |
|---|---|---|---|---|
| Thread pool | `runtime/thread_pool_common.h` | `work_queue_t` (job stack, thread counts, A/B teams, sleepers, reservations, flags), `work` (extent, min, active workers, exit status, reservation), semaphores | `halide_do_par_for`, `halide_do_parallel_tasks`, the worker loop, `halide_semaphore_*`, `halide_set_num_threads`, `halide_shutdown_thread_pool` | interleaving of workers, owners and clients; lost wake-ups; jobs on the caller's stack; failures of one of several tasks; thread reservations against deadlock |
| Generated parallel code | `CodeGen_LLVM.cpp`, `AsyncProducers.cpp`, `StorageFolding.cpp` | – | `min_threads` of a task, fork of async producers, semaphores of folded storage | the promises the pool relies on are made by the compiler |
| Synchronization | `runtime/synchronization_common.h`, `runtime/posix_threads.cpp` | `word_lock`, hash table of parked threads, `fast_mutex`, `fast_cond` | lock, unlock, wait, signal, broadcast, park, unpark, requeue | lock-free transitions; a wake-up between check and park |
| Memoization cache | `runtime/cache.cpp`, `Memoization.cpp` | hash chains, LRU list, sizes, use counts, block headers | lookup, store, release, set_size, cleanup | several realizations in use while entries are pruned; failing mallocs; two that compute the same key |
| Hash map | `runtime/hashmap.h` | the same, as a template for device code | lookup, store, release, prune | as the cache |
| Device buffers | `runtime/HalideBuffer.h`, `runtime/device_interface.cpp`, `runtime/cuda.cpp` | host and device reference counts, ownership, dirty flags, module use counts | allocate, copy, move, crop, device malloc and free, copies between host and devices, wrap, detach | memory shared by several objects, failing backend calls, dirty bits after a failure |
| Profiler | `runtime/profiler.cpp`, `runtime/profiler_inlined.cpp`, `Profiling.cpp` | list of statistics, current function, memory counters, sampling thread | start, end, sampling loop, memory hooks, reset, shutdown | a sampling thread against starts, resets and shutdowns; counters updated without a lock |
| Tracing | `runtime/tracing.cpp` | shared packet buffer with a readers/writer counter | acquire packet, release, flush, shutdown | a lock-free buffer at its limit |
| Hexagon pools | `runtime/hexagon_cache_allocator.cpp`, `runtime/hexagon_dma_pool.cpp` | linked list or array of engines with used flags | get, put, free | slots handed out twice or lost |
| GPU backends | `runtime/{cuda,opencl,metal,d3d12compute,opengl,openglcompute,hexagon_host}.cpp` | contexts, module lists | device interface calls | mostly calls of external drivers |
| Vyasa compiler | `ConvolutionsCompilerForAICore.cpp` | reuse graphs, register groups | build graphs, fuse vector MACs, permute coefficients | index arithmetic |
| Front end and other passes | the rest of `src/*.cpp` | expression trees | tree rewriting | sequential, outside the reach of a state-space search |
| Python bindings, apps, tools | `python_bindings`, `apps`, `tools`, `util` | – | – | clients of the library |

How the parts interact: a pipeline calls the thread pool to run its parallel
loops and async stages; tasks call the pool again (nested parallelism), the
semaphores, the cache, the device interface and the profiler. The pool, the
cache and the device interface use `halide_mutex` and `halide_cond`, which are
the synchronization part.

## 2. Modules

| Module | Models | Main source |
|---|---|---|
| `ThreadPool` | the thread pool; its constants say which tasks a program has and which runtime calls each makes | `runtime/thread_pool_common.h` |
| `MCParFor`, `MCAsync`, `MCNested`, `MCOverCommit` | programs that instantiate `ThreadPool` for TLC | |
| `ThreadPoolLemmas` | the proof that `ThreadPool` keeps its inductive invariant, its counts of sleeping threads and its reservations | |
| `ThreadPoolProofs` | the proof that it runs every iteration once and returns when all are done; the theorems | |
| `ParallelTaskSetup` | the loop at the start of `halide_default_do_parallel_tasks`, before the lock is taken | `runtime/thread_pool_common.h` |
| `Monitor` | what `halide_mutex` and `halide_cond` promise: the abstract specification | |
| `Synchronization` | `fast_mutex`, `fast_cond` and the parking lot | `runtime/synchronization_common.h` |
| `MCSync` | programs of `Synchronization` for TLC | |
| `SyncProofs` | the proof that `Synchronization` keeps its inductive invariant and implements `Monitor` | |
| `WordLock`, `MCWordLock` | the one-word lock of a hash bucket | `runtime/synchronization_common.h` |
| `WordLockProofs` | the proof that `WordLock` keeps its list of waiters and implements `Monitor` | |
| `MemoizationCache`, `MCCache` | the cache, together with the order in which generated code calls it | `runtime/cache.cpp` |
| `CacheLemmas`, `CacheProofs` | the proof that `MemoizationCache` keeps its inductive invariant and the account of its size | |
| `HalideBuffer`, `MCBuffer` | `Halide::Runtime::Buffer` over the device interface and a backend | `runtime/HalideBuffer.h` |
| `Profiler`, `MCProfiler` | the sampling profiler and the calls a pipeline makes to it | `runtime/profiler.cpp` |
| `ProfilerProofs` | the proof that `Profiler` keeps its inductive invariant and that its counters cover what is allocated | |
| `Sums` | the sum of a function over a set, as a cardinality | |
| `ListLemmas` | induction, sums, and what insertions and removals do to linked lists, for the proofs of cache, profiler and thread pool | |

An operator whose name starts with `Mut` is a copy of the definition that
follows it with a plausible slip of the code in it. No definition uses them;
they document which mistake each property would catch.

### 2.1 ThreadPool

*Frames.* A frame is an activation of one of three kinds: a client running its
program, a worker thread (`worker_thread_already_locked(NULL)`), or a call of
`halide_do_par_for`/`halide_do_parallel_tasks`, whose owner runs
`worker_thread_already_locked(jobs + i)` for each of its jobs in turn. A task
that calls the pool again stays in pc `calling` while the new frame runs. This
is the call stack of a thread, and no other identity of threads is needed.

*State.* The variables carry the names of the fields of `work_queue_t` and
`work`; `job_reserved` is `work::threads_reserved`. `mutex` is the frame that
holds `work_queue.mutex`. A sleeping frame is in pc `sleepA`, `sleepB` or
`sleepOwner`; a broadcast turns that into `woken...`, and the frame goes on once
it has the mutex again. `ran` and `completed` are history variables.

*Actions.* The worker loop is split where the code releases or takes the mutex,
and its scan of the job stack is one action per job looked at, since
`make_runnable` acquires semaphores that other threads release meanwhile.

| Action | Code |
|---|---|
| `EnterWorker`, `ExitWorker` | 412-416 |
| `DropFailed`, `InheritFailure` | 200-219 |
| `BeginScan`, `SkipJob`, `BlockedJob` | 223-269 |
| `SleepOwner`, `WakeOwner`, `SleepWorker`, `WakeWorker` | 271-292 |
| `StartSerial`, `ClaimMore`, `ClaimDone` | 299-333 |
| `StartParallel` | 299-307, 346-367 |
| `NextIteration`, `TaskReturns`, `TaskError`, `CallError` | the task function, as 328-330 and 360-367 call it |
| `FinishJob` | 334-345, 368-408 |
| `halide_do_parallel_tasks` | 418-544, with 578-606 and 621-636 |
| `JoinNext`, `Return` | 605-607, 637-647 |
| `halide_semaphore_init`, `halide_semaphore_release`, `NotifyRelease` | 693-711 |
| `halide_set_num_threads`, `halide_shutdown_thread_pool`, `JoinWorkers` | 650-687 |

*Abstractions.* The mutex and the condition variables are those of `Monitor`, which
`Synchronization` is shown to implement; waits have no spurious wake-ups.
`make_runnable` is one step although it acquires several semaphores one by one. It
may stop at any of them and keeps those before it. A semaphore is acquired by one
task only (the comment at 48-51 says so). Iteration numbers start at zero. A task function returns 0 or 1. The assertion of line 497 is a
guard of `halide_do_parallel_tasks` (a failed assertion aborts the program) and
the invariant `ThreadsNotOverCommitted` says when it holds. An application does
not start a pipeline while it shuts the pool down. A negative argument of
`halide_set_num_threads` is reported as an error; the error handler may return, and the
number is then clamped like any other.

### 2.2 ParallelTaskSetup

The loop of lines 615-629 on its own, because it is about the arguments and not
about threads. `tasks` is the pointer that is stepped, `num_tasks` the count
that is decremented, `jobs` the array on the stack whose elements are `UNINIT`
until written. Extents may be negative, which the test `extent <= 0` treats like zero.

### 2.3 MemoizationCache

A key stands for all that a lookup compares (key bytes, bounds, tuple count).
Entries and blocks are addresses that `malloc` hands out and gets back; `ent`
is `CacheEntry`, `header` the `entry` field of `CacheBlockHeader`. Freed
entries are wiped in the model, so a pointer to one leads nowhere. `contents`
is a history variable: the key whose result was computed into a block. A client
is one memoized realization at a time. A pipeline may hold several at once, one for each
memoized Func; it is then several clients, which the model interleaves in every way where
the pipeline has an order of its own. Every client runs the sequence that `InjectMemoization` and
`RewriteMemoizedAllocations` generate: lookup, on a miss the producer and the
store, one release per tuple element. The loops that run under
`memoization_lock` (allocating the tuple's blocks, pruning) are one action per
turn with the lock held; the read of `header->entry` at line 529 is a step of
its own because it is made without the lock.

### 2.4 Monitor, Synchronization and WordLock

`Monitor` has two variables, `owner` (of each mutex) and `waiting` (the threads
that sleep on each condition), and the atomic operations on them. The thread
pool, the cache and the profiler are modelled on top of what it promises.

`Synchronization` is the code under that promise. A `fast_mutex` is a word of two
bits, `lock` and `parked`; a `fast_cond` is a word that names the mutex of its
waiters. Every load, compare-and-swap and store of a word is an action of its
own, and a weak compare-and-swap may fail for no reason. Blocked threads are in
the parking lot, a hash table of lists. Each traversal of a list skips entries
with another `sleep_address`, so the model has one queue per address. What is
left of the buckets is their locks: a section that needs one bucket is one action
guarded by `Free`; `unpark_requeue`, which locks two and asks the mutex in between,
holds them (`held`) over `LockFirst`, `LockSecond`, `Validate`,
`MakeParkedIfLocked` and `Requeue`.

| Action | Code |
|---|---|
| `Lock`, `FastLock`, `LoadState`, `Retry`, `GrabLock`, `MarkParked`, `AlreadyParked`, `Park`, `Resume` | `fast_mutex::lock`, `lock_full`, `park` |
| `Unlock`, `FastUnlock`, `UnlockFull`, `UnparkOne`, `Unpark` | `fast_mutex::unlock`, `unlock_full`, `unpark_one` |
| `Wait`, `ParkWaiter` | `fast_cond::wait` with its `wait_parking_control` |
| `Signal`, `SignalOne` | `fast_cond::signal`, `unpark_one` |
| `Broadcast`, `LockFirst`, `LockSecond`, `Validate`, `MakeParkedIfLocked`, `Requeue` | `fast_cond::broadcast`, `unpark_requeue` with its `broadcast_parking_control` |

`thread_parker` is a flag `should_park` and a pthread condition; it is external to
the algorithm and one action each way. How long a thread spins before it parks is
left open (`Retry` may be taken any number of times). The `Clients` constant says
which calls each thread makes and how addresses hash; calls are made in any order
that the locks allow.

`WordLock` is the lock of a bucket itself: a word with a lock bit, a queue lock bit
and the address of the newest waiter, whose node is on the waiter's stack. `next`,
`prev` and `tail` are the fields of the nodes, `Walk` one step along the list. The
compare-and-swaps at 393 and 405 fail only when the word has changed. A failure for no
reason would take the thread back to the start of the same walk (`WalkAgain`) with
`expected` and the list as they were: it adds no state, and calls return under the
assumption that it does not happen for ever.

The code's atomics are relaxed, acquire or release. The models interleave them in
one order (sequential consistency); a reordering that a weaker memory model would
allow is outside of them.

### 2.5 HalideBuffer

An object is a `Runtime::Buffer`: its host allocation, device handle, interface,
two dirty bits and its `DevRefCount`. `ref_count` counts host allocations, `dev`
holds the device reference counts with their ownership (allocated, wrapped native or
cropped); the count of a crop embeds a Buffer that keeps the source
alive. `live` is what the backend has handed out and `module_uses` how often the
runtime of each interface was taken minus released. Each method is one action, the
calls of `device_interface.cpp` and of the backend included, and in each at most one
backend call fails. `hf` and `df` are history variables: whether the host and the
device copy hold the data last written.

Programs do what the assertions of `HalideBuffer.h` allow. Two cases in which the code
miscounts the uses of a module are part of a program only when its `methods` name them, so
that `ModuleKept` can say what holds without and with them: `nocrop` (a runtime without
`device_crop`, like those of OpenGL) and `self` (a `halide_buffer_copy` that gives a Buffer
device memory and copies it onto itself). A program goes no further once a Buffer has both
dirty bits set (`BothDirty`). Slicing and embedding use the code of a crop. Left out are
`device_and_host_malloc`, unmanaged host memory and shapes.

### 2.6 Profiler

A caller runs instrumented pipelines: `Start`, `GetState`, `SetCurrentFunc`, the
memory hooks, and `Finish` or `Fail`, then `End`. The sampling thread holds the lock from
`Acquire` over `Check`, `Sample` and `Bill`; `Sample` reads `current_func`, which callers
store to without the lock, and `Bill` bills what was read. `ran` is a history variable, the
pipelines that were running at that read. Other sections under the lock are one action.
The memory counters are updated without it, so each atomic addition, each load of
a peak and each compare-and-swap is an action; `top` is a history variable, the highest
value that `memory_current` had. Statistics are addresses linked by `next`, and
`BillFunc` moves an entry to the head as `bill_func` does.

The application resets and shuts down while no pipeline runs (`Quiet`), which is
what the warning in `HalideRuntime.h` asks for. `current_func` starts at 0, since the
state is zero-initialized. Times, totals, stack peaks, `active_threads` and the report
are only added up and printed, and are left out, and so is `get_remote_profiler_state`,
which asks a Hexagon DSP for the current func.

## 3. Properties and runs

### Thread pool

| Run | Program | Result |
|---|---|---|
| `par_for` | two clients, loops of 2 and 1 iterations, one may fail, one client calls twice; number of threads changed once (to a negative number, to the default, beyond the capacity), one shutdown | passes, 38,255 states |
| `async` | an async producer with a folded slot, a second producer that runs twice as often, a consumer that acquires one and two of their semaphores; 2 iterations | passes, 74,516 states |
| `nested` | three levels of calls with `min_threads` 2, 1, 0 and semaphores; the innermost producer and the middle loop may fail | passes, 105,225 states |
| `async_failure` | `async` with a consumer that may fail | `CallsReturn` is violated |
| `over_commit` | two nested parallel loops around an async stage, 5 threads | `ThreadsNotOverCommitted` is violated |
| `task_setup_zero` | all calls of up to 4 tasks with extents -2 to 2 | `ZeroExtentSkipped` is violated |

What the properties say:

- `StackHoldsPendingJobs`: the job stack holds, once each, exactly the live jobs
  with iterations left that no worker of a serial job has taken off. The owner
  of a failed job walks the stack without testing for its end (203-206), which
  is right only because of this.
- `ActiveWorkersCounted`, `NoDanglingJob`: `struct work` is on the stack of the
  caller; nobody points to it after the call has returned, and no nested call
  outlives the task that made it.
- `SleepersCounted`: the counts that decide whom to wake agree with who sleeps.
- `IterationsRunOnce`, `FoldedStorageRespected`: no iteration runs twice, serial
  ones run in order, and a consumer and a producer with folded storage never
  touch the same slot out of turn, also when a worker claims several iterations
  without the mutex (321-324) or gives up with one of two semaphores acquired.
- `ReservationsBalanced`, `ThreadsNotOverCommitted`: reservations on the pool and
  on parents are the `min_threads` of the runs in progress, and a nested call is
  within what its task has reserved.
- `ReturnedWorkIsDone`: a call that returns 0 has run everything; one that returns
  nonzero did not, or was made by a task that had failed itself.
- `CallsReturn`, `ShutdownEnds`: no lost wake-up, no deadlock.

*Bounds.* `par_for` has the least for which two owners and a worker compete for
two jobs, an owner sleeps while a worker finishes its job, the A and B teams
differ and the pool is restarted with work left to do. `async` has one
iteration more than slots, so the producer must wait for the consumer, and the consumer's
worker can claim several iterations at once. Its acquire of two for releases of one is the
case that the TODO at line 702 asks about. The second release wakes nobody; in this
program nothing is missed, because whoever releases is a worker or the owner of the call
and looks at its jobs again. That is not so in every program: the owner of a task that
acquires two looks at it after the first release, cannot start it, and sleeps; when the
second release is made by the owner of another call, which has helped while it waited, that
thread returns without another look and nobody wakes the sleeper. `CallsReturn` is not
claimed of programs with two calls and such an acquire (`StorageFolding.cpp:731` generates
acquires of more than one). `nested` is the smallest program
in which a parent's reservation is shared and a failure has to travel two
levels up.

*Fairness.* Weak fairness of each frame: the operating system schedules every
thread, a mutex that is free is eventually taken, and a task function ends.
Tasks may fail but need not. The application need not resize or shut down; a
shutdown that has started goes on. A frame waiting for the mutex needs no
strong fairness because each holder's steps end with a release and `CallsReturn`
quantifies over finite programs.

*What fails.* Three runs show that the code does something else than it says.

1. `async_failure`: at line 385 the owner of a failed sibling is to be woken if
   `active_workers == 0`, but the failing worker itself is still counted there
   (it is decremented at line 400). The test never succeeds. If the consumer
   fails on a worker while the owner sleeps joined on the producer, which
   waits for a slot the consumer will not release, nobody wakes the owner. If
   instead the owner runs the consumer it notices the failure itself, which is
   why a test hardly sees it.
2. `over_commit`: the assertion of line 497 counts the threads reserved by all
   iterations of the parent task, so one iteration's nested loop can use up what
   another needs.
3. `task_setup_zero`: the loop that skips tasks without iterations decrements `num_tasks`
   but does not step `tasks`, and `i` runs ahead. After two such tasks `i` is 1 and
   `num_tasks` is 1, so the loop ends with nothing copied and the first element of
   `jobs`, which was never written, is enqueued.

### Mutexes and conditions

| Run | Instance | Result |
|---|---|---|
| `sync` | up to four threads, two mutexes, two conditions, two buckets: two waiters and a thread that signals and broadcasts; two broadcasts whose bucket pairs cross; one condition used with two mutexes; four threads on one mutex | passes, 161,913 states |
| `word_lock` | three threads that lock twice, or four that lock once | passes, 337,107 states |

`ImplementsMonitor` is the refinement in both. In `Synchronization` the owner of a
mutex is the thread between the compare-and-swap that sets the lock bit and the
store that clears it, and the waiters of a condition are those in its queue: a
broadcast empties that set in the step in which it moves the waiters to the queue
of the mutex. `MutualExclusion` ties the lock bit to the owner. `NoMissedWakeup`
says that words announce queues: the parked bit makes `unlock` take the slow path,
the word of a condition makes `signal` go on. `UnparkedOnce` and `NodesAlive` say
that `queue_data` and `word_lock_queue_data`, which are on the stacks of sleeping
threads, are only touched while those threads sleep and that nobody is woken twice.
`CallsReturn`: whoever asks for a lock gets it, and broadcasts with crossed bucket
pairs do not deadlock, because both lock the smaller hash first.

*Bounds.* A second waiter is needed for a broadcast to move anybody (the first is
woken when the mutex is free), a fourth thread for a queue of three behind the
holder of a lock, and two hashes for the order of bucket pairs. The programs
end, so deadlock is not checked; `CallsReturn` says that what remains is threads
waiting for a condition.

*Fairness.* Weak fairness of each thread's steps inside a call, and of giving back
a mutex that it holds. Threads need not make calls. The finite number of calls
bounds how often a lock can be taken past a waiter; with an endless stream of
callers the code does not promise that a parked thread ever gets the mutex
(`unlock` does not hand it over), and no property says so.

### Memoization cache

| Run | Instance | Result |
|---|---|---|
| `cache` | either one realization at a time, three keys (two in a hash chain, one a tuple of two), pruning and resizing; or three at once, two keys in one chain, no pruning; failing mallocs and producers | passes, 8,227 states up to symmetry |
| `cache_prune` | two realizations at once, three keys, pruning | `ValidCache` is violated |

`ValidCache` is what `validate_cache` tests in debug builds, `UsersCounted` that
`in_use_count` is the number of buffers not yet released and no such buffer is
freed, `ResultsBelongToKey` that a hit returns what was computed for that key,
`NoBlockLost` that no path leaks a block, `SizeAccounted` that the size is right
and pruning goes on until it is small enough or everything left is in use.

`cache_prune` shows that line 290 assigns to the wrong entry: removing an entry
whose less recent neighbour is in use should point that neighbour's
`more_recent` past it, but the assignment is to the entry that is freed next.
The neighbour keeps a pointer to freed memory, the list from
`least_recently_used` no longer agrees with the hash table ("cache invalid case
4"), and the next `prune_cache` or lookup follows the pointer. It takes two
realizations held at once, by two pipelines or by one with two memoized Funcs, so the
passing run has one where it prunes and several where it does not.

### Device buffers

| Run | Instance | Result |
|---|---|---|
| `buffer` | three objects that share one allocation; two that share and wrap; two that move data between two GPU runtimes; two that share and move data between host and device, on a runtime that can crop or one that cannot; one that is copied onto itself; mallocs and copies fail | passes, 74,479 states up to symmetry |

`NoDanglingMemory` and `CountsExact` together say that host and device memory
lives exactly as long as an object or a crop refers to it, and that a wrapped block keeps
the count that says that it is not the runtime's to free. `ModuleKept` says the
same of the runtime's code: one use of the module for each block, wrapped block or
crop that has yet to be given back, at least that many where crops are refused, and at
most that many where a Buffer is copied onto itself.
`DirtyBitsTruthful` says that the dirty bits are not both set and that what they
call current holds the data last written, after failed transfers too. It is claimed for
objects whose contents are defined and which no failed `halide_buffer_copy` has left
half-written (`settled`), and the second part where no other object changes their memory
(each object has its own dirty bits, so the code cannot keep those of an alias up to date).

*Bounds.* Three objects are needed for a crop of a crop whose source is gone; two
allocations for an assignment that frees one and takes another; two interfaces
for a copy that goes through host memory.

*What is not claimed.* Three cases are in the model and the properties stop short of them,
because stronger ones do not hold:

- `halide_device_crop` uses the module and then asks the backend
  (`device_interface.cpp:651`). When that refuses nobody releases the module; every crop of
  a Buffer on such a runtime keeps its code loaded once more.
- `halide_buffer_copy` uses the module of the source if the source has an
  interface before the copy, and releases it if it has one afterwards (599-610). A Buffer that
  gets its device memory by being copied onto itself is left without a use of the module.
- A copy between two runtimes through the host memory of the
  destination sets `host_dirty` (554) on a Buffer that may have `device_dirty`;
  `copy_to_device_already_locked` refuses it, and it stays in the state that
  `halide_error_code_host_and_device_dirty` is about. A later `device_free` or
  `device_detach_native` is refused too, and deletes the count all the same.

The code leaves to the application: `device_dirty` stays set when the device memory is freed
(`device_interface.cpp:91` says it is cleared) or when a crop of it is refused;
`device_malloc` followed by a device read needs `set_host_dirty` from the client, as
`test/correctness/gpu_multi_device.cpp:50-55` does; and a `device_detach_native` that the
interface refuses has already deleted the count.

### Profiler

| Run | Instance | Result |
|---|---|---|
| `profiler` | two callers that run two pipelines of 1 and 2 funcs, or one pipeline that allocates blocks of 1 and 2 bytes; one failing malloc; resets and shutdowns | passes, 850,434 states |

`StatsListed` says that the list holds each entry once and the entry of a running
pipeline is its own, `BilledWhileRunning` that a sample goes to one pipeline, and to one that was running
when `current_func` was read, although it may end between the read and the billing, `PeakExact` that the lock-free maximum is the maximum,
`Sampled` that a running pipeline has a sampling thread also after a shutdown, and
`ShutdownReturns` that the thread sees `please_stop`. Fairness is assumed of the
sampling thread, whose sleep ends, and of the thread that joins it; nothing is
assumed of pipelines.

Comments at `profiler.cpp:204-207`, 234-238 and 270-274 say that statistics are kept
unless `halide_profiler_reset` is called; a shutdown frees them as well. A pipeline
that fails leaves its allocations in `memory_current`.

## 4. Proofs

### Thread pool

`ThreadPoolProofs` proves, for any finite sets of clients and calls, any jobs,
semaphores, tasks and number of threads that satisfy the assumptions of
`ThreadPool`:

- `TypeCorrect`: `Spec => []TypeOK`
- `StackCorrect`: `Spec => []StackHoldsPendingJobs`
- `WorkersCounted`: `Spec => []ActiveWorkersCounted`
- `NoDangling`: `Spec => []NoDanglingJob`
- `SleepersStayCounted`: `Spec => []SleepersCounted`
- `ReservationsStayBalanced`: `Spec => []ReservationsBalanced`
- `IterationsStayRunOnce`: `Spec => []IterationsRunOnce`
- `ReturnsWhenDone`: `Spec => ReturnedWorkIsDone`

The first four follow from `Invariance`: `Spec => []IInv`. None of the four is inductive
alone. That a job on the stack has work left depends on who works on it; that
the count of workers is right depends on each frame's current job; that the job
of a returned call has no worker depends on the owner having joined every
sibling. `IInv` adds five conjuncts:

- `MutexInv`: the holder of the mutex is the frame in pc `head` or `scan`;
- `ControlInv`: which pcs each kind of frame may be in, and that a frame has a
  current job exactly while it works for it;
- `CallerInv`: a call in progress has one caller, which waits, and its parent job
  is the caller's current job;
- `RangeInv`: iterations claimed and left stay within the task's extent, and the
  worker of a serial job is alone with it;
- `JoinInv`: jobs joined so far, and jobs of calls not in progress, are done.

`SleepersCounted` and `ReservationsBalanced` are inductive once `IInv` is known: a step
changes a counter and the set of frames it counts together, and `IInv` says in which pc
the frame was and which job it worked for. `IterationsRunOnce` and
`ReturnedWorkIsDone` are not. A frame remembers an iteration only while it runs it, and
a call has only its `exit_status` to tell whether everything ran, so `WorkAccounted`
(`Spec => []WorkInv`) keeps the account that the code does not:

- `BegunInv`: an iteration that was started is completed, or some frame is at it, or
  its job has failed;
- `DoingInv`: a frame in a task is alone with its iteration, which is not completed;
- `OrderInv`, `SerialInv`: the iterations that were started are those below `min`; of a
  serial job, those before the one that the worker is at are completed, and when
  nobody works on the job the next worker goes on where the last one stopped;
- `BlameInv`: the error of a job or of a call is due to an iteration that was started
  and will not be completed, or to the failure of the task that made the call. Without
  it a call could return an error although all was done.

The argument has one lemma per action for each of these. `ThreadPoolLemmas` has the
facts on stacks, counters, sums and broadcasts and proves `IInv`, `SleepersCounted` and
`ReservationsBalanced`; `ThreadPoolProofs` has `WorkInv` and the theorems. The
assumptions on the constants are those of a program: finite sets of clients and calls,
tasks of positive extent (the code filters the others out), jobs that belong to one
call, and a `task_parent` argument that is the task that makes the call, as
`CodeGen_LLVM.cpp` generates it.

A sum over a set of jobs or frames is the number of pairs of an element and a number up
to its weight (`SumOver`). It is the sum that the code forms in a loop, and it can be
reasoned about: adding an element adds its weight (`SumAdd`), by what the library
knows of cardinalities, where a recursive sum would need induction.
The lemmas take the few facts about finite sets and sums they need as one hypothesis,
`Counting`, which keeps the library out of their context. `ThreadPoolProofs` proves it
(`CountingHolds`) from `ListLemmas` before the theorems, none of which assumes it.

### Mutexes and conditions

`SyncProofs` proves, for any sets of threads, mutexes, conditions and buckets, any
hash and any program:

- `TypeCorrect`: `Spec => []TypeOK`
- `MutexCorrect`: `Spec => []MutualExclusion`
- `WakeupsCorrect`: `Spec => []NoMissedWakeup`
- `UnparkCorrect`: `Spec => []UnparkedOnce`
- `MonitorImplemented`: `Spec => ImplementsMonitor`

The first four follow from `Inductive`: `Spec => []IInv`, where `IInv` is `TypeOK`,
`MutualExclusion`, `NoMissedWakeup` and three conjuncts more:

- `LocalsOK`: a thread that is past a point of a call has the locals that it needs
  there (the mutex it holds, the pair of a signal, whom to unpark). Without it no
  action of the slow paths keeps the types.
- `PairHeld`: a broadcast in progress holds the locks of both its buckets, and, when
  `make_parked_if_locked` answered that the mutex was locked, the parked bit stays set
  until the waiters have been moved. This is what makes `NoMissedWakeup` inductive:
  `UnparkOne` could otherwise clear the bit in between, but it needs the bucket of
  the mutex, which the broadcast holds.
- `QueueInv`: no thread is in two queues or twice in one, those in a queue are asleep
  or about to be, and one that was taken off and not yet unparked is in none.
  `UnparkedOnce` is its visible part; it does not say that queues are disjoint,
  without which taking a thread off one queue could leave it in another.

`SyncProofs` has the invariant, what the three kinds of steps do to owners (`Kept`,
`Taken`, `Given`), what taking, appending and moving do to queues, then one lemma per
conjunct with a case for each action, the theorems and the refinement. For the refinement each step is shown to be
one of `Monitor`: `Taken` a `Lock`, `Given` an `Unlock`, `ParkWaiter` a `Sleep`, `SignalOne` a
`Signal`, `Requeue` a `Broadcast`, and the rest leaves `owner` and `waiting` as they
are. `SyncAssumption` asks only that `NULL` is no thread and no mutex, that mutexes and
conditions have different addresses, and that buckets are numbers.

`WordLockProofs` proves of the lock of a bucket, for any set of threads:

- `NodesStayAlive`: `Spec => []NodesAlive`
- `WordLockImplementsMonitor`: `Spec => ImplementsMonitor`

Its list of waiters is built by threads that push onto the word and completed by the
thread that holds the queue lock, which walks it and sets the `prev` and `tail` fields.
The invariant `QueueInv` says that there is a sequence `q` from the newest waiter to
the oldest and three places in it: `p`, from which on an earlier walk has set the
fields; `e`, the head the present walk set out from; `c`, how far it has come. `PushNode`
extends `q` at its front, `Walk` moves `c`, `TakeOldest` and `TakeLast` shorten `q` at its end. That is what
`NodesAlive` needs: every node that a walk can reach is that of a thread in `q`, all of
these sleep, and one that is about to be unparked is not among them.

### Memoization cache

`ValidCache` does not hold of the code: `cache_prune` is the counterexample. What
`CacheProofs` proves is that the slip of line 290 is the only thing that breaks it.
`PrunesOldest` says of a step that if it frees an entry in `prune_cache`, then the
one at the end of the list, which is when line 290 is not reached.

- `CacheStaysValid`: `Spec /\ [][PrunesOldest]_vars => []ValidCache`
- `UsersStayCounted`, `ResultsStayWithKey`, `BlocksNeverLost`, `SizeStaysAccounted`,
  `TypesStayCorrect`: the same for `UsersCounted`, `ResultsBelongToKey`, `NoBlockLost`,
  `SizeAccounted` and `TypeOK`
- `OneRealizationPrunesOldest`: `Spec => [][PrunesOldest]_vars`, if at most one memoized
  realization is held at a time (`OneRealization`): by one pipeline, in which the uses of
  memoized Funcs do not overlap
- `OneRealizationKeepsCache`: the six properties under `OneRealization` alone

They hold for any number of clients, keys, buckets, entries and blocks and any limit;
`CacheAssumption` asks for finite sets of entries, blocks and keys, a `NULL` that is
none of these and tuples of one element at least. `PrunesOldest` also holds, without a
proof being needed, of every application whose cache stays within its limit.

A list is described by a rank of its elements that falls along `next` (`IsList` of
`ListLemmas`), so that an insertion or a removal is a statement about ranks and
no sequence has to be rebuilt. `Inv` has one rank for the recency list and one for
all chains (`LruInv`, `HashInv`) and, besides types:

- `ClientInv`, `PrivateInv`: what a client holds at each point of its sequence of calls,
  and that blocks without an entry have one holder;
- `EntryInv`, `BlockInv`: an entry and its blocks name each other, and every block is
  that of an entry or of a client;
- `KeyInv`: one entry per key, also between the search of a store and its insertion;
- `LockInv`: who holds `memoization_lock`, and that a prune candidate is kept under it only;
- `UsersInv`: `in_use_count` is the number of holders.

`SizeAccounted` and `TypeOK` need two facts more, each kept by every step under `Inv`.
`SizeInv`: `current_cache_size` is the sum of the sizes of the entries and of what a
client has added and not yet stored, so that no subtraction takes it below zero. And what
`prune_cache` has passed is in use, from which its loop ends within the limit or with
nothing left to free.

### Profiler

`ProfilerProofs` proves, for any callers, any finite set of pipelines and any numbers
of funcs:

- `ProfilerSampled`: `Spec => []Sampled`
- `StatsStayListed`: `Spec => []StatsListed`
- `SamplesBilledWhileRunning`: `Spec => []BilledWhileRunning`
- `PeaksStayExact`: `Spec => []PeakExact`
- `CountersNeverNegative`: `Spec => []TypeOK`

These rest on `InvHolds`: `Spec => []Inv`. `Inv` has the types, and

- `ThreadInv`: where the sampling thread can be while the application shuts down;
- `ListInv`: the statistics are a list by rank; `bill_func` and `create_pipeline_stats`
  put an entry at its head;
- `IdInv`: the ids of an entry end where those of another start, or below;
- `CallersInv`: a running pipeline has an entry with its name and token;
- `BillInv`: `current_func` is an id of a pipeline that has not ended (or 0 before the
  first start, when there is nothing to bill);
- `PeakInv`: `PeakExact`, no peak above the highest value that was reached, and no caller
  about to store one. Without the last two a late compare-and-swap could replace the
  peak that `PeakExact` speaks of.

`BilledWhileRunning` needs `FuncInv` under `Inv`: what the sampling thread has read is an id
of an entry whose pipeline was running at the read. No step takes that entry away
before it is billed: callers do not free entries, and resets wait for the lock.

That the counters stay natural numbers, which `TypeOK` says, needs `MemoryInv` under `Inv`:
`memory_current` of a pipeline or a func is at least the sum of the allocations that
were added to it and not yet taken off. A pipeline and its funcs have counters of their
own that one `memory_allocate` changes in several steps, so between these an allocation counts
for the one and not for the other. It is an inequality because a pipeline that fails leaves
its allocations in the counters.

`Entry`, the walk along the list by which `StatsListed` is stated, is a recursive
function; that it meets every entry and then ends is proved by induction from the
library's facts on well-founded relations (`SetInduction` of `ListLemmas`).

### Only model-checked

- Liveness (`CallsReturn`, `ShutdownEnds`, `ShutdownReturns`), which is out of the
  prover's reach.
- `ThreadsNotOverCommitted` and `FoldedStorageRespected`, which are about the programs of the
  runs: the first depends on the `min_threads` of nested tasks (`over_commit` is a program
  of which it is false), the second on the semaphores around a folded buffer.
- The device buffers, each of whose operations is a sequence of calls that may fail one
  by one.

## 5. Not modelled

`halide_spawn_thread`, `halide_join_thread`, `malloc` and the pthread calls under
`thread_parker` are external. `HL_NUM_THREADS` and the number of CPUs are a constant.
Custom overrides (`halide_set_custom_*`) are not modelled, nor is `unpark_all`, which
nothing calls.

- Hash map template (`runtime/hashmap.h`): the algorithm of the cache once more.
- Tracing (`runtime/tracing.cpp`): a spin lock and a buffer of packets for
  debugging output that nothing else depends on.
- Hexagon pools: each operation runs under one mutex that is held throughout.
- GPU backends other than the shape of `cuda.cpp` that `HalideBuffer` uses: calls of
  drivers whose behaviour is not in the repository.
- The Vyasa convolution compiler, the front end, the lowering passes and the code
  generators, which are nearly all of the repository's lines: sequential
  rewriting of expression trees of any size. They have no interleavings or
  failures for a state-space search to explore, and a model of their rewriting
  would be a transliteration. What they promise the runtime (task graphs,
  semaphores, `min_threads`, the order of cache and profiler calls) is in the
  programs of the runs.
- Python bindings, tools and apps: clients of the library.

Weak memory is not modelled (section 2.4).
