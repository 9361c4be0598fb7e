------------------------------ MODULE Profiler ------------------------------
(***************************************************************************)
(* The sampling profiler (src/runtime/profiler.cpp, profiler_inlined.cpp)  *)
(* as the code that src/Profiling.cpp injects into a pipeline uses it.     *)
(*                                                                         *)
(* Callers run instrumented pipelines; a sampling thread wakes up, bills   *)
(* the current func and moves its pipeline to the top of the list; the     *)
(* application resets the statistics or shuts the profiler down while no   *)
(* pipeline runs, as the warning in halide_profiler_reset asks.            *)
(*                                                                         *)
(* The state's lock guards the list.  A section of a caller or of the      *)
(* application under it is one action; the sampling thread holds it from   *)
(* Acquire on, because current_func is written without it.  The memory     *)
(* counters are updated without it too, one atomic operation per action.   *)
(* Times, samples, totals, active_threads and the stack peaks, which are   *)
(* only added up and printed, are left out, and so is the state of a       *)
(* pipeline that runs on a Hexagon DSP (get_remote_profiler_state).        *)
(***************************************************************************)
EXTENDS Integers, FiniteSets, FiniteSetsExt

CONSTANTS
  Callers,      \* the threads that run pipelines
  Names,        \* the pipelines
  num_funcs,    \* the number of funcs of each
  Workloads,    \* the applications considered: the pipelines of each, and the sizes
                \* of what they allocate
  Failures,     \* how often an allocation of statistics or a pipeline may fail
  NULL

ASSUME ProfilerAssumption ==
  /\ IsFiniteSet(Names) /\ num_funcs \in [Names -> Nat \ {0}]
  /\ \A w \in Workloads : w.names \subseteq Names /\ w.sizes \subseteq Nat \ {0}
  /\ NULL \notin Names \cup 1..Cardinality(Names)
  /\ Failures \in Nat

VARIABLES
  work,            \* the workload, fixed at the start
  pipelines,       \* halide_profiler_state: the head of the list,
  first_free_id,
  current_func,
  sampling_thread, \* whether the handle of the sampling thread is set
  stats,           \* the halide_profiler_pipeline_stats that are allocated, by address
  sampler,         \* where the sampling thread is,
  func,            \* the func that it has read,
  ran,             \* and the pipelines that ran then (the code has no such variable)
  app,             \* where the application is in halide_profiler_shutdown
  pc,
  name,            \* the pipeline that a caller runs,
  token,           \* its profiler_token
  p_stats,         \* and its profiler_pipeline_state
  live,            \* what it has allocated for each func
  update,          \* the memory update in progress: [func, size, slot, val, old]
  failures

stateVars == <<work, pipelines, first_free_id, sampling_thread>>
samplerVars == <<sampler, func, ran>>
callerVars == <<pc, name, token, p_stats, live, update>>
vars == <<stateVars, current_func, stats, samplerVars, app, callerVars, failures>>

please_stop == -2
outside_of_halide == -1
Addresses == 1..Cardinality(Names)
Funcs(n) == 0..num_funcs[n] - 1
NoUpdate == [func |-> 0, size |-> 0, slot |-> -1, val |-> 0, old |-> 0]

\* current_func starts at 0: the state is initialized to zeros.
Init ==
  /\ work \in Workloads
  /\ pipelines = NULL /\ first_free_id = 0 /\ current_func = 0
  /\ sampling_thread = FALSE
  /\ stats = [p \in {} |-> NULL]
  /\ sampler = "none" /\ func = outside_of_halide /\ ran = {}
  /\ app = "idle"
  /\ pc = [i \in Callers |-> "out"]
  /\ name = [i \in Callers |-> NULL]
  /\ token = [i \in Callers |-> 0]
  /\ p_stats = [i \in Callers |-> NULL]
  /\ live = [i \in Callers |-> <<>>]
  /\ update = [i \in Callers |-> NoUpdate]
  /\ failures = 0

At(i, l) == pc[i] = l
Goto(i, l) == pc' = [pc EXCEPT ![i] = l]
LockFree == sampler \notin {"check", "sample", "bill"}
Quiet == \A i \in Callers : At(i, "out")

-----------------------------------------------------------------------------
(* The list of pipelines *)

\* The k-th entry from the head on.
Entry == LET entry[k \in 1..Cardinality(Names) + 1] ==
               IF k = 1 THEN pipelines
               ELSE IF entry[k - 1] \in DOMAIN stats THEN stats[entry[k - 1]].next ELSE NULL
         IN entry
Listed == {Entry[k] : k \in DOMAIN Entry} \ {NULL}

\* The position of the first entry among the addresses A, 0 when there is none.
FirstOf(A) == LET hits == {k \in DOMAIN Entry : Entry[k] \in A}
              IN IF hits = {} THEN 0 ELSE Min(hits)
Named(n) == FirstOf({p \in DOMAIN stats : stats[p].name = n})
HoldsId(p, id) == id \in stats[p].first_func_id .. stats[p].first_func_id + num_funcs[stats[p].name] - 1

\* A slot of memory counters is -1 for the pipeline, f for its func f.
NoMemory == [current |-> 0, peak |-> 0, top |-> 0]
NewStats(n) ==
  [name |-> n, next |-> pipelines, first_func_id |-> first_free_id,
   memory |-> [slot \in Funcs(n) \cup {-1} |-> NoMemory]]

Create(p, n) ==
  /\ stats' = [q \in DOMAIN stats \cup {p} |-> IF q = p THEN NewStats(n) ELSE stats[q]]
  /\ first_free_id' = first_free_id + num_funcs[n]
  /\ pipelines' = p

-----------------------------------------------------------------------------
(* What an instrumented pipeline calls *)

\* halide_profiler_pipeline_start.  On failure the pipeline returns; its end was
\* registered as a destructor before.
Start(i, n) ==
  /\ At(i, "out") /\ LockFree /\ app = "idle"
  /\ name' = [name EXCEPT ![i] = n]
  /\ sampling_thread' = TRUE
  /\ sampler' = IF sampling_thread THEN sampler ELSE "start"
  /\ \/ /\ Named(n) # 0
        /\ token' = [token EXCEPT ![i] = stats[Entry[Named(n)]].first_func_id]
        /\ Goto(i, "started")
        /\ UNCHANGED <<pipelines, first_free_id, stats, failures>>
     \/ /\ Named(n) = 0
        /\ \E p \in Addresses \ DOMAIN stats :
             \/ /\ Create(p, n)
                /\ token' = [token EXCEPT ![i] = first_free_id]
                /\ Goto(i, "started")
                /\ UNCHANGED failures
             \* malloc of the entry or of its funcs fails.
             \/ /\ failures < Failures /\ failures' = failures + 1
                /\ UNCHANGED <<pipelines, first_free_id, stats>>
                /\ Goto(i, "end")
                /\ UNCHANGED token
  /\ UNCHANGED <<work, current_func, func, ran, app, p_stats, live, update>>

\* halide_profiler_get_pipeline_state.
GetState(i) ==
  /\ At(i, "started") /\ LockFree
  /\ p_stats' = [p_stats EXCEPT ![i] = IF Named(name[i]) = 0 THEN NULL ELSE Entry[Named(name[i])]]
  /\ live' = [live EXCEPT ![i] = [f \in Funcs(name[i]) |-> 0]]
  /\ Goto(i, "in")
  /\ UNCHANGED <<stateVars, current_func, stats, samplerVars, app, name, token, update, failures>>

SetCurrentFunc(i, f) ==
  /\ At(i, "in") /\ f \in Funcs(name[i])
  /\ current_func' = token[i] + f
  /\ UNCHANGED <<stateVars, stats, samplerVars, app, callerVars, failures>>

\* The body is through: everything is freed.
Finish(i) ==
  /\ At(i, "in") /\ \A f \in Funcs(name[i]) : live[i][f] = 0
  /\ Goto(i, "end")
  /\ UNCHANGED <<stateVars, current_func, stats, samplerVars, app, name, token, p_stats, live, update, failures>>

\* An error in the body returns from the pipeline, past the remaining calls.
Fail(i) ==
  /\ At(i, "in") /\ failures < Failures
  /\ failures' = failures + 1
  /\ Goto(i, "end")
  /\ UNCHANGED <<stateVars, current_func, stats, samplerVars, app, name, token, p_stats, live, update>>

\* halide_profiler_pipeline_end.
MutEndSilent(i) == current_func
func_at_end(i) == outside_of_halide
End(i) ==
  /\ At(i, "end")
  /\ current_func' = func_at_end(i)
  /\ name' = [name EXCEPT ![i] = NULL]
  /\ token' = [token EXCEPT ![i] = 0]
  /\ p_stats' = [p_stats EXCEPT ![i] = NULL]
  /\ live' = [live EXCEPT ![i] = <<>>]
  /\ Goto(i, "out")
  /\ UNCHANGED <<stateVars, stats, samplerVars, app, update, failures>>

-----------------------------------------------------------------------------
(* halide_profiler_memory_allocate and halide_profiler_memory_free *)

Memory(i, slot) == stats[p_stats[i]].memory[slot]
SetMemory(i, slot, m) == stats' = [stats EXCEPT ![p_stats[i]].memory[slot] = m]

\* __sync_add_and_fetch of memory_current, and the start of the update of the peak.
\* "top" records the highest value that memory_current ever had.
AddCurrent(i, u, slot) ==
  LET m == Memory(i, slot)
      sum == m.current + u.size
  IN  /\ SetMemory(i, slot, [m EXCEPT !.current = sum, !.top = Max({@, sum})])
      /\ update' = [update EXCEPT ![i] = [u EXCEPT !.slot = slot, !.val = sum]]
      /\ Goto(i, "load")

MemoryAllocate(i, f, size) ==
  /\ At(i, "in") /\ f \in Funcs(name[i]) /\ live[i][f] = 0
  /\ live' = [live EXCEPT ![i][f] = size]
  /\ AddCurrent(i, [NoUpdate EXCEPT !.func = f, !.size = size], -1)
  /\ UNCHANGED <<stateVars, current_func, samplerVars, app, name, token, p_stats, failures>>

AddFunc(i) ==
  /\ At(i, "func")
  /\ AddCurrent(i, update[i], update[i].func)
  /\ UNCHANGED <<stateVars, current_func, samplerVars, app, name, token, p_stats, live, failures>>

\* What is left to do once the peak of a slot is up to date.
FuncNext(u) == IF u.slot = -1 THEN [NoUpdate EXCEPT !.func = u.func, !.size = u.size] ELSE NoUpdate

\* sync_compare_max_and_swap: the load, and one turn of the loop.  The pipeline's
\* peak is followed by the update of the func.
Compare(i, old) ==
  LET u == update[i]
      more == u.val > old
  IN  /\ Goto(i, IF more THEN "swap" ELSE IF u.slot = -1 THEN "func" ELSE "in")
      /\ update' = [update EXCEPT ![i] = IF more THEN [u EXCEPT !.old = old] ELSE FuncNext(u)]

LoadPeak(i) ==
  /\ At(i, "load")
  /\ Compare(i, Memory(i, update[i].slot).peak)
  /\ UNCHANGED <<stateVars, current_func, stats, samplerVars, app, name, token, p_stats, live, failures>>

Swapped(i) ==
  /\ Goto(i, IF update[i].slot = -1 THEN "func" ELSE "in")
  /\ update' = [update EXCEPT ![i] = FuncNext(@)]

MutStoreMax(i, m) ==
  /\ SetMemory(i, update[i].slot, [m EXCEPT !.peak = update[i].val])
  /\ Swapped(i)
CompareAndSwap(i, m) ==
  IF m.peak = update[i].old
  THEN /\ SetMemory(i, update[i].slot, [m EXCEPT !.peak = update[i].val])
       /\ Swapped(i)
  ELSE Compare(i, m.peak) /\ UNCHANGED stats

SwapPeak(i) ==
  /\ At(i, "swap")
  /\ CompareAndSwap(i, Memory(i, update[i].slot))
  /\ UNCHANGED <<stateVars, current_func, samplerVars, app, name, token, p_stats, live, failures>>

SubCurrent(i, slot, size) ==
  LET m == Memory(i, slot) IN SetMemory(i, slot, [m EXCEPT !.current = @ - size])

MemoryFree(i, f) ==
  /\ At(i, "in") /\ f \in Funcs(name[i]) /\ live[i][f] > 0
  /\ SubCurrent(i, -1, live[i][f])
  /\ update' = [update EXCEPT ![i] = [NoUpdate EXCEPT !.func = f]]
  /\ Goto(i, "free")
  /\ UNCHANGED <<stateVars, current_func, samplerVars, app, name, token, p_stats, live, failures>>

MutPipelineTwice(i) == -1
freed_slot(i) == update[i].func
FreeFunc(i) ==
  /\ At(i, "free")
  /\ SubCurrent(i, freed_slot(i), live[i][update[i].func])
  /\ live' = [live EXCEPT ![i][update[i].func] = 0]
  /\ update' = [update EXCEPT ![i] = NoUpdate]
  /\ Goto(i, "in")
  /\ UNCHANGED <<stateVars, current_func, samplerVars, app, name, token, p_stats, failures>>

-----------------------------------------------------------------------------
(* sampling_profiler_thread *)

Acquire ==
  /\ sampler \in {"start", "sleep"}
  /\ sampler' = IF sampler = "start" THEN "check" ELSE "sample"
  /\ UNCHANGED <<stateVars, current_func, stats, func, ran, app, callerVars, failures>>

\* The condition of the outer loop; the thread unlocks when it leaves.
Check ==
  /\ sampler = "check"
  /\ sampler' = IF current_func = please_stop THEN "done" ELSE "sample"
  /\ UNCHANGED <<stateVars, current_func, stats, func, ran, app, callerVars, failures>>

\* The inner loop reads current_func.
Sample ==
  /\ sampler = "sample"
  /\ sampler' = "bill"
  /\ func' = current_func
  /\ ran' = {name[i] : i \in {j \in Callers : ~At(j, "out")}}
  /\ UNCHANGED <<stateVars, current_func, stats, app, callerVars, failures>>

\* bill_func bubbles the k-th entry to the top.
MutNotUnlinked(k) == [stats EXCEPT ![Entry[k]].next = pipelines]
Unlink(k) == [stats EXCEPT ![Entry[k - 1]].next = stats[Entry[k]].next,
                           ![Entry[k]].next = pipelines]
BillFunc(id) ==
  LET k == FirstOf({p \in DOMAIN stats : HoldsId(p, id)})
  IN  IF k < 2 THEN UNCHANGED <<stats, pipelines>>
      ELSE stats' = Unlink(k) /\ pipelines' = Entry[k]

\* Whether the inner loop ends.
MutNeverBreaks(id) == FALSE
Breaks(id) == id = please_stop

\* The rest of its body: what was read is billed, and the thread sleeps without the
\* lock.  Pipelines may have set another func or ended in the meantime.
Bill ==
  /\ sampler = "bill"
  /\ IF Breaks(func)
     THEN sampler' = "check" /\ UNCHANGED <<stats, pipelines>>
     ELSE /\ sampler' = "sleep"
          /\ IF func >= 0 THEN BillFunc(func) ELSE UNCHANGED <<stats, pipelines>>
  /\ func' = outside_of_halide /\ ran' = {}
  /\ UNCHANGED <<work, first_free_id, sampling_thread, current_func, app, callerVars, failures>>

-----------------------------------------------------------------------------
(* The application *)

ResetUnlocked ==
  /\ stats' = [p \in DOMAIN stats \ Listed |-> stats[p]]
  /\ pipelines' = NULL
  /\ first_free_id' = 0

Reset ==
  /\ app = "idle" /\ Quiet /\ LockFree
  /\ ResetUnlocked
  /\ UNCHANGED <<work, sampling_thread, current_func, samplerVars, app, callerVars, failures>>

Shutdown ==
  /\ app = "idle" /\ Quiet /\ sampling_thread
  /\ current_func' = please_stop
  /\ app' = "join"
  /\ UNCHANGED <<stateVars, stats, samplerVars, callerVars, failures>>

\* halide_join_thread has returned.
MutHandleKept == sampling_thread
handle_after_join == FALSE
Joined ==
  /\ app = "join" /\ sampler = "done"
  /\ sampling_thread' = handle_after_join
  /\ sampler' = "none"
  /\ current_func' = outside_of_halide
  /\ ResetUnlocked
  /\ app' = "idle"
  /\ UNCHANGED <<work, func, ran, callerVars, failures>>

SamplerNext == Acquire \/ Check \/ Sample \/ Bill
CallerNext(i) ==
  \/ \E n \in work.names : Start(i, n)
  \/ GetState(i) \/ Finish(i) \/ Fail(i) \/ End(i)
  \/ \E f \in UNION {Funcs(n) : n \in work.names} :
       SetCurrentFunc(i, f) \/ MemoryFree(i, f) \/ \E size \in work.sizes : MemoryAllocate(i, f, size)
  \/ LoadPeak(i) \/ SwapPeak(i) \/ AddFunc(i) \/ FreeFunc(i)
Next == SamplerNext \/ Reset \/ Shutdown \/ Joined \/ \E i \in Callers : CallerNext(i)

\* The operating system runs the sampling thread, whose sleep ends, and the thread
\* that joins it.  Nothing is assumed of the pipelines.
Spec == Init /\ [][Next]_vars /\ WF_vars(SamplerNext) /\ WF_vars(Joined)

-----------------------------------------------------------------------------
(* Properties *)

\* Above all, the memory counters, which are unsigned, are never taken below zero.
TypeOK ==
  /\ pipelines \in Addresses \cup {NULL}
  /\ first_free_id \in Nat
  /\ current_func \in Int
  /\ sampling_thread \in BOOLEAN
  /\ DOMAIN stats \subseteq Addresses
  /\ \A p \in DOMAIN stats : \A slot \in DOMAIN stats[p].memory :
       stats[p].memory[slot] \in [current : Nat, peak : Nat, top : Nat]
  /\ sampler \in {"none", "start", "check", "sample", "bill", "sleep", "done"}
  /\ func \in Int /\ ran \subseteq Names \cup {NULL}
  /\ app \in {"idle", "join"}
  /\ pc \in [Callers -> {"out", "started", "in", "load", "swap", "func", "free", "end"}]
  /\ name \in [Callers -> Names \cup {NULL}]
  /\ token \in [Callers -> Nat]
  /\ p_stats \in [Callers -> Addresses \cup {NULL}]
  /\ failures \in 0..Failures

Running(i) == pc[i] \notin {"out", "end"}

\* The list holds every allocated entry once and nothing else, however starts,
\* failing allocations and the bubbling of bill_func are interleaved; so what the
\* running pipelines update without the lock exists and is their own.
StatsListed ==
  /\ Listed = DOMAIN stats /\ Entry[Cardinality(DOMAIN stats) + 1] = NULL
  /\ \A i \in Callers : p_stats[i] # NULL => /\ p_stats[i] \in DOMAIN stats
                                             /\ stats[p_stats[i]].name = name[i]

\* A sample is billed to one pipeline, and that pipeline was running when current_func
\* was read: func ids are never shared, tokens stay valid, the end of a pipeline takes
\* its func back, and the entry stays between the read and the billing, in which the
\* pipeline may end.  A sample gets lost only when there are no statistics at all.
BilledWhileRunning ==
  /\ \A p, q \in Listed, id \in 0..first_free_id : HoldsId(p, id) /\ HoldsId(q, id) => p = q
  /\ sampler = "bill" /\ func >= 0 /\ Listed # {} =>
       \E p \in Listed : HoldsId(p, func) /\ stats[p].name \in ran

\* Once the updates in progress are through, a memory_peak is the highest value
\* that its memory_current ever had, though both are updated without a lock.
PeakExact ==
  \A p \in DOMAIN stats : \A slot \in DOMAIN stats[p].memory :
    LET m == stats[p].memory[slot]
    IN  \/ m.peak = m.top
        \/ \E i \in Callers : /\ p_stats[i] = p /\ pc[i] \in {"load", "swap"}
                              /\ update[i].slot = slot /\ update[i].val = m.top

\* While a pipeline runs there is a sampling thread, also after a shutdown.
Sampled == (\E i \in Callers : Running(i)) => sampler \in {"start", "check", "sample", "bill", "sleep"}

\* halide_profiler_shutdown returns: the sampling thread sees please_stop.
ShutdownReturns == app = "join" ~> app = "idle"
=============================================================================
