----------------------------- MODULE ProfilerProofs -------------------------
(***************************************************************************)
(* The profiler keeps its list of statistics, bills samples to running     *)
(* pipelines, gets its peaks right, never takes a counter below zero and   *)
(* is sampled, for any number of callers, pipelines and funcs.             *)
(*                                                                         *)
(* The list is one in the sense of ListLemmas: ranks fall along it. The    *)
(* invariant adds who runs which pipeline, where the sampling thread is,   *)
(* and how far the updates of memory_peak are, which take no lock.  That   *)
(* the counters cover what is allocated, and that the func that was read   *)
(* has an entry, is kept by every step under it.                           *)
(***************************************************************************)
EXTENDS Profiler, ListLemmas

\* A leaf is for Zenon unless it says otherwise.
USE ZenonT(30)

-----------------------------------------------------------------------------
(* The inductive invariant *)

\* The types of the state.  That the memory counters do not fall below zero is MemoryInv.
Pointers == Addresses \cup {NULL}
Counters == [current : Int, peak : Int, top : Int]
Slots(n) == Funcs(n) \cup {-1}
Records == [name : Names, next : Pointers, first_func_id : Nat,
            memory : UNION {[Slots(n) -> Counters] : n \in Names}]
Updates == [func : Int, size : Int, slot : Int, val : Int, old : Int]
Labels == {"out", "started", "in", "load", "swap", "func", "free", "end"}
TypeInv ==
  /\ work \in Workloads
  /\ pipelines \in Pointers /\ first_free_id \in Nat /\ current_func \in Int
  /\ sampling_thread \in BOOLEAN
  /\ DOMAIN stats \subseteq Addresses /\ stats \in [DOMAIN stats -> Records]
  /\ \A p \in DOMAIN stats : stats[p].memory \in [Slots(stats[p].name) -> Counters]
  /\ sampler \in {"none", "start", "check", "sample", "bill", "sleep", "done"}
  /\ app \in {"idle", "join"}
  /\ pc \in [Callers -> Labels]
  /\ name \in [Callers -> Names \cup {NULL}] /\ token \in [Callers -> Nat]
  /\ p_stats \in [Callers -> Pointers]
  /\ update \in [Callers -> Updates]

\* The sampling thread is there as long as its handle is set, and is told to stop only
\* by a shutdown that waits for it.
ThreadInv ==
  /\ sampling_thread <=> sampler # "none"
  /\ current_func = please_stop <=> app = "join"
  /\ app = "join" => Quiet /\ sampling_thread
  /\ sampler = "done" => app = "join"
  /\ ~sampling_thread => Quiet

\* The statistics form a list.
NextOf == [p \in DOMAIN stats |-> stats[p].next]
IsStatsList(rank) == IsList(DOMAIN stats, pipelines, NextOf, rank, NULL)
ListInv == \E rank \in [Addresses -> Int] : IsStatsList(rank)

\* A pipeline has one entry, and its ids are its own.
FuncsEnd(p) == stats[p].first_func_id + num_funcs[stats[p].name]
IdInv ==
  /\ \A p \in DOMAIN stats : FuncsEnd(p) <= first_free_id
  /\ \A p, q \in DOMAIN stats : p # q => /\ stats[p].name # stats[q].name
                                         /\ \/ FuncsEnd(p) <= stats[q].first_func_id
                                            \/ FuncsEnd(q) <= stats[p].first_func_id
  /\ DOMAIN stats = {} => first_free_id = 0

\* Caller i runs the pipeline whose entry is p.
Runs(i, p) == stats[p].name = name[i] /\ token[i] = stats[p].first_func_id
Updating == {"in", "load", "swap", "func", "free"}
CallerInv(i) ==
  /\ pc[i] = "out" => p_stats[i] = NULL
  /\ pc[i] \in Updating \cup {"started"} => /\ name[i] \in Names
                                           /\ \E p \in DOMAIN stats : Runs(i, p)
  /\ pc[i] \in Updating => /\ p_stats[i] # NULL
                           /\ live[i] \in [Funcs(name[i]) -> Int]
  /\ p_stats[i] # NULL => p_stats[i] \in DOMAIN stats /\ stats[p_stats[i]].name = name[i]
CallersInv == live = [i \in Callers |-> live[i]] /\ \A i \in Callers : CallerInv(i)

\* The current func is one of a pipeline that runs, unless none has started yet.
BillInv ==
  current_func >= 0 =>
    \/ DOMAIN stats = {} /\ current_func = 0
    \/ \E i \in Callers, p \in DOMAIN stats : pc[i] # "out" /\ Runs(i, p) /\ HoldsId(p, current_func)

\* The updates in progress.
UpdateInv(i) ==
  /\ pc[i] \in {"load", "swap", "func", "free"} => update[i].func \in Funcs(name[i])
  /\ pc[i] \in {"load", "swap"} => /\ update[i].slot \in Slots(name[i])
                                   /\ update[i].val <= Memory(i, update[i].slot).top
  /\ pc[i] = "swap" => update[i].old < update[i].val
PeakInv ==
  /\ \A p \in DOMAIN stats : \A slot \in Slots(stats[p].name) :
       stats[p].memory[slot].peak <= stats[p].memory[slot].top
  /\ \A i \in Callers : UpdateInv(i)
  /\ PeakExact

\* The inductive invariant.
Inv == TypeInv /\ ThreadInv /\ ListInv /\ IdInv /\ CallersInv /\ BillInv /\ PeakInv

-----------------------------------------------------------------------------
(* The walk along the list *)

\* Entry as a walk of so many steps.
Steps == Cardinality(Names)
After(x) == IF x \in DOMAIN stats THEN stats[x].next ELSE NULL
Walks(at, n) == at = [k \in 1..n + 1 |-> IF k = 1 THEN pipelines
                                         ELSE IF at[k - 1] \in DOMAIN stats THEN stats[at[k - 1]].next ELSE NULL]

\* The number of steps is a natural number, and no address is NULL.
LEMMA StepsNat == Steps \in Nat /\ Addresses = 1..Steps /\ NULL \notin Addresses /\ IsFiniteSet(Addresses)
                  /\ Cardinality(Addresses) = Steps
<1>1. Steps \in Nat
  BY ProfilerAssumption, FS_CardinalityType DEF Steps
<1> QED BY <1>1, ProfilerAssumption, FS_Interval, SMTT(30) DEF Steps, Addresses

\* The recursive definition of Entry has a solution.
LEMMA WalkDefined == ASSUME NEW N \in Nat PROVE \E at : Walks(at, N)
<1> DEFINE T == {m \in Nat : \E at : Walks(at, m)}
<1>1. 0 \in T
  <2>1. Walks([k \in 1..1 |-> pipelines], 0)
    BY SMTT(30) DEF Walks
  <2> QED BY <2>1
<1>2. ASSUME NEW m \in T PROVE m + 1 \in T
  <2>1. PICK g : Walks(g, m)
    OBVIOUS
  <2>2. g[1] = pipelines /\ \A k \in 2..m + 1 : g[k] = After(g[k - 1])
    BY <2>1, SMTT(30) DEF Walks, After
  <2> DEFINE h == [k \in 1..m + 2 |-> IF k = m + 2 THEN After(g[m + 1]) ELSE g[k]]
  <2>3. h[m + 2] = After(h[m + 1]) /\ \A k \in 1..m + 1 : h[k] = g[k]
    BY SMTT(30)
  <2>4. h = [k \in 1..m + 2 |-> h[k]]
    OBVIOUS
  <2> HIDE DEF h
  <2>5. \A k \in 1..m + 2 : h[k] = IF k = 1 THEN pipelines ELSE After(h[k - 1])
    BY <2>2, <2>3, SMTT(30)
  <2>6. h = [k \in 1..m + 2 |-> IF k = 1 THEN pipelines ELSE After(h[k - 1])]
    BY <2>4, <2>5
  <2>7. (m + 1) + 1 = m + 2
    BY SMTT(30)
  <2>8. Walks(h, m + 1)
    BY <2>6, <2>7 DEF Walks, After
  <2> QED BY <2>8, SMTT(30)
<1> HIDE DEF T
<1>3. T = Nat
  BY <1>1, <1>2, SetInduction DEF T
<1> QED BY <1>3 DEF T

\* So Entry starts at the head and goes on along next.
LEMMA EntryWalks ==
  /\ DOMAIN Entry = 1..Steps + 1 /\ Entry[1] = pipelines
  /\ \A k \in 2..Steps + 1 : Entry[k] = After(Entry[k - 1])
<1>1. \E at : Walks(at, Steps)
  BY StepsNat, WalkDefined
<1>2. Entry = CHOOSE at : Walks(at, Steps)
  BY DEF Entry, Walks, Steps
<1>3. Walks(Entry, Steps)
  BY <1>1, <1>2
<1> DEFINE e == Entry
<1> HIDE DEF e
<1>4. Walks(e, Steps)
  BY <1>3 DEF e
<1>5. DOMAIN e = 1..Steps + 1 /\ e[1] = pipelines /\ \A k \in 2..Steps + 1 : e[k] = After(e[k - 1])
  BY <1>4, StepsNat, SMTT(30) DEF Walks, After
<1> QED BY <1>5 DEF e

\* Entry meets every allocated entry, and nothing else before it ends.
LEMMA EntryMeetsStats ==
  ASSUME TypeInv, ListInv
  PROVE  /\ \A k \in 1..Steps + 1 : Entry[k] \in DOMAIN stats \cup {NULL}
         /\ \A p \in DOMAIN stats : \E k \in 1..Steps + 1 : Entry[k] = p
         /\ Entry[Cardinality(DOMAIN stats) + 1] = NULL
<1> DEFINE S == DOMAIN stats
<1>1. S \subseteq Addresses
  BY DEF TypeInv
<1>2. PICK rank \in [Addresses -> Int] : IsList(S, pipelines, NextOf, rank, NULL)
  BY DEF ListInv, IsStatsList
<1>3. \A x \in S : NextOf[x] = After(x) /\ rank[x] \in Int
  BY <1>1 DEF NextOf, After
<1>4. NULL \notin S /\ IsFiniteSet(S) /\ Cardinality(S) <= Steps /\ Cardinality(S) \in Nat
  BY <1>1, StepsNat, FS_Subset, FS_CardinalityType, SMTT(30)
<1>5. After(NULL) = NULL
  BY <1>4 DEF After
<1> DEFINE e == Entry
           at == [n \in 0..Steps |-> e[n + 1]]
<1> HIDE DEF S, e
<1>6. e[1] = pipelines /\ \A k \in 2..Steps + 1 : e[k] = After(e[k - 1])
  BY EntryWalks DEF e
<1>7. at[0] = pipelines /\ \A n \in 1..Steps : at[n] = After(at[n - 1])
  BY <1>6, StepsNat, SMTT(30)
<1>8. \A n \in 0..Steps : at[n] = e[n + 1]
  BY StepsNat
<1> HIDE DEF at
<1>9. /\ \A n \in 1..Steps : at[n - 1] = NULL => at[n] = NULL
      /\ \A n \in 1..Steps : at[n - 1] \in S => at[n] = NextOf[at[n - 1]]
  BY <1>3, <1>5, <1>7
<1>10. Steps \in Nat
  BY StepsNat
<1>10a. (\A x \in S : rank[x] \in Int) /\ at[0] = pipelines
  BY <1>3, <1>7
<1>11. /\ \A n \in 0..Steps : at[n] \in S \cup {NULL}
       /\ \A x \in S : \E n \in 0..Steps : at[n] = x
  BY <1>10a, <1>2, <1>4, <1>9, <1>10, WalkMeetsList, SMTT(30)
<1>12. at[Cardinality(S)] = NULL
  BY <1>10a, <1>2, <1>4, <1>9, <1>10, WalkEnds, SMTT(30)
<1>13. e[Cardinality(S) + 1] = NULL
  BY <1>4, <1>8, <1>10, <1>12, SMTT(30)
<1>14. \A k \in 1..Steps + 1 : e[k] \in S \cup {NULL}
  <2> TAKE k \in 1..Steps + 1
  <2>1. k - 1 \in 0..Steps /\ (k - 1) + 1 = k
    BY <1>10, SMTT(30)
  <2> QED BY <1>8, <1>11, <2>1
<1>15. \A x \in S : \E k \in 1..Steps + 1 : e[k] = x
  <2> TAKE x \in S
  <2>1. PICK n \in 0..Steps : at[n] = x
    BY <1>11
  <2>2. n + 1 \in 1..Steps + 1 /\ e[n + 1] = x
    BY <1>8, <1>10, <2>1, SMTT(30)
  <2> QED BY <2>2
<1> QED BY <1>13, <1>14, <1>15 DEF e, S

\* So the list holds what is allocated.
LEMMA ListedStats ==
  ASSUME TypeInv, ListInv
  PROVE  Listed = DOMAIN stats
<1>1. /\ \A k \in 1..Steps + 1 : Entry[k] \in DOMAIN stats \cup {NULL}
      /\ \A p \in DOMAIN stats : \E k \in 1..Steps + 1 : Entry[k] = p
  BY EntryMeetsStats
<1>2. DOMAIN Entry = 1..Steps + 1
  BY EntryWalks
<1>3. NULL \notin DOMAIN stats
  BY StepsNat DEF TypeInv
<1> QED BY <1>1, <1>2, <1>3 DEF Listed

\* The first entry among A is one of A, and there is none only if A is empty.
LEMMA FirstFound ==
  ASSUME TypeInv, ListInv, NEW A, A \subseteq DOMAIN stats
  PROVE  \/ FirstOf(A) = 0 /\ A = {}
         \/ FirstOf(A) \in 1..Steps + 1 /\ Entry[FirstOf(A)] \in A
<1> DEFINE hits == {k \in DOMAIN Entry : Entry[k] \in A}
<1>1. DOMAIN Entry = 1..Steps + 1 /\ \A p \in DOMAIN stats : \E k \in 1..Steps + 1 : Entry[k] = p
  BY EntryWalks, EntryMeetsStats
<1>2. FirstOf(A) = IF hits = {} THEN 0 ELSE Min(hits)
  BY DEF FirstOf
<1>3. hits \subseteq 1..Steps + 1 /\ \A k \in hits : Entry[k] \in A
  BY <1>1
<1>4. hits = {} => A = {}
  BY <1>1
<1> HIDE DEF hits
<1>5. CASE hits = {}
  BY <1>2, <1>4, <1>5
<1>6. CASE hits # {}
  <2>1. hits \subseteq Nat
    BY <1>3, StepsNat, SMTT(30)
  <2>2. \E x \in hits : \A y \in hits : x <= y
    BY <1>6, <2>1, LeastNat
  <2>3. Min(hits) \in hits
    BY <2>2 DEF Min
  <2> QED BY <1>2, <1>3, <1>6, <2>3
<1> QED BY <1>5, <1>6

-----------------------------------------------------------------------------
(* What a step leaves alone *)

\* The names and ids of the entries, their pointers and their counters.
SameNames ==
  /\ DOMAIN stats' = DOMAIN stats
  /\ \A p \in DOMAIN stats : /\ stats'[p].name = stats[p].name
                             /\ stats'[p].first_func_id = stats[p].first_func_id
SameNext == \A p \in DOMAIN stats : stats'[p].next = stats[p].next
SameMemory == \A p \in DOMAIN stats : stats'[p].memory = stats[p].memory
StatsTyped ==
  /\ DOMAIN stats \subseteq Addresses /\ stats \in [DOMAIN stats -> Records]
  /\ \A p \in DOMAIN stats : stats[p].memory \in [Slots(stats[p].name) -> Counters]

\* A step that leaves the names and ids of the entries alone leaves IdInv alone.
LEMMA SameIds ==
  ASSUME IdInv, SameNames, UNCHANGED first_free_id
  PROVE  IdInv'
<1>1. DOMAIN stats' = DOMAIN stats /\ \A p \in DOMAIN stats : FuncsEnd(p)' = FuncsEnd(p)
  BY DEF SameNames, FuncsEnd
<1>2. \A p \in DOMAIN stats : /\ stats'[p].name = stats[p].name
                              /\ stats'[p].first_func_id = stats[p].first_func_id
  BY DEF SameNames
<1> QED BY <1>1, <1>2, SMTT(30) DEF IdInv

\* A step that leaves the next pointers alone leaves the list alone.
LEMMA SameListInv ==
  ASSUME ListInv, SameNext, DOMAIN stats' = DOMAIN stats, UNCHANGED pipelines
  PROVE  ListInv'
<1>1. PICK rank \in [Addresses -> Int] : IsList(DOMAIN stats, pipelines, NextOf, rank, NULL)
  BY DEF ListInv, IsStatsList
<1>2. \A x \in DOMAIN stats : NextOf'[x] = NextOf[x] /\ rank[x] = rank[x]
  BY DEF NextOf, SameNext
<1>3. IsList(DOMAIN stats, pipelines, NextOf', rank, NULL)
  BY <1>1, <1>2, ListFrame
<1> QED BY <1>1, <1>3 DEF ListInv, IsStatsList

\* A caller stays the one that it is.
SameCaller(j) == /\ pc'[j] = pc[j] /\ name'[j] = name[j] /\ token'[j] = token[j]
                 /\ p_stats'[j] = p_stats[j] /\ live'[j] = live[j] /\ update'[j] = update[j]

\* As long as the entries keep their names, so does what is said of such a caller.
LEMMA SameCallerInv ==
  ASSUME NEW j \in Callers, CallerInv(j), SameCaller(j), SameNames
  PROVE  CallerInv(j)'
<1>1. \A p \in DOMAIN stats : Runs(j, p) => Runs(j, p)'
  BY DEF Runs, SameCaller, SameNames
<1> QED BY <1>1 DEF CallerInv, SameCaller, SameNames

\* The counters of an entry, and of a caller's entry.
LEMMA SameUpdateInv ==
  ASSUME NEW j \in Callers, CallerInv(j), UpdateInv(j), SameCaller(j),
         StatsTyped, StatsTyped', SameNames,
         \A p \in DOMAIN stats : \A s \in Slots(stats[p].name) :
           stats[p].memory[s].top <= stats'[p].memory[s].top,
         update[j] \in Updates
  PROVE  UpdateInv(j)'
<1>1. CASE pc[j] \notin {"load", "swap"}
  BY <1>1 DEF UpdateInv, SameCaller
<1>2. CASE pc[j] \in {"load", "swap"}
  <2>1. /\ pc[j] = "swap" => update[j].old < update[j].val
        /\ update[j].func \in Funcs(name[j])
        /\ update[j].slot \in Slots(name[j]) /\ update[j].val <= Memory(j, update[j].slot).top
        /\ p_stats[j] \in DOMAIN stats /\ stats[p_stats[j]].name = name[j]
    BY <1>2 DEF UpdateInv, CallerInv, Updating
  <2>2. PICK p : p = p_stats[j]
    OBVIOUS
  <2>3. PICK s : s = update[j].slot
    OBVIOUS
  <2>4. p \in DOMAIN stats /\ s \in Slots(stats[p].name) /\ s \in Slots(stats'[p].name) /\ p \in DOMAIN stats'
    BY <2>1, <2>2, <2>3 DEF SameNames
  <2>5. stats[p].memory[s] \in Counters /\ stats'[p].memory[s] \in Counters
    BY <2>4 DEF StatsTyped
  <2>6. update[j].val \in Int /\ update[j].val <= stats[p].memory[s].top
        /\ stats[p].memory[s].top <= stats'[p].memory[s].top
    BY <2>1, <2>2, <2>3, <2>4 DEF Memory, Updates
  <2>7. update[j].val <= stats'[p].memory[s].top
    BY <2>5, <2>6, SMTT(30) DEF Counters
  <2>8. update'[j] = update[j] /\ p_stats'[j] = p /\ name'[j] = name[j] /\ pc'[j] = pc[j]
    BY <2>2 DEF SameCaller
  <2>9. Memory(j, update[j].slot)' = stats'[p].memory[s]
    BY <2>3, <2>8 DEF Memory
  <2> QED BY <2>1, <2>3, <2>7, <2>8, <2>9 DEF UpdateInv
<1> QED BY <1>1, <1>2

\* The pipelines that run go on running.
KeepsRunning == \A j \in Callers : pc[j] # "out" => /\ pc'[j] # "out" /\ name'[j] = name[j]
                                                    /\ token'[j] = token[j]

\* A step in which they do leaves it right what is billed.
LEMMA SameBillInv ==
  ASSUME BillInv, SameNames, KeepsRunning, UNCHANGED current_func
  PROVE  BillInv'
<1>1. \A p \in DOMAIN stats : HoldsId(p, current_func)' <=> HoldsId(p, current_func)
  BY DEF SameNames, HoldsId
<1>2. \A i \in Callers, p \in DOMAIN stats : pc[i] # "out" /\ Runs(i, p) => (pc[i] # "out" /\ Runs(i, p))'
  BY DEF SameNames, KeepsRunning, Runs
<1>3. DOMAIN stats' = DOMAIN stats /\ current_func' = current_func
  BY DEF SameNames
<1>4. CASE \E i \in Callers, p \in DOMAIN stats : pc[i] # "out" /\ Runs(i, p) /\ HoldsId(p, current_func)
  <2>1. PICK i \in Callers, p \in DOMAIN stats : pc[i] # "out" /\ Runs(i, p) /\ HoldsId(p, current_func)
    BY <1>4
  <2>2. p \in DOMAIN stats' /\ HoldsId(p, current_func)' /\ pc'[i] # "out" /\ Runs(i, p)'
    BY <1>1, <1>2, <1>3, <2>1
  <2> QED BY <1>3, <2>2 DEF BillInv
<1>5. CASE ~(\E i \in Callers, p \in DOMAIN stats : pc[i] # "out" /\ Runs(i, p) /\ HoldsId(p, current_func))
  BY <1>3, <1>5 DEF BillInv
<1> QED BY <1>4, <1>5

\* A slot of an entry whose peak is right, or will be because caller i is about to raise it.
Raises(i, p, slot) == /\ p_stats[i] = p /\ pc[i] \in {"load", "swap"}
                      /\ update[i].slot = slot /\ update[i].val = stats[p].memory[slot].top
Settled(p, slot) ==
  \/ stats[p].memory[slot].peak = stats[p].memory[slot].top
  \/ \E i \in Callers : Raises(i, p, slot)

\* Every slot is.
AllSettled == \A p \in DOMAIN stats : \A slot \in Slots(stats[p].name) : Settled(p, slot)

\* PeakExact says so of every slot.
LEMMA PeakSettled == StatsTyped => (PeakExact <=> AllSettled)
<1> SUFFICES ASSUME StatsTyped PROVE PeakExact <=> AllSettled
  OBVIOUS
<1>1. \A p \in DOMAIN stats : DOMAIN stats[p].memory = Slots(stats[p].name)
  BY DEF StatsTyped
<1>2. PeakExact <=> \A p \in DOMAIN stats : \A slot \in DOMAIN stats[p].memory : Settled(p, slot)
  BY DEF PeakExact, Settled, Raises
<1> QED BY <1>1, <1>2 DEF AllSettled

\* The same of the next state.
LEMMA PeakSettledNext == StatsTyped' => (PeakExact' <=> AllSettled')
BY PeakSettled, PTL

\* Callers outside the update of a peak come and go, and the counters stay.
LEMMA SamePeakInv ==
  ASSUME PeakInv, CallersInv, StatsTyped, StatsTyped', SameNames, SameMemory, update \in [Callers -> Updates],
         NEW C \in SUBSET Callers, \A j \in Callers \ C : SameCaller(j),
         \A j \in C : pc[j] \notin {"load", "swap"} /\ UpdateInv(j)'
  PROVE  PeakInv'
<1>1. /\ \A p \in DOMAIN stats : stats'[p].memory = stats[p].memory /\ stats'[p].name = stats[p].name
      /\ DOMAIN stats' = DOMAIN stats
  BY DEF SameNames, SameMemory
<1>2. \A p \in DOMAIN stats' : \A slot \in Slots(stats'[p].name) :
        stats'[p].memory[slot].peak <= stats'[p].memory[slot].top
  BY <1>1 DEF PeakInv
<1>3. \A p \in DOMAIN stats : \A s \in Slots(stats[p].name) :
        stats[p].memory[s].top <= stats'[p].memory[s].top
  <2> TAKE p \in DOMAIN stats
  <2> TAKE s \in Slots(stats[p].name)
  <2>1. stats[p].memory[s] \in Counters
    BY DEF StatsTyped
  <2>2. stats[p].memory[s].top \in Int /\ stats'[p].memory[s].top = stats[p].memory[s].top
    BY <1>1, <2>1 DEF Counters
  <2> QED BY <2>2, SMTT(30)
<1>4. \A j \in Callers : UpdateInv(j)'
  <2> TAKE j \in Callers
  <2>1. UpdateInv(j) /\ CallerInv(j) /\ update[j] \in Updates
    BY DEF PeakInv, CallersInv
  <2>2. CASE j \in C
    BY <2>2
  <2>3. CASE j \notin C
    BY <1>3, <2>1, <2>3, SameUpdateInv
  <2> QED BY <2>2, <2>3
<1>5. ASSUME NEW p \in DOMAIN stats', NEW slot \in Slots(stats'[p].name) PROVE Settled(p, slot)'
  <2>1. p \in DOMAIN stats /\ slot \in Slots(stats[p].name) /\ stats'[p].memory = stats[p].memory
    BY <1>1, <1>5
  <2>2. Settled(p, slot)
    BY <2>1, PeakSettled DEF PeakInv, AllSettled
  <2>3. \A i \in Callers : pc[i] \in {"load", "swap"} => SameCaller(i)
    OBVIOUS
  <2> QED BY <2>1, <2>2, <2>3 DEF Settled, Raises, SameCaller
<1>6. PeakExact'
  BY <1>5, PeakSettledNext DEF AllSettled
<1> QED BY <1>2, <1>4, <1>6 DEF PeakInv

\* The callers other than those in C stay what they are.
LEMMA SameCallersInv ==
  ASSUME CallersInv, SameNames, NEW C \in SUBSET Callers, \A j \in Callers \ C : SameCaller(j),
         \A j \in C : CallerInv(j)', live' = [j \in Callers |-> live'[j]]
  PROVE  CallersInv'
<1>1. ASSUME NEW j \in Callers \ C PROVE CallerInv(j)'
  BY <1>1, SameCallerInv DEF CallersInv
<1> QED BY <1>1 DEF CallersInv

-----------------------------------------------------------------------------
(* The steps of a pipeline that is running *)

\* Setting a slot of an entry.
LEMMA RecordMemory ==
  ASSUME NEW r \in Records, NEW n, r.memory \in [Slots(n) -> Counters],
         NEW slot \in Slots(n), NEW m \in Counters, n \in Names,
         NEW q, q = [r EXCEPT !.memory[slot] = m]
  PROVE  /\ q \in Records /\ q.name = r.name /\ q.next = r.next /\ q.first_func_id = r.first_func_id
         /\ q.memory \in [Slots(n) -> Counters]
         /\ \A s \in Slots(n) : q.memory[s] = IF s = slot THEN m ELSE r.memory[s]
<1>1. PICK f : f = [r.memory EXCEPT ![slot] = m]
  OBVIOUS
<1>2. f \in [Slots(n) -> Counters] /\ \A s \in Slots(n) : f[s] = IF s = slot THEN m ELSE r.memory[s]
  BY <1>1
<1>3. q = [r EXCEPT !.memory = f]
  BY <1>1
<1>4. f \in UNION {[Slots(k) -> Counters] : k \in Names}
  BY <1>2
<1>5. /\ q \in Records /\ q.name = r.name /\ q.next = r.next /\ q.first_func_id = r.first_func_id
      /\ q.memory = f
  BY <1>3, <1>4 DEF Records
<1> QED BY <1>2, <1>5

\* What a step that sets a slot of the entry p to m does.
Sets(p, slot, m) ==
  /\ SameNames /\ SameNext /\ StatsTyped'
  /\ \A q \in DOMAIN stats : \A s \in Slots(stats[q].name) :
       stats'[q].memory[s] = IF q = p /\ s = slot THEN m ELSE stats[q].memory[s]

\* SetMemory does that.
LEMMA SetMemorySets ==
  ASSUME TypeInv, NEW i \in Callers, p_stats[i] \in DOMAIN stats,
         NEW slot \in Slots(stats[p_stats[i]].name), NEW m \in Counters, SetMemory(i, slot, m)
  PROVE  Sets(p_stats[i], slot, m)
<1>1. PICK p : p = p_stats[i]
  OBVIOUS
<1>2. /\ p \in DOMAIN stats /\ slot \in Slots(stats[p].name) /\ stats[p] \in Records
      /\ stats[p].memory \in [Slots(stats[p].name) -> Counters] /\ stats[p].name \in Names
  BY <1>1 DEF TypeInv, Records
<1>3. stats' = [stats EXCEPT ![p].memory[slot] = m]
  BY <1>1 DEF SetMemory
<1>4. PICK r : r = [stats[p] EXCEPT !.memory[slot] = m]
  OBVIOUS
<1>5. /\ r \in Records /\ r.name = stats[p].name /\ r.next = stats[p].next
      /\ r.first_func_id = stats[p].first_func_id /\ r.memory \in [Slots(stats[p].name) -> Counters]
      /\ \A s \in Slots(stats[p].name) : r.memory[s] = IF s = slot THEN m ELSE stats[p].memory[s]
  BY <1>2, <1>4, RecordMemory, SMTT(30)
<1>6. stats' = [stats EXCEPT ![p] = r]
  BY <1>3, <1>4
<1>7. /\ DOMAIN stats' = DOMAIN stats /\ stats'[p] = r
      /\ \A q \in DOMAIN stats : q # p => stats'[q] = stats[q]
  BY <1>2, <1>6
<1>8. SameNames /\ SameNext
  BY <1>5, <1>7 DEF SameNames, SameNext
<1>9. StatsTyped'
  <2>1. stats' \in [DOMAIN stats' -> Records]
    BY <1>2, <1>5, <1>6, <1>7 DEF TypeInv
  <2>2. \A q \in DOMAIN stats' : stats'[q].memory \in [Slots(stats'[q].name) -> Counters]
    BY <1>5, <1>7 DEF TypeInv
  <2>3. DOMAIN stats' \subseteq Addresses
    BY <1>7 DEF TypeInv
  <2> QED BY <2>1, <2>2, <2>3 DEF StatsTyped, Slots, Funcs, Counters, Records, Pointers, Addresses
<1>10. \A q \in DOMAIN stats : \A s \in Slots(stats[q].name) :
         stats'[q].memory[s] = IF q = p /\ s = slot THEN m ELSE stats[q].memory[s]
  BY <1>5, <1>7
<1> QED BY <1>1, <1>8, <1>9, <1>10 DEF Sets

\* A step that leaves the entries alone sets a slot to what it is.
LEMMA SameSets ==
  ASSUME TypeInv, UNCHANGED stats, NEW p, NEW slot
  PROVE  Sets(p, slot, stats[p].memory[slot])
<1>1. StatsTyped'
  BY DEF TypeInv, StatsTyped
<1> QED BY <1>1 DEF Sets, SameNames, SameNext

\* A step of caller i from one of its calls to the next.
WorkStep(i) ==
  /\ pc[i] \in Updating /\ \E l \in Updating : Goto(i, l)
  /\ live' = [j \in Callers |-> live'[j]] /\ live'[i] \in [Funcs(name[i]) -> Int]
  /\ \A j \in Callers \ {i} : live'[j] = live[j]
  /\ \E u \in Updates : update' = [update EXCEPT ![i] = u]
  /\ UNCHANGED <<stateVars, current_func, samplerVars, app, name, token, p_stats>>

\* Such a step keeps the other callers.
LEMMA WorkOthers ==
  ASSUME TypeInv, NEW i \in Callers, WorkStep(i)
  PROVE  /\ \A j \in Callers \ {i} : SameCaller(j)
         /\ pc'[i] \in Updating /\ pc' \in [Callers -> Labels] /\ update' \in [Callers -> Updates]
<1>1. PICK l \in Updating : pc' = [pc EXCEPT ![i] = l]
  BY DEF WorkStep, Goto
<1>2. PICK u \in Updates : update' = [update EXCEPT ![i] = u]
  BY DEF WorkStep
<1>3. pc \in [Callers -> Labels] /\ update \in [Callers -> Updates] /\ l \in Labels
  BY DEF TypeInv, Updating, Labels
<1>4. /\ pc' \in [Callers -> Labels] /\ pc'[i] = l /\ update' \in [Callers -> Updates]
      /\ \A j \in Callers \ {i} : pc'[j] = pc[j] /\ update'[j] = update[j]
  BY <1>1, <1>2, <1>3
<1>5. \A j \in Callers \ {i} : live'[j] = live[j]
  BY DEF WorkStep
<1>6. name' = name /\ token' = token /\ p_stats' = p_stats
  BY DEF WorkStep
<1> QED BY <1>1, <1>4, <1>5, <1>6 DEF SameCaller

\* A step of a running pipeline that sets at most a slot of memory counters keeps
\* all but the invariant about the peaks.
LEMMA WorkInv ==
  ASSUME Inv, NEW i \in Callers, WorkStep(i), SameNames, SameNext, StatsTyped'
  PROVE  TypeInv' /\ ThreadInv' /\ ListInv' /\ IdInv' /\ CallersInv' /\ BillInv'
<1>0. TypeInv /\ ThreadInv /\ ListInv /\ IdInv /\ CallersInv /\ BillInv
  BY DEF Inv
<1>1. /\ \A j \in Callers \ {i} : SameCaller(j)
      /\ pc'[i] \in Updating /\ pc' \in [Callers -> Labels] /\ update' \in [Callers -> Updates]
  BY <1>0, WorkOthers
<1>2. /\ work' = work /\ pipelines' = pipelines /\ first_free_id' = first_free_id
      /\ sampling_thread' = sampling_thread /\ current_func' = current_func /\ sampler' = sampler
      /\ app' = app /\ name' = name /\ token' = token /\ p_stats' = p_stats
  BY DEF WorkStep, stateVars, samplerVars
<1>3. pc[i] \in Updating /\ live' = [j \in Callers |-> live'[j]] /\ live'[i] \in [Funcs(name[i]) -> Int]
  BY DEF WorkStep
<1>4. pc[i] # "out" /\ pc'[i] # "out"
  BY <1>1, <1>3 DEF Updating
<1>5. TypeInv'
  BY <1>0, <1>1, <1>2 DEF TypeInv, StatsTyped
<1>6. ThreadInv'
  BY <1>0, <1>2, <1>4 DEF ThreadInv, Quiet, At
<1>7. ListInv'
  BY <1>0, <1>2, SameListInv DEF SameNames
<1>8. IdInv'
  BY <1>0, <1>2, SameIds
<1>9. CallerInv(i)'
  <2>1. CallerInv(i)
    BY <1>0 DEF CallersInv
  <2>2. \A p \in DOMAIN stats : Runs(i, p) => Runs(i, p)'
    BY <1>2 DEF Runs, SameNames
  <2>3. PICK p \in DOMAIN stats : Runs(i, p)
    BY <1>3, <2>1 DEF CallerInv
  <2>4. p_stats[i] # NULL /\ p_stats[i] \in DOMAIN stats /\ stats[p_stats[i]].name = name[i] /\ name[i] \in Names
    BY <1>3, <2>1 DEF CallerInv
  <2>5. p_stats'[i] # NULL /\ p_stats'[i] \in DOMAIN stats' /\ stats'[p_stats'[i]].name = name'[i] /\ name'[i] \in Names
        /\ p \in DOMAIN stats' /\ Runs(i, p)' /\ live'[i] \in [Funcs(name'[i]) -> Int]
    BY <1>2, <1>3, <2>2, <2>3, <2>4 DEF SameNames
  <2> QED BY <1>4, <2>5 DEF CallerInv
<1>10. CallersInv'
  <2>1. {i} \in SUBSET Callers /\ \A j \in {i} : CallerInv(j)'
    BY <1>9
  <2> QED BY <1>0, <1>1, <1>3, <2>1, SameCallersInv
<1>11. BillInv'
  <2>1. KeepsRunning
    BY <1>1, <1>2, <1>4 DEF KeepsRunning, SameCaller
  <2> QED BY <1>0, <1>2, <2>1, SameBillInv
<1> QED BY <1>5, <1>6, <1>7, <1>8, <1>10, <1>11

\* A caller that is about to raise a peak still is, while another one works.
LEMMA WitnessStays ==
  ASSUME TypeInv, NEW i \in Callers, WorkStep(i), NEW p, NEW slot,
         stats'[p].memory[slot].top = stats[p].memory[slot].top,
         NEW j \in Callers, j # i, Raises(j, p, slot)
  PROVE  Settled(p, slot)'
<1>1. SameCaller(j)
  BY WorkOthers
<1> QED BY <1>1 DEF Settled, Raises, SameCaller

\* Such a step keeps the invariant about the peaks if the slot that it sets does not
\* lower its top, and is settled after it.
LEMMA SetsPeakInv ==
  ASSUME Inv, NEW i \in Callers, WorkStep(i), NEW slot \in Slots(name[i]), NEW m \in Counters,
         NEW p, p = p_stats[i], Sets(p, slot, m), m.peak <= m.top, Memory(i, slot).top <= m.top,
         pc[i] \in {"load", "swap"} => slot = update[i].slot,
         UpdateInv(i)', Settled(p, slot)'
  PROVE  PeakInv'
<1>0. TypeInv /\ CallersInv /\ PeakInv /\ StatsTyped
  BY DEF Inv, TypeInv, StatsTyped
<1>1. p = p_stats[i]
  OBVIOUS
<1>2. /\ \A j \in Callers \ {i} : SameCaller(j)
      /\ pc'[i] \in Updating /\ update' \in [Callers -> Updates]
  BY <1>0, WorkOthers
<1>3. /\ SameNames /\ StatsTyped'
      /\ \A q \in DOMAIN stats : \A s \in Slots(stats[q].name) :
           stats'[q].memory[s] = IF q = p /\ s = slot THEN m ELSE stats[q].memory[s]
  BY <1>1 DEF Sets
<1>4. DOMAIN stats' = DOMAIN stats /\ \A q \in DOMAIN stats : stats'[q].name = stats[q].name
  BY <1>3 DEF SameNames
<1>5. \A q \in DOMAIN stats : \A s \in Slots(stats[q].name) :
        stats[q].memory[s] \in Counters /\ stats[q].memory[s].peak <= stats[q].memory[s].top
  BY <1>0 DEF PeakInv, StatsTyped
<1>6. Memory(i, slot) = stats[p].memory[slot]
  BY <1>1 DEF Memory
<1>7. ASSUME NEW q \in DOMAIN stats, NEW s \in Slots(stats[q].name)
      PROVE  /\ stats[q].memory[s].top <= stats'[q].memory[s].top
             /\ stats'[q].memory[s].peak <= stats'[q].memory[s].top
  <2>1. CASE q = p /\ s = slot
    BY <1>3, <1>6, <2>1
  <2>2. CASE ~(q = p /\ s = slot)
    <3>1. stats'[q].memory[s] = stats[q].memory[s]
      BY <1>3, <2>2
    <3>2. stats[q].memory[s].top \in Int /\ stats[q].memory[s].peak <= stats[q].memory[s].top
      BY <1>5 DEF Counters
    <3>3. stats[q].memory[s].top <= stats[q].memory[s].top
      BY <3>2, SMTT(30)
    <3> QED BY <3>1, <3>2, <3>3
  <2> QED BY <2>1, <2>2
<1>8. \A j \in Callers : UpdateInv(j)'
  <2> TAKE j \in Callers
  <2>1. UpdateInv(j) /\ CallerInv(j) /\ update[j] \in Updates
    BY <1>0 DEF PeakInv, CallersInv, TypeInv
  <2>2. CASE j = i
    BY <2>2
  <2>3. CASE j # i
    BY <1>0, <1>2, <1>3, <1>7, <2>1, <2>3, SameUpdateInv
  <2> QED BY <2>2, <2>3
<1>9. ASSUME NEW q \in DOMAIN stats, NEW s \in Slots(stats[q].name) PROVE Settled(q, s)'
  <2>1. CASE q = p /\ s = slot
    BY <1>1, <2>1
  <2>2. CASE ~(q = p /\ s = slot)
    <3>1. stats'[q].memory[s] = stats[q].memory[s]
      BY <1>3, <2>2
    <3>2. Settled(q, s)
      BY <1>0, PeakSettled DEF PeakInv, AllSettled
    <3>3. \A j \in Callers : Raises(j, q, s) => SameCaller(j)
      BY <1>1, <1>2, <2>2 DEF Raises
    <3>4. \A j \in Callers : Raises(j, q, s) => Raises(j, q, s)'
      BY <3>1, <3>3 DEF Raises, SameCaller
    <3> QED BY <3>1, <3>2, <3>4 DEF Settled
  <2> QED BY <2>1, <2>2
<1>10. PeakExact'
  <2>1. AllSettled'
    BY <1>4, <1>9 DEF AllSettled
  <2> QED BY <1>3, <2>1, PeakSettledNext
<1>11. \A q \in DOMAIN stats' : \A s \in Slots(stats'[q].name) :
         stats'[q].memory[s].peak <= stats'[q].memory[s].top
  BY <1>4, <1>7
<1> QED BY <1>8, <1>10, <1>11 DEF PeakInv

\* The entry of a caller that is running.
LEMMA OwnEntry ==
  ASSUME Inv, NEW i \in Callers, pc[i] \in Updating, NEW slot \in Slots(name[i])
  PROVE  /\ p_stats[i] \in DOMAIN stats /\ stats[p_stats[i]].name = name[i] /\ name[i] \in Names
         /\ live[i] \in [Funcs(name[i]) -> Int]
         /\ stats[p_stats[i]].memory[slot] \in Counters /\ Memory(i, slot) = stats[p_stats[i]].memory[slot]
         /\ Memory(i, slot).peak <= Memory(i, slot).top
         /\ Settled(p_stats[i], slot)
<1>1. TypeInv /\ CallerInv(i) /\ PeakInv /\ StatsTyped
  BY DEF Inv, CallersInv, TypeInv, StatsTyped
<1>2. /\ p_stats[i] \in DOMAIN stats /\ stats[p_stats[i]].name = name[i] /\ name[i] \in Names
      /\ live[i] \in [Funcs(name[i]) -> Int]
  BY <1>1 DEF CallerInv
<1>3. PICK p : p = p_stats[i]
  OBVIOUS
<1>4. p \in DOMAIN stats /\ slot \in Slots(stats[p].name)
  BY <1>2, <1>3
<1>5. stats[p].memory[slot] \in Counters /\ stats[p].memory[slot].peak <= stats[p].memory[slot].top /\ Settled(p, slot)
  BY <1>1, <1>4, PeakSettled DEF StatsTyped, PeakInv, AllSettled
<1> QED BY <1>2, <1>3, <1>5 DEF Memory

\* The greater of two integers.
LEMMA MaxOfTwo ==
  ASSUME NEW a \in Int, NEW b \in Int
  PROVE  Max({a, b}) \in {a, b} /\ a <= Max({a, b}) /\ b <= Max({a, b})
<1>1. \E x \in {a, b} : \A y \in {a, b} : x >= y
  BY SMTT(30)
<1> QED BY <1>1 DEF Max

\* The counters after __sync_add_and_fetch.
IsRaised(r, m, sum) == r = [m EXCEPT !.current = sum, !.top = Max({@, sum})]

\* They are counters again, with the old peak and a top that is no lower than the old one
\* and the sum.
LEMMA Raised ==
  ASSUME NEW m \in Counters, NEW sum \in Int, NEW r, IsRaised(r, m, sum)
  PROVE  /\ r \in Counters /\ r.peak = m.peak /\ m.top <= r.top /\ sum <= r.top
         /\ r.top = m.top \/ r.top = sum
<1>1. PICK t : t = Max({m.top, sum})
  OBVIOUS
<1>2. m.top \in Int
  BY DEF Counters
<1>3. t \in {m.top, sum} /\ m.top <= t /\ sum <= t
  BY <1>1, <1>2, MaxOfTwo
<1>4. r = [m EXCEPT !.current = sum, !.top = t]
  BY <1>1 DEF Counters, IsRaised
<1>5. t \in Int
  BY <1>2, <1>3
<1> QED BY <1>3, <1>4, <1>5 DEF Counters

\* Slots are integers.
LEMMA SlotsInt == ASSUME NEW n \in Names PROVE Slots(n) \subseteq Int /\ Funcs(n) \subseteq Slots(n) /\ -1 \in Slots(n)
                                             /\ Funcs(n) \subseteq Nat
BY ProfilerAssumption, SMTT(30) DEF Slots, Funcs

\* Adding to memory_current keeps the invariant.
LEMMA AddCurrentInv ==
  ASSUME Inv, NEW i \in Callers, pc[i] \in {"in", "func"}, NEW u \in Updates, u.func \in Funcs(name[i]),
         NEW slot \in Slots(name[i]), AddCurrent(i, u, slot), WorkStep(i)
  PROVE  Inv'
<1>0. pc[i] \in Updating /\ pc[i] \notin {"load", "swap"} /\ TypeInv
  BY DEF Updating, Inv
<1>1. /\ p_stats[i] \in DOMAIN stats /\ stats[p_stats[i]].name = name[i] /\ name[i] \in Names
      /\ stats[p_stats[i]].memory[slot] \in Counters /\ Memory(i, slot) = stats[p_stats[i]].memory[slot]
      /\ Memory(i, slot).peak <= Memory(i, slot).top
      /\ Settled(p_stats[i], slot)
  BY <1>0, OwnEntry
<1>2. PICK p : p = p_stats[i]
  OBVIOUS
<1>3. PICK m : m = stats[p].memory[slot]
  OBVIOUS
<1>4. PICK sum : sum = m.current + u.size
  OBVIOUS
<1>5. m \in Counters /\ p \in DOMAIN stats /\ Memory(i, slot) = m /\ slot \in Slots(stats[p].name) /\ m.peak <= m.top
  BY <1>1, <1>2, <1>3
<1>6. sum \in Int /\ m.top \in Int /\ m.peak \in Int
  BY <1>4, <1>5, SMTT(30) DEF Counters, Updates
<1>7. PICK r : r = [m EXCEPT !.current = sum, !.top = Max({@, sum})]
  OBVIOUS
<1>8. PICK v : v = [u EXCEPT !.slot = slot, !.val = sum]
  OBVIOUS
<1>9. SetMemory(i, slot, r) /\ update' = [update EXCEPT ![i] = v] /\ pc' = [pc EXCEPT ![i] = "load"]
  BY <1>4, <1>5, <1>7, <1>8 DEF AddCurrent, Goto
<1>10. /\ r \in Counters /\ r.peak = m.peak /\ m.top <= r.top /\ sum <= r.top
       /\ r.top = m.top \/ r.top = sum
  <2>1. IsRaised(r, m, sum)
    BY <1>7 DEF IsRaised
  <2> QED BY <1>5, <1>6, <2>1, Raised
<1>11. v \in Updates /\ v.func = u.func /\ v.slot = slot /\ v.val = sum
  <2>1. slot \in Int
    BY <1>1, SlotsInt
  <2> QED BY <1>6, <1>8, <2>1 DEF Updates
<1>12. Sets(p, slot, r)
  BY <1>0, <1>1, <1>2, <1>9, <1>10, SetMemorySets
<1>13. stats'[p].memory[slot] = r /\ SameNames /\ SameNext /\ StatsTyped'
  BY <1>5, <1>12 DEF Sets
<1>14. pc'[i] = "load" /\ update'[i] = v /\ p_stats'[i] = p /\ name'[i] = name[i]
  BY <1>0, <1>2, <1>9 DEF TypeInv, WorkStep
<1>15. UpdateInv(i)'
  <2>1. Memory(i, update[i].slot)' = r
    BY <1>11, <1>13, <1>14 DEF Memory
  <2> QED BY <1>10, <1>11, <1>14, <2>1 DEF UpdateInv
<1>16. Settled(p, slot)'
  <2>1. CASE r.top = sum
    BY <1>11, <1>13, <1>14, <2>1 DEF Settled, Raises
  <2>2. CASE r.top = m.top
    <3>1. CASE m.peak = m.top
      BY <1>10, <1>13, <2>2, <3>1 DEF Settled
    <3>2. CASE m.peak # m.top
      <4>1. PICK j \in Callers : Raises(j, p, slot)
        BY <1>1, <1>2, <1>3, <3>2 DEF Settled
      <4>2. j # i
        BY <1>0, <4>1 DEF Raises
      <4> QED BY <1>0, <1>3, <1>5, <1>13, <2>2, <4>1, <4>2, WitnessStays
    <3> QED BY <3>1, <3>2
  <2> QED BY <1>10, <2>1, <2>2
<1>17. r.peak <= r.top
  <2>1. r.top \in Int
    BY <1>10 DEF Counters
  <2> QED BY <1>5, <1>6, <1>10, <2>1, SMTT(30)
<1>18. PeakInv'
  <2>1. Memory(i, slot).top <= r.top /\ (pc[i] \in {"load", "swap"} => slot = update[i].slot)
    BY <1>0, <1>5, <1>10
  <2> QED BY <1>2, <1>10, <1>12, <1>15, <1>16, <1>17, <2>1, SetsPeakInv
<1> QED BY <1>13, <1>18, WorkInv DEF Inv

\* What is left to do of an update.
LEMMA UpdateGoesOn ==
  ASSUME NEW u \in Updates
  PROVE  /\ FuncNext(u) \in Updates /\ (u.slot = -1 => FuncNext(u).func = u.func)
         /\ NoUpdate \in Updates
<1>1. NoUpdate \in Updates
  BY SMTT(30) DEF NoUpdate, Updates
<1>2. PICK v : v = [NoUpdate EXCEPT !.func = u.func, !.size = u.size]
  OBVIOUS
<1>3. v \in Updates /\ v.func = u.func
  BY <1>1, <1>2 DEF Updates
<1> QED BY <1>1, <1>2, <1>3 DEF FuncNext

\* A comparison with the peak keeps the invariant.
LEMMA CompareInv ==
  ASSUME Inv, NEW i \in Callers, pc[i] \in {"load", "swap"}, Compare(i, Memory(i, update[i].slot).peak),
         UNCHANGED stats, WorkStep(i)
  PROVE  Inv'
<1>0. pc[i] \in Updating /\ TypeInv /\ UpdateInv(i) /\ update[i] \in Updates
  BY DEF Updating, Inv, PeakInv, TypeInv
<1>1. PICK u : u = update[i]
  OBVIOUS
<1>2. PICK slot : slot = u.slot
  OBVIOUS
<1>3. u \in Updates /\ u.func \in Funcs(name[i]) /\ slot \in Slots(name[i]) /\ u.val <= Memory(i, slot).top
  BY <1>0, <1>1, <1>2 DEF UpdateInv
<1>4. /\ p_stats[i] \in DOMAIN stats /\ stats[p_stats[i]].name = name[i] /\ name[i] \in Names
      /\ stats[p_stats[i]].memory[slot] \in Counters /\ Memory(i, slot) = stats[p_stats[i]].memory[slot]
      /\ Memory(i, slot).peak <= Memory(i, slot).top
      /\ Settled(p_stats[i], slot)
  BY <1>0, <1>3, OwnEntry
<1>5. PICK p : p = p_stats[i]
  OBVIOUS
<1>6. PICK m : m = stats[p].memory[slot]
  OBVIOUS
<1>7. m \in Counters /\ p \in DOMAIN stats /\ Memory(i, slot) = m /\ slot \in Slots(stats[p].name)
      /\ m.peak <= m.top /\ u.val <= m.top /\ Settled(p, slot)
  BY <1>3, <1>4, <1>5, <1>6
<1>8. m.peak \in Int /\ m.top \in Int /\ u.val \in Int /\ m.top <= m.top
  BY <1>3, <1>7, SMTT(30) DEF Counters, Updates
<1>9. Sets(p, slot, m) /\ SameNames /\ SameNext /\ StatsTyped'
  BY <1>0, <1>6, SameSets DEF Sets
<1>10. stats'[p].memory[slot] = m /\ p_stats'[i] = p /\ name'[i] = name[i]
  BY <1>5, <1>6 DEF WorkStep
<1>11. /\ Goto(i, IF u.val > m.peak THEN "swap" ELSE IF slot = -1 THEN "func" ELSE "in")
       /\ update' = [update EXCEPT ![i] = IF u.val > m.peak THEN [u EXCEPT !.old = m.peak] ELSE FuncNext(u)]
  BY <1>1, <1>2, <1>7 DEF Compare
<1>12. /\ pc'[i] = IF u.val > m.peak THEN "swap" ELSE IF slot = -1 THEN "func" ELSE "in"
       /\ update'[i] = IF u.val > m.peak THEN [u EXCEPT !.old = m.peak] ELSE FuncNext(u)
  BY <1>0, <1>11 DEF Goto, TypeInv
<1>13. UpdateInv(i)' /\ Settled(p, slot)'
  <2>1. CASE u.val > m.peak
    <3>1. PICK v : v = [u EXCEPT !.old = m.peak]
      OBVIOUS
    <3>2. v.func = u.func /\ v.slot = slot /\ v.val = u.val /\ v.old = m.peak
      BY <1>2, <1>3, <3>1 DEF Updates
    <3>3. pc'[i] = "swap" /\ update'[i] = v
      BY <1>12, <2>1, <3>1
    <3>4. m.peak < u.val
      BY <1>8, <2>1
    <3>5. Memory(i, update[i].slot)' = m
      BY <1>10, <3>2, <3>3 DEF Memory
    <3>6. UpdateInv(i)'
      BY <1>3, <1>7, <1>10, <3>2, <3>3, <3>4, <3>5 DEF UpdateInv
    <3>7. Settled(p, slot)'
      <4>1. CASE m.peak = m.top
        BY <1>10, <4>1 DEF Settled
      <4>2. CASE m.peak # m.top
        <5>1. PICK j \in Callers : Raises(j, p, slot)
          BY <1>6, <1>7, <4>2 DEF Settled
        <5>2. CASE j = i
          BY <1>1, <1>6, <1>10, <3>2, <3>3, <5>1, <5>2 DEF Settled, Raises
        <5>3. CASE j # i
          BY <1>0, <1>6, <1>7, <1>10, <5>1, <5>3, WitnessStays
        <5> QED BY <5>2, <5>3
      <4> QED BY <4>1, <4>2
    <3> QED BY <3>6, <3>7
  <2>2. CASE ~(u.val > m.peak)
    <3>1. pc'[i] = (IF slot = -1 THEN "func" ELSE "in") /\ update'[i] = FuncNext(u)
      BY <1>12, <2>2
    <3>2. slot = -1 => FuncNext(u).func = u.func
      BY <1>2, <1>3, UpdateGoesOn
    <3>3. UpdateInv(i)'
      BY <1>3, <1>10, <3>1, <3>2 DEF UpdateInv
    <3>4. Settled(p, slot)'
      <4>1. CASE m.peak = m.top
        BY <1>10, <4>1 DEF Settled
      <4>2. CASE m.peak # m.top
        <5>1. PICK j \in Callers : Raises(j, p, slot)
          BY <1>6, <1>7, <4>2 DEF Settled
        <5>2. ASSUME j = i PROVE FALSE
          <6>1. u.val = m.top
            BY <1>1, <1>6, <5>1, <5>2 DEF Raises
          <6> QED BY <1>7, <1>8, <2>2, <4>2, <6>1, SMTT(30)
        <5> QED BY <1>0, <1>6, <1>7, <1>10, <5>1, <5>2, WitnessStays
      <4> QED BY <4>1, <4>2
    <3> QED BY <3>3, <3>4
  <2> QED BY <2>1, <2>2
<1>14. PeakInv'
  <2>1. Memory(i, slot).top <= m.top /\ (pc[i] \in {"load", "swap"} => slot = update[i].slot)
    BY <1>1, <1>2, <1>7, <1>8
  <2> QED BY <1>3, <1>5, <1>7, <1>9, <1>13, <2>1, SetsPeakInv
<1> QED BY <1>9, <1>14, WorkInv DEF Inv

\* A compare-and-swap that succeeds keeps the invariant.
LEMMA SwapInv ==
  ASSUME Inv, NEW i \in Callers, pc[i] = "swap", Memory(i, update[i].slot).peak = update[i].old,
         SetMemory(i, update[i].slot, [Memory(i, update[i].slot) EXCEPT !.peak = update[i].val]),
         Swapped(i), WorkStep(i)
  PROVE  Inv'
<1>0. pc[i] \in Updating /\ TypeInv /\ UpdateInv(i) /\ update[i] \in Updates
  BY DEF Updating, Inv, PeakInv, TypeInv
<1>1. PICK u : u = update[i]
  OBVIOUS
<1>2. PICK slot : slot = u.slot
  OBVIOUS
<1>3. u \in Updates /\ u.func \in Funcs(name[i]) /\ slot \in Slots(name[i]) /\ u.val <= Memory(i, slot).top
      /\ u.old < u.val
  BY <1>0, <1>1, <1>2 DEF UpdateInv
<1>4. /\ p_stats[i] \in DOMAIN stats /\ stats[p_stats[i]].name = name[i] /\ name[i] \in Names
      /\ stats[p_stats[i]].memory[slot] \in Counters /\ Memory(i, slot) = stats[p_stats[i]].memory[slot]
      /\ Memory(i, slot).peak <= Memory(i, slot).top
      /\ Settled(p_stats[i], slot)
  BY <1>0, <1>3, OwnEntry
<1>5. PICK p : p = p_stats[i]
  OBVIOUS
<1>6. PICK m : m = stats[p].memory[slot]
  OBVIOUS
<1>7. m \in Counters /\ p \in DOMAIN stats /\ Memory(i, slot) = m /\ slot \in Slots(stats[p].name)
      /\ m.peak = u.old /\ u.val <= m.top /\ Settled(p, slot)
  BY <1>1, <1>2, <1>3, <1>4, <1>5, <1>6
<1>8. u.val \in Int /\ m.top \in Int /\ m.peak \in Int /\ m.top <= m.top /\ m.peak # m.top
  BY <1>3, <1>7, SMTT(30) DEF Counters, Updates
<1>9. PICK r : r = [m EXCEPT !.peak = u.val]
  OBVIOUS
<1>10. r \in Counters /\ r.peak = u.val /\ r.top = m.top
  BY <1>7, <1>8, <1>9 DEF Counters
<1>11. SetMemory(i, slot, r)
  BY <1>1, <1>2, <1>7, <1>9
<1>12. Sets(p, slot, r)
  BY <1>0, <1>3, <1>4, <1>5, <1>10, <1>11, SetMemorySets
<1>13. SameNames /\ SameNext /\ StatsTyped' /\ stats'[p].memory[slot] = r
  BY <1>7, <1>12 DEF Sets
<1>14. /\ pc'[i] = (IF slot = -1 THEN "func" ELSE "in") /\ update'[i] = FuncNext(u)
       /\ name'[i] = name[i]
  BY <1>0, <1>1, <1>2 DEF Swapped, Goto, TypeInv, WorkStep
<1>15. UpdateInv(i)'
  <2>1. slot = -1 => FuncNext(u).func = u.func
    BY <1>2, <1>3, UpdateGoesOn
  <2> QED BY <1>3, <1>14, <2>1 DEF UpdateInv
<1>16. Settled(p, slot)'
  <2>1. PICK j \in Callers : Raises(j, p, slot)
    BY <1>6, <1>7, <1>8 DEF Settled
  <2>2. CASE j = i
    BY <1>1, <1>6, <1>10, <1>13, <2>1, <2>2 DEF Settled, Raises
  <2>3. CASE j # i
    BY <1>0, <1>6, <1>7, <1>10, <1>13, <2>1, <2>3, WitnessStays
  <2> QED BY <2>2, <2>3
<1>17. PeakInv'
  <2>1. /\ Memory(i, slot).top <= r.top /\ r.peak <= r.top
        /\ pc[i] \in {"load", "swap"} => slot = update[i].slot
    BY <1>1, <1>2, <1>7, <1>8, <1>10
  <2> QED BY <1>3, <1>5, <1>10, <1>12, <1>15, <1>16, <2>1, SetsPeakInv
<1> QED BY <1>13, <1>17, WorkInv DEF Inv

\* Taking from memory_current keeps the invariant.
LEMMA SubCurrentInv ==
  ASSUME Inv, NEW i \in Callers, pc[i] \in {"in", "free"}, NEW slot \in Slots(name[i]), NEW size \in Int,
         SubCurrent(i, slot, size), WorkStep(i), pc'[i] \in {"in", "free"},
         pc'[i] = "free" => update'[i].func \in Funcs(name[i])
  PROVE  Inv'
<1>0. pc[i] \in Updating /\ pc[i] \notin {"load", "swap"} /\ TypeInv
  BY DEF Updating, Inv
<1>1. /\ p_stats[i] \in DOMAIN stats /\ stats[p_stats[i]].name = name[i]
      /\ stats[p_stats[i]].memory[slot] \in Counters /\ Memory(i, slot) = stats[p_stats[i]].memory[slot]
      /\ Memory(i, slot).peak <= Memory(i, slot).top
      /\ Settled(p_stats[i], slot)
  BY <1>0, OwnEntry
<1>2. PICK p : p = p_stats[i]
  OBVIOUS
<1>3. PICK m : m = stats[p].memory[slot]
  OBVIOUS
<1>4. m \in Counters /\ p \in DOMAIN stats /\ Memory(i, slot) = m /\ slot \in Slots(stats[p].name) /\ m.peak <= m.top
      /\ Settled(p, slot)
  BY <1>1, <1>2, <1>3
<1>5. PICK c : c = m.current - size
  OBVIOUS
<1>6. c \in Int /\ m.top \in Int /\ m.top <= m.top
  BY <1>4, <1>5, SMTT(30) DEF Counters
<1>7. PICK r : r = [m EXCEPT !.current = c]
  OBVIOUS
<1>8. r \in Counters /\ r.peak = m.peak /\ r.top = m.top
  BY <1>4, <1>6, <1>7 DEF Counters
<1>9. SetMemory(i, slot, r)
  <2>1. [m EXCEPT !.current = @ - size] = r
    BY <1>4, <1>5, <1>7 DEF Counters
  <2> QED BY <1>4, <2>1 DEF SubCurrent
<1>10. Sets(p, slot, r)
  BY <1>0, <1>1, <1>2, <1>8, <1>9, SetMemorySets
<1>11. SameNames /\ SameNext /\ StatsTyped' /\ stats'[p].memory[slot] = r
  BY <1>4, <1>10 DEF Sets
<1>12. UpdateInv(i)'
  BY DEF UpdateInv, WorkStep
<1>13. Settled(p, slot)'
  <2>1. CASE m.peak = m.top
    BY <1>8, <1>11, <2>1 DEF Settled
  <2>2. CASE m.peak # m.top
    <3>1. PICK j \in Callers : Raises(j, p, slot)
      BY <1>3, <1>4, <2>2 DEF Settled
    <3>2. j # i
      BY <1>0, <3>1 DEF Raises
    <3> QED BY <1>0, <1>3, <1>4, <1>8, <1>11, <3>1, <3>2, WitnessStays
  <2> QED BY <2>1, <2>2
<1>14. PeakInv'
  <2>1. /\ Memory(i, slot).top <= r.top /\ r.peak <= r.top
        /\ pc[i] \in {"load", "swap"} => slot = update[i].slot
    BY <1>0, <1>4, <1>6, <1>8
  <2> QED BY <1>2, <1>8, <1>10, <1>12, <1>13, <2>1, SetsPeakInv
<1> QED BY <1>11, <1>14, WorkInv DEF Inv

\* A step that leaves live alone.
LEMMA LiveKept ==
  ASSUME Inv, NEW i \in Callers, pc[i] \in Updating, UNCHANGED live
  PROVE  /\ live' = [j \in Callers |-> live'[j]] /\ live'[i] \in [Funcs(name[i]) -> Int]
         /\ \A j \in Callers \ {i} : live'[j] = live[j]
<1>1. live = [j \in Callers |-> live[j]] /\ CallerInv(i)
  BY DEF Inv, CallersInv
<1> QED BY <1>1 DEF CallerInv

\* A step that sets what is live of a func.
LEMMA LiveSet ==
  ASSUME Inv, NEW i \in Callers, pc[i] \in Updating, NEW f \in Funcs(name[i]), NEW size \in Int,
         live' = [live EXCEPT ![i][f] = size]
  PROVE  /\ live' = [j \in Callers |-> live'[j]] /\ live'[i] \in [Funcs(name[i]) -> Int]
         /\ \A j \in Callers \ {i} : live'[j] = live[j]
<1>1. live = [j \in Callers |-> live[j]] /\ live[i] \in [Funcs(name[i]) -> Int]
  BY DEF Inv, CallersInv, CallerInv
<1>2. PICK g : g = [live[i] EXCEPT ![f] = size]
  OBVIOUS
<1>3. g \in [Funcs(name[i]) -> Int] /\ live' = [live EXCEPT ![i] = g]
  BY <1>1, <1>2
<1>4. DOMAIN live = Callers
  BY <1>1
<1>5. live'[i] = g /\ \A j \in Callers \ {i} : live'[j] = live[j]
  BY <1>3, <1>4
<1>6. live' = [j \in Callers |-> IF j = i THEN g ELSE live[j]]
  BY <1>3, <1>4
<1>7. live' = [j \in Callers |-> live'[j]]
  BY <1>5, <1>6
<1> QED BY <1>3, <1>5, <1>7

\* halide_profiler_memory_allocate adding to the counters of the pipeline keeps the invariant.
LEMMA MemoryAllocateInv ==
  ASSUME Inv, NEW i \in Callers, NEW f, NEW size \in work.sizes, MemoryAllocate(i, f, size)
  PROVE  Inv'
<1>1. pc[i] = "in" /\ f \in Funcs(name[i]) /\ pc[i] \in Updating /\ work \in Workloads
  BY DEF MemoryAllocate, At, Updating, Inv, TypeInv
<1>2. name[i] \in Names /\ size \in Int
  <2>1. work.sizes \subseteq Nat \ {0}
    BY <1>1, ProfilerAssumption
  <2>2. size \in Int
    BY <2>1, SMTT(30)
  <2> QED BY <1>1, <2>2 DEF Inv, CallersInv, CallerInv
<1>3. f \in Int /\ -1 \in Slots(name[i])
  BY <1>1, <1>2, SlotsInt
<1>4. PICK u : u = [NoUpdate EXCEPT !.func = f, !.size = size]
  OBVIOUS
<1>5. u \in Updates /\ u.func = f
  <2>1. NoUpdate \in Updates
    BY SMTT(30) DEF NoUpdate, Updates
  <2> QED BY <1>2, <1>3, <1>4, <2>1 DEF Updates
<1>6. AddCurrent(i, u, -1)
  BY <1>4 DEF MemoryAllocate
<1>7. WorkStep(i)
  <2>1. live' = [live EXCEPT ![i][f] = size]
    BY DEF MemoryAllocate
  <2>2. /\ live' = [j \in Callers |-> live'[j]] /\ live'[i] \in [Funcs(name[i]) -> Int]
        /\ \A j \in Callers \ {i} : live'[j] = live[j]
    BY <1>1, <1>2, <2>1, LiveSet
  <2>3. Memory(i, -1).current \in Int
    BY <1>1, <1>3, OwnEntry DEF Counters
  <2>4. PICK sum : sum = Memory(i, -1).current + u.size
    OBVIOUS
  <2>5. sum \in Int
    BY <1>5, <2>3, <2>4, SMTT(30) DEF Updates
  <2>6. [u EXCEPT !.slot = -1, !.val = sum] \in Updates
    <3>1. -1 \in Int
      BY SMTT(30)
    <3> QED BY <1>5, <2>5, <3>1 DEF Updates
  <2>7. update' = [update EXCEPT ![i] = [u EXCEPT !.slot = -1, !.val = sum]] /\ Goto(i, "load")
    BY <1>6, <2>4 DEF AddCurrent
  <2>8. "load" \in Updating
    BY DEF Updating
  <2> QED BY <1>1, <2>2, <2>6, <2>7, <2>8 DEF WorkStep, MemoryAllocate
<1> QED BY <1>1, <1>3, <1>5, <1>6, <1>7, AddCurrentInv

\* halide_profiler_memory_allocate adding to the counters of the func keeps the invariant.
LEMMA AddFuncInv ==
  ASSUME Inv, NEW i \in Callers, AddFunc(i)
  PROVE  Inv'
<1>1. pc[i] = "func" /\ pc[i] \in Updating
  BY DEF AddFunc, At, Updating
<1>2. /\ name[i] \in Names /\ update[i] \in Updates /\ update[i].func \in Funcs(name[i])
      /\ Funcs(name[i]) \subseteq Slots(name[i]) /\ Slots(name[i]) \subseteq Int
  BY <1>1, SlotsInt DEF Inv, CallersInv, CallerInv, PeakInv, UpdateInv, TypeInv
<1>3. PICK u : u = update[i]
  OBVIOUS
<1>4. PICK f : f = u.func
  OBVIOUS
<1>5. u \in Updates /\ f \in Funcs(name[i]) /\ f \in Slots(name[i]) /\ f \in Int /\ AddCurrent(i, u, f)
  BY <1>2, <1>3, <1>4 DEF AddFunc
<1>6. WorkStep(i)
  <2>1. UNCHANGED live
    BY DEF AddFunc
  <2>2. /\ live' = [j \in Callers |-> live'[j]] /\ live'[i] \in [Funcs(name[i]) -> Int]
        /\ \A j \in Callers \ {i} : live'[j] = live[j]
    BY <1>1, <2>1, LiveKept
  <2>3. Memory(i, f).current \in Int
    BY <1>1, <1>5, OwnEntry DEF Counters
  <2>4. PICK sum : sum = Memory(i, f).current + u.size
    OBVIOUS
  <2>5. sum \in Int
    BY <1>5, <2>3, <2>4, SMTT(30) DEF Updates
  <2>6. [u EXCEPT !.slot = f, !.val = sum] \in Updates
    BY <1>5, <2>5 DEF Updates
  <2>7. update' = [update EXCEPT ![i] = [u EXCEPT !.slot = f, !.val = sum]] /\ Goto(i, "load")
    BY <1>5, <2>4 DEF AddCurrent
  <2>8. "load" \in Updating
    BY DEF Updating
  <2> QED BY <1>1, <2>2, <2>6, <2>7, <2>8 DEF WorkStep, AddFunc
<1> QED BY <1>1, <1>4, <1>5, <1>6, AddCurrentInv

\* The outcome of a comparison is one of the labels and updates there are.
LEMMA CompareWorks ==
  ASSUME Inv, NEW i \in Callers, pc[i] \in {"load", "swap"}, Compare(i, Memory(i, update[i].slot).peak),
         UNCHANGED <<stateVars, current_func, samplerVars, app, name, token, p_stats, live>>
  PROVE  WorkStep(i)
<1>1. pc[i] \in Updating /\ update[i] \in Updates /\ update[i].slot \in Slots(name[i])
  BY DEF Inv, TypeInv, PeakInv, UpdateInv, Updating
<1>2. PICK u : u = update[i]
  OBVIOUS
<1>3. PICK old : old = Memory(i, u.slot).peak
  OBVIOUS
<1>4. old \in Int
  BY <1>1, <1>2, <1>3, OwnEntry DEF Counters
<1>5. [u EXCEPT !.old = old] \in Updates /\ FuncNext(u) \in Updates
  BY <1>1, <1>2, <1>4, UpdateGoesOn DEF Updates
<1>6. /\ Goto(i, IF u.val > old THEN "swap" ELSE IF u.slot = -1 THEN "func" ELSE "in")
      /\ update' = [update EXCEPT ![i] = IF u.val > old THEN [u EXCEPT !.old = old] ELSE FuncNext(u)]
  BY <1>2, <1>3 DEF Compare
<1>7. \E l \in Updating : Goto(i, l)
  BY <1>6 DEF Updating
<1>8. \E v \in Updates : update' = [update EXCEPT ![i] = v]
  BY <1>5, <1>6
<1>9. UNCHANGED live
  OBVIOUS
<1>10. /\ live' = [j \in Callers |-> live'[j]] /\ live'[i] \in [Funcs(name[i]) -> Int]
       /\ \A j \in Callers \ {i} : live'[j] = live[j]
  BY <1>1, <1>9, LiveKept
<1> QED BY <1>1, <1>7, <1>8, <1>10 DEF WorkStep

\* The load of the peak by sync_compare_max_and_swap keeps the invariant.
LEMMA LoadPeakInv ==
  ASSUME Inv, NEW i \in Callers, LoadPeak(i)
  PROVE  Inv'
<1>1. /\ pc[i] \in {"load", "swap"} /\ Compare(i, Memory(i, update[i].slot).peak) /\ UNCHANGED stats
      /\ UNCHANGED <<stateVars, current_func, samplerVars, app, name, token, p_stats, live>>
  BY DEF LoadPeak, At
<1>2. WorkStep(i)
  BY <1>1, CompareWorks
<1> QED BY <1>1, <1>2, CompareInv

\* The compare-and-swap of sync_compare_max_and_swap keeps the invariant, if it fails too.
LEMMA SwapPeakInv ==
  ASSUME Inv, NEW i \in Callers, SwapPeak(i)
  PROVE  Inv'
<1>1. /\ pc[i] = "swap" /\ CompareAndSwap(i, Memory(i, update[i].slot))
      /\ UNCHANGED <<stateVars, current_func, samplerVars, app, name, token, p_stats, live>>
  BY DEF SwapPeak, At
<1>2. CASE Memory(i, update[i].slot).peak = update[i].old
  <2>1. /\ SetMemory(i, update[i].slot, [Memory(i, update[i].slot) EXCEPT !.peak = update[i].val])
        /\ Swapped(i)
    BY <1>1, <1>2 DEF CompareAndSwap
  <2>2. pc[i] \in Updating /\ update[i] \in Updates
    BY <1>1 DEF Inv, TypeInv, Updating
  <2>3. \E l \in Updating : Goto(i, l)
    BY <2>1 DEF Swapped, Updating
  <2>4. update \in [Callers -> Updates] /\ FuncNext(update[i]) \in Updates
    BY <2>2, UpdateGoesOn DEF Inv, TypeInv
  <2>5. \E v \in Updates : update' = [update EXCEPT ![i] = v]
    BY <2>1, <2>4 DEF Swapped
  <2>6. UNCHANGED live
    BY <1>1
  <2>7. /\ live' = [j \in Callers |-> live'[j]] /\ live'[i] \in [Funcs(name[i]) -> Int]
        /\ \A j \in Callers \ {i} : live'[j] = live[j]
    BY <2>2, <2>6, LiveKept
  <2>8. WorkStep(i)
    BY <1>1, <2>2, <2>3, <2>5, <2>7 DEF WorkStep
  <2> QED BY <1>1, <1>2, <2>1, <2>8, SwapInv
<1>3. CASE Memory(i, update[i].slot).peak # update[i].old
  <2>1. Compare(i, Memory(i, update[i].slot).peak) /\ UNCHANGED stats /\ pc[i] \in {"load", "swap"}
    BY <1>1, <1>3 DEF CompareAndSwap
  <2>2. WorkStep(i)
    BY <1>1, <2>1, CompareWorks
  <2> QED BY <2>1, <2>2, CompareInv
<1> QED BY <1>2, <1>3

\* halide_profiler_memory_free taking from the counters of the pipeline keeps the invariant.
LEMMA MemoryFreeInv ==
  ASSUME Inv, NEW i \in Callers, NEW f, MemoryFree(i, f)
  PROVE  Inv'
<1>1. /\ pc[i] = "in" /\ pc[i] \in Updating /\ f \in Funcs(name[i])
      /\ SubCurrent(i, -1, live[i][f]) /\ Goto(i, "free") /\ UNCHANGED live
      /\ update' = [update EXCEPT ![i] = [NoUpdate EXCEPT !.func = f]]
  BY DEF MemoryFree, At, Updating
<1>2. name[i] \in Names /\ live[i] \in [Funcs(name[i]) -> Int] /\ TypeInv
  BY <1>1 DEF Inv, CallersInv, CallerInv
<1>3. f \in Int /\ -1 \in Slots(name[i]) /\ live[i][f] \in Int
  BY <1>1, <1>2, SlotsInt
<1>4. PICK u : u = [NoUpdate EXCEPT !.func = f]
  OBVIOUS
<1>5. u \in Updates /\ u.func = f
  <2>1. NoUpdate \in Updates
    BY SMTT(30) DEF NoUpdate, Updates
  <2> QED BY <1>3, <1>4, <2>1 DEF Updates
<1>6. WorkStep(i)
  <2>1. /\ live' = [j \in Callers |-> live'[j]] /\ live'[i] \in [Funcs(name[i]) -> Int]
        /\ \A j \in Callers \ {i} : live'[j] = live[j]
    BY <1>1, LiveKept
  <2>2. "free" \in Updating /\ update' = [update EXCEPT ![i] = u]
    BY <1>1, <1>4 DEF Updating
  <2> QED BY <1>1, <1>5, <2>1, <2>2 DEF WorkStep, MemoryFree
<1>7. pc'[i] = "free" /\ update'[i].func = f
  BY <1>1, <1>2, <1>4, <1>5 DEF Goto, TypeInv
<1> QED BY <1>1, <1>3, <1>6, <1>7, SubCurrentInv

\* halide_profiler_memory_free taking from the counters of the func keeps the invariant.
LEMMA FreeFuncInv ==
  ASSUME Inv, NEW i \in Callers, FreeFunc(i)
  PROVE  Inv'
<1>1. PICK f : f = update[i].func
  OBVIOUS
<1>2. /\ pc[i] = "free" /\ pc[i] \in Updating
      /\ SubCurrent(i, f, live[i][f]) /\ Goto(i, "in") /\ live' = [live EXCEPT ![i][f] = 0]
      /\ update' = [update EXCEPT ![i] = NoUpdate]
  BY <1>1 DEF FreeFunc, At, Updating, freed_slot
<1>3. /\ name[i] \in Names /\ live[i] \in [Funcs(name[i]) -> Int] /\ TypeInv /\ f \in Funcs(name[i])
  BY <1>1, <1>2 DEF Inv, CallersInv, CallerInv, PeakInv, UpdateInv
<1>4. f \in Slots(name[i]) /\ live[i][f] \in Int
  BY <1>3, SlotsInt
<1>5. NoUpdate \in Updates /\ 0 \in Int
  BY SMTT(30) DEF NoUpdate, Updates
<1>6. WorkStep(i)
  <2>1. /\ live' = [j \in Callers |-> live'[j]] /\ live'[i] \in [Funcs(name[i]) -> Int]
        /\ \A j \in Callers \ {i} : live'[j] = live[j]
    BY <1>2, <1>3, <1>5, LiveSet
  <2>2. "in" \in Updating
    BY DEF Updating
  <2> QED BY <1>2, <1>5, <2>1, <2>2 DEF WorkStep, FreeFunc
<1>7. pc'[i] = "in"
  BY <1>2, <1>3 DEF Goto, TypeInv
<1> QED BY <1>2, <1>4, <1>6, <1>7, SubCurrentInv

-----------------------------------------------------------------------------
(* The start and the end of a pipeline *)

\* A step that leaves the ids and the counters alone, by callers C that update none.
LEMMA QuietStep ==
  ASSUME Inv, TypeInv', ThreadInv', ListInv', BillInv', UNCHANGED first_free_id, SameNames, SameMemory,
         NEW C \in SUBSET Callers, \A j \in Callers \ C : SameCaller(j),
         \A j \in C : CallerInv(j)' /\ pc[j] \notin {"load", "swap"} /\ UpdateInv(j)',
         live' = [j \in Callers |-> live'[j]]
  PROVE  Inv'
<1>1. TypeInv /\ IdInv /\ CallersInv /\ PeakInv /\ StatsTyped /\ StatsTyped' /\ update \in [Callers -> Updates]
  BY DEF Inv, TypeInv, StatsTyped
<1>2. IdInv'
  BY <1>1, SameIds
<1>3. CallersInv'
  BY <1>1, SameCallersInv
<1>4. PeakInv'
  BY <1>1, SamePeakInv
<1> QED BY <1>2, <1>3, <1>4 DEF Inv

\* A step of caller i that leaves the entries alone.
LEMMA MoveInv ==
  ASSUME Inv, NEW i \in Callers, UNCHANGED <<pipelines, first_free_id, stats>>, TypeInv', ThreadInv', BillInv',
         \A j \in Callers \ {i} : SameCaller(j), CallerInv(i)', pc[i] \notin {"load", "swap"}, UpdateInv(i)',
         live' = [j \in Callers |-> live'[j]]
  PROVE  Inv'
<1>1. /\ SameNames /\ SameMemory /\ SameNext /\ UNCHANGED first_free_id
      /\ DOMAIN stats' = DOMAIN stats /\ UNCHANGED pipelines
  BY DEF SameNames, SameMemory, SameNext
<1>2. ListInv'
  BY <1>1, SameListInv DEF Inv
<1>3. PICK C : C = {i}
  OBVIOUS
<1>4. C \in SUBSET Callers /\ \A j \in Callers \ C : SameCaller(j)
  BY <1>3
<1>5. \A j \in C : CallerInv(j)' /\ pc[j] \notin {"load", "swap"} /\ UpdateInv(j)'
  BY <1>3
<1> QED BY <1>1, <1>2, <1>4, <1>5, QuietStep

\* The thread is left alone, and so is app: whether somebody runs is what matters.
LEMMA SameThreadInv ==
  ASSUME ThreadInv, NEW i \in Callers, pc[i] # "out",
         UNCHANGED <<sampling_thread, sampler, app>>, current_func' # please_stop
  PROVE  ThreadInv'
<1>1. ~Quiet
  BY DEF Quiet, At
<1>2. app # "join" /\ sampling_thread
  BY <1>1 DEF ThreadInv
<1> QED BY <1>2 DEF ThreadInv

\* Setting current_func to a func of the pipeline that runs keeps the invariant.
LEMMA SetCurrentFuncInv ==
  ASSUME Inv, NEW i \in Callers, NEW f, SetCurrentFunc(i, f)
  PROVE  Inv'
<1>0. TypeInv /\ ThreadInv /\ CallerInv(i) /\ CallersInv /\ UpdateInv(i)
  BY DEF Inv, CallersInv, PeakInv
<1>1. /\ pc[i] = "in" /\ pc[i] \in Updating /\ f \in Funcs(name[i])
      /\ UNCHANGED <<stateVars, stats, sampler, app, callerVars>>
  BY DEF SetCurrentFunc, At, Updating, samplerVars
<1>2. PICK n : n = current_func'
  OBVIOUS
<1>3. PICK p \in DOMAIN stats : Runs(i, p)
  BY <1>0, <1>1 DEF CallerInv
<1>4. /\ stats[p].first_func_id \in Nat /\ stats[p].name = name[i] /\ name[i] \in Names
      /\ token[i] = stats[p].first_func_id /\ num_funcs[name[i]] \in Nat
  BY <1>0, <1>1, <1>3, ProfilerAssumption DEF TypeInv, Runs, Records, CallerInv
<1>5. n = stats[p].first_func_id + f /\ f \in 0..num_funcs[name[i]] - 1
  BY <1>1, <1>2, <1>4 DEF SetCurrentFunc, Funcs
<1>6. n \in Nat /\ n # -2 /\ n \in stats[p].first_func_id .. stats[p].first_func_id + num_funcs[name[i]] - 1
  BY <1>4, <1>5, SMTT(30)
<1>7. n \in Int
  BY <1>6, SMTT(30)
<1>8. TypeInv'
  BY <1>0, <1>1, <1>2, <1>7 DEF TypeInv, stateVars, callerVars
<1>9. ThreadInv'
  <2>1. current_func' # please_stop
    BY <1>2, <1>6 DEF please_stop
  <2> QED BY <1>0, <1>1, <2>1, SameThreadInv DEF stateVars
<1>10. BillInv'
  <2>1. HoldsId(p, current_func)' /\ Runs(i, p)' /\ p \in DOMAIN stats' /\ pc'[i] # "out"
    BY <1>1, <1>2, <1>3, <1>4, <1>6 DEF HoldsId, Runs, callerVars
  <2> QED BY <2>1 DEF BillInv
<1>11. \A j \in Callers \ {i} : SameCaller(j)
  BY <1>1 DEF SameCaller, callerVars
<1>12. CallerInv(i)' /\ UpdateInv(i)'
  <2>1. pc' = pc /\ name' = name /\ token' = token /\ p_stats' = p_stats /\ live' = live /\ update' = update /\ stats' = stats
    BY <1>1 DEF callerVars
  <2> QED BY <1>0, <2>1 DEF CallerInv, UpdateInv, Runs, Memory
<1>13. live' = [j \in Callers |-> live'[j]] /\ pc[i] \notin {"load", "swap"}
  BY <1>0, <1>1 DEF CallersInv, callerVars
<1> QED BY <1>1, <1>8, <1>9, <1>10, <1>11, <1>12, <1>13, MoveInv DEF stateVars

\* Finish and Fail.
LEMMA ToEndInv ==
  ASSUME Inv, NEW i \in Callers, pc[i] = "in", Goto(i, "end"),
         UNCHANGED <<stateVars, current_func, stats, sampler, app, name, token, p_stats, live, update>>
  PROVE  Inv'
<1>0. TypeInv /\ ThreadInv /\ CallerInv(i) /\ CallersInv /\ BillInv
  BY DEF Inv, CallersInv
<1>1. /\ pc' \in [Callers -> Labels] /\ pc'[i] = "end" /\ \A j \in Callers \ {i} : pc'[j] = pc[j]
  BY <1>0 DEF Goto, TypeInv, Labels
<1>2. TypeInv'
  BY <1>0, <1>1 DEF TypeInv, stateVars
<1>3. ThreadInv'
  <2>1. current_func # please_stop
    BY <1>0 DEF ThreadInv, Quiet, At
  <2> QED BY <1>0, <2>1, SameThreadInv DEF stateVars
<1>4. BillInv'
  <2>1. SameNames /\ KeepsRunning
    BY <1>1 DEF SameNames, KeepsRunning
  <2> QED BY <1>0, <2>1, SameBillInv
<1>5. \A j \in Callers \ {i} : SameCaller(j)
  BY <1>1 DEF SameCaller
<1>6. CallerInv(i)' /\ UpdateInv(i)'
  BY <1>0, <1>1 DEF CallerInv, UpdateInv, Updating
<1>7. live' = [j \in Callers |-> live'[j]] /\ pc[i] \notin {"load", "swap"}
  BY <1>0 DEF CallersInv
<1> QED BY <1>2, <1>3, <1>4, <1>5, <1>6, <1>7, MoveInv DEF stateVars

\* halide_profiler_pipeline_end keeps the invariant.
LEMMA EndInv ==
  ASSUME Inv, NEW i \in Callers, End(i)
  PROVE  Inv'
<1>0. TypeInv /\ ThreadInv /\ CallersInv
  BY DEF Inv
<1>1. /\ pc[i] = "end" /\ current_func' = -1 /\ name' = [name EXCEPT ![i] = NULL]
      /\ token' = [token EXCEPT ![i] = 0] /\ p_stats' = [p_stats EXCEPT ![i] = NULL]
      /\ live' = [live EXCEPT ![i] = <<>>] /\ pc' = [pc EXCEPT ![i] = "out"]
      /\ UNCHANGED <<stateVars, stats, sampler, app, update>>
  BY DEF End, At, Goto, func_at_end, outside_of_halide, samplerVars
<1>2. -1 \in Int /\ -1 # -2 /\ ~(-1 >= 0) /\ 0 \in Nat
  BY SMTT(30)
<1>3. /\ pc' \in [Callers -> Labels] /\ name' \in [Callers -> Names \cup {NULL}]
      /\ token' \in [Callers -> Nat] /\ p_stats' \in [Callers -> Pointers]
      /\ pc'[i] = "out" /\ name'[i] = NULL /\ token'[i] = 0 /\ p_stats'[i] = NULL
  BY <1>0, <1>1, <1>2 DEF TypeInv, Labels, Pointers
<1>4. TypeInv'
  BY <1>0, <1>1, <1>2, <1>3 DEF TypeInv, stateVars
<1>5. ThreadInv'
  <2>1. current_func' # please_stop
    BY <1>1, <1>2 DEF please_stop
  <2> QED BY <1>0, <1>1, <2>1, SameThreadInv DEF stateVars
<1>6. BillInv'
  BY <1>1, <1>2 DEF BillInv
<1>7. live = [j \in Callers |-> live[j]]
  BY <1>0 DEF CallersInv
<1>8. DOMAIN live = Callers
  BY <1>7
<1>9. \A j \in Callers \ {i} : live'[j] = live[j]
  BY <1>1, <1>8
<1>10. live' = [j \in Callers |-> live'[j]] /\ pc[i] \notin {"load", "swap"}
  BY <1>1, <1>8
<1>11. \A j \in Callers \ {i} : SameCaller(j)
  BY <1>0, <1>1, <1>9 DEF SameCaller, TypeInv
<1>12. CallerInv(i)' /\ UpdateInv(i)'
  BY <1>3 DEF CallerInv, UpdateInv, Updating
<1> QED BY <1>1, <1>4, <1>5, <1>6, <1>10, <1>11, <1>12, MoveInv DEF stateVars

\* The search of the list for a name finds its entry, if there is one.
LEMMA NamedFound ==
  ASSUME TypeInv, ListInv, NEW n
  PROVE  \/ Named(n) = 0 /\ \A p \in DOMAIN stats : stats[p].name # n
         \/ Named(n) # 0 /\ Entry[Named(n)] \in DOMAIN stats /\ stats[Entry[Named(n)]].name = n
<1> DEFINE A == {p \in DOMAIN stats : stats[p].name = n}
<1>1. A \subseteq DOMAIN stats
  OBVIOUS
<1>2. PICK k : k = FirstOf(A)
  OBVIOUS
<1>3. (k = 0 /\ A = {}) \/ (k \in 1..Steps + 1 /\ Entry[k] \in A)
  BY <1>1, <1>2, FirstFound
<1>4. Named(n) = k
  BY <1>2 DEF Named
<1>5. k \in 1..Steps + 1 => k # 0
  BY StepsNat, SMTT(30)
<1> QED BY <1>3, <1>4, <1>5

\* halide_profiler_get_pipeline_state finds the entry of the pipeline, and keeps the invariant.
LEMMA GetStateInv ==
  ASSUME Inv, NEW i \in Callers, GetState(i)
  PROVE  Inv'
<1>0. TypeInv /\ ThreadInv /\ ListInv /\ CallerInv(i) /\ CallersInv /\ BillInv
  BY DEF Inv, CallersInv
<1>1. PICK e : e = IF Named(name[i]) = 0 THEN NULL ELSE Entry[Named(name[i])]
  OBVIOUS
<1>2. PICK g : g = [f \in Funcs(name[i]) |-> 0]
  OBVIOUS
<1>3. /\ pc[i] = "started" /\ p_stats' = [p_stats EXCEPT ![i] = e] /\ live' = [live EXCEPT ![i] = g]
      /\ pc' = [pc EXCEPT ![i] = "in"]
      /\ UNCHANGED <<stateVars, current_func, stats, sampler, app, name, token, update>>
  BY <1>1, <1>2 DEF GetState, At, Goto, samplerVars
<1>4. name[i] \in Names /\ \E p \in DOMAIN stats : Runs(i, p)
  BY <1>0, <1>3 DEF CallerInv
<1>5. e \in DOMAIN stats /\ stats[e].name = name[i]
  BY <1>0, <1>1, <1>4, NamedFound DEF Runs
<1>6. g \in [Funcs(name[i]) -> Int]
  BY <1>2, SMTT(30)
<1>7. e \in Addresses /\ e # NULL
  BY <1>0, <1>5, StepsNat DEF TypeInv
<1>8. /\ pc' \in [Callers -> Labels] /\ p_stats' \in [Callers -> Pointers] /\ pc'[i] = "in" /\ p_stats'[i] = e
      /\ \A j \in Callers \ {i} : pc'[j] = pc[j] /\ p_stats'[j] = p_stats[j]
  BY <1>0, <1>3, <1>7 DEF TypeInv, Labels, Pointers
<1>9. TypeInv'
  BY <1>0, <1>3, <1>8 DEF TypeInv, stateVars
<1>10. ThreadInv'
  <2>1. current_func # please_stop /\ pc[i] # "out"
    BY <1>0, <1>3 DEF ThreadInv, Quiet, At
  <2> QED BY <1>0, <1>3, <2>1, SameThreadInv DEF stateVars
<1>11. BillInv'
  <2>1. SameNames /\ KeepsRunning
    BY <1>3, <1>8 DEF SameNames, KeepsRunning
  <2> QED BY <1>0, <1>3, <2>1, SameBillInv
<1>12. DOMAIN live = Callers
  BY <1>0 DEF CallersInv
<1>13. live'[i] = g /\ \A j \in Callers \ {i} : live'[j] = live[j]
  BY <1>3, <1>12
<1>14. live' = [j \in Callers |-> live'[j]] /\ pc[i] \notin {"load", "swap"}
  BY <1>3, <1>12
<1>15. \A j \in Callers \ {i} : SameCaller(j)
  BY <1>3, <1>8, <1>13 DEF SameCaller
<1>16. CallerInv(i)' /\ UpdateInv(i)'
  BY <1>3, <1>4, <1>5, <1>6, <1>7, <1>8, <1>13 DEF CallerInv, UpdateInv, Updating, Runs
<1> QED BY <1>3, <1>9, <1>10, <1>11, <1>14, <1>15, <1>16, MoveInv DEF stateVars

\* The list has a rank that is free above it.
LEMMA RankAbove ==
  ASSUME NEW S, S \subseteq Addresses, NEW rank \in [Addresses -> Int], NEW h, NEW nxt, IsList(S, h, nxt, rank, NULL)
  PROVE  \E r \in Int : \A x \in S : rank[x] < r
<1>1. CASE S = {}
  BY <1>1, SMTT(30)
<1>2. CASE S # {}
  <2>1. h \in S /\ \A x \in S : rank[x] <= rank[h]
    BY <1>2 DEF IsList
  <2>2. PICK k : k = rank[h]
    OBVIOUS
  <2>3. k \in Int /\ \A x \in S : rank[x] \in Int /\ rank[x] <= k
    BY <2>1, <2>2
  <2>4. k + 1 \in Int /\ \A x \in S : rank[x] < k + 1
    BY <2>3, SMTT(30)
  <2> QED BY <2>4
<1> QED BY <1>1, <1>2

\* The entry that create_pipeline_stats makes.
LEMMA NewEntry ==
  ASSUME TypeInv, NEW n \in Names
  PROVE  /\ NewStats(n) \in Records /\ NewStats(n).name = n /\ NewStats(n).next = pipelines
         /\ NewStats(n).first_func_id = first_free_id
         /\ NewStats(n).memory \in [Slots(n) -> Counters]
         /\ \A slot \in Slots(n) : NewStats(n).memory[slot] = NoMemory
<1>1. PICK g : g = [slot \in Slots(n) |-> NoMemory]
  OBVIOUS
<1>2. NoMemory \in Counters
  BY SMTT(30) DEF NoMemory, Counters
<1>3. g \in [Slots(n) -> Counters] /\ \A slot \in Slots(n) : g[slot] = NoMemory
  BY <1>1, <1>2
<1>4. NewStats(n) = [name |-> n, next |-> pipelines, first_func_id |-> first_free_id, memory |-> g]
  BY <1>1 DEF NewStats, Slots
<1>5. g \in UNION {[Slots(k) -> Counters] : k \in Names} /\ pipelines \in Pointers /\ first_free_id \in Nat
  BY <1>3 DEF TypeInv
<1>6. PICK r : r = [name |-> n, next |-> pipelines, first_func_id |-> first_free_id, memory |-> g]
  OBVIOUS
<1>7. r \in Records /\ r.name = n /\ r.next = pipelines /\ r.first_func_id = first_free_id /\ r.memory = g
  BY <1>5, <1>6 DEF Records
<1> QED BY <1>2, <1>3, <1>4, <1>6, <1>7

\* What create_pipeline_stats leaves behind.
Made(p, n) ==
  /\ p \in Addresses /\ p \notin DOMAIN stats /\ n \in Names
  /\ DOMAIN stats' = DOMAIN stats \cup {p}
  /\ \A q \in DOMAIN stats : stats'[q] = stats[q]
  /\ stats'[p].name = n /\ stats'[p].next = pipelines /\ stats'[p].first_func_id = first_free_id
  /\ \A slot \in Slots(n) : stats'[p].memory[slot] = NoMemory
  /\ StatsTyped'
  /\ first_free_id' = first_free_id + num_funcs[n] /\ pipelines' = p

\* Create leaves that behind.
LEMMA CreateMakes ==
  ASSUME TypeInv, NEW n \in Names, NEW p \in Addresses, p \notin DOMAIN stats, Create(p, n)
  PROVE  Made(p, n)
<1>1. PICK r : r = NewStats(n)
  OBVIOUS
<1>2. /\ r \in Records /\ r.name = n /\ r.next = pipelines /\ r.first_func_id = first_free_id
      /\ r.memory \in [Slots(n) -> Counters]
      /\ \A slot \in Slots(n) : r.memory[slot] = NoMemory
  BY <1>1, NewEntry
<1>3. /\ stats' = [q \in DOMAIN stats \cup {p} |-> IF q = p THEN r ELSE stats[q]]
      /\ first_free_id' = first_free_id + num_funcs[n] /\ pipelines' = p
  BY <1>1 DEF Create
<1>4. DOMAIN stats' = DOMAIN stats \cup {p} /\ stats'[p] = r /\ \A q \in DOMAIN stats : stats'[q] = stats[q]
  BY <1>3
<1>5. DOMAIN stats \subseteq Addresses /\ \A q \in DOMAIN stats : stats[q] \in Records
      /\ stats[q].memory \in [Slots(stats[q].name) -> Counters]
  BY DEF TypeInv
<1>6. stats' \in [DOMAIN stats' -> Records]
  BY <1>2, <1>3, <1>4, <1>5
<1>7. \A q \in DOMAIN stats' : stats'[q].memory \in [Slots(stats'[q].name) -> Counters]
  BY <1>2, <1>4, <1>5
<1>8. StatsTyped'
  BY <1>4, <1>5, <1>6, <1>7 DEF StatsTyped
<1> QED BY <1>2, <1>3, <1>4, <1>8 DEF Made

\* The new entry is the head of the list.
LEMMA MadeList ==
  ASSUME TypeInv, ListInv, NEW p, NEW n, Made(p, n)
  PROVE  ListInv'
<1>1. PICK rank \in [Addresses -> Int] : IsList(DOMAIN stats, pipelines, NextOf, rank, NULL)
  BY DEF ListInv, IsStatsList
<1>2. DOMAIN stats \subseteq Addresses /\ p \in Addresses /\ p \notin DOMAIN stats /\ NULL \notin DOMAIN stats /\ p # NULL
  BY StepsNat DEF TypeInv, Made
<1>3. PICK top \in Int : \A x \in DOMAIN stats : rank[x] < top
  BY <1>1, <1>2, RankAbove
<1>4. PICK rank2 : rank2 = [rank EXCEPT ![p] = top]
  OBVIOUS
<1>5. rank2 \in [Addresses -> Int] /\ rank2[p] = top /\ \A x \in DOMAIN stats : rank2[x] = rank[x] /\ rank[x] \in Int
  BY <1>1, <1>2, <1>3, <1>4
<1>6. PICK nxt2 : nxt2 = NextOf'
  OBVIOUS
<1>7. nxt2[p] = pipelines /\ \A x \in DOMAIN stats : nxt2[x] = NextOf[x]
  BY <1>2, <1>6 DEF NextOf, Made
<1>8. IsList(DOMAIN stats \cup {p}, p, nxt2, rank2, NULL)
  BY <1>1, <1>2, <1>3, <1>5, <1>7, ListPush
<1>9. IsList(DOMAIN stats', pipelines', NextOf', rank2, NULL)
  BY <1>6, <1>8 DEF Made
<1> QED BY <1>5, <1>9 DEF ListInv, IsStatsList

\* The ids of the new entry are above all others.
LEMMA MadeIds ==
  ASSUME TypeInv, IdInv, NEW p, NEW n, Made(p, n), \A q \in DOMAIN stats : stats[q].name # n
  PROVE  IdInv'
<1>1. first_free_id \in Nat /\ num_funcs[n] \in Nat
  BY ProfilerAssumption DEF TypeInv, Made
<1>2. \A q \in DOMAIN stats : /\ stats[q].first_func_id \in Nat /\ stats[q].name \in Names
                              /\ num_funcs[stats[q].name] \in Nat
  BY ProfilerAssumption DEF TypeInv, Records
<1>3. \A q \in DOMAIN stats : FuncsEnd(q)' = FuncsEnd(q) /\ FuncsEnd(q) <= first_free_id /\ FuncsEnd(q) \in Nat
                              /\ stats'[q].name = stats[q].name /\ stats'[q].first_func_id = stats[q].first_func_id
  BY <1>2, SMTT(30) DEF FuncsEnd, Made, IdInv
<1>4. FuncsEnd(p)' = first_free_id' /\ first_free_id <= first_free_id' /\ first_free_id' \in Nat
  BY <1>1, SMTT(30) DEF FuncsEnd, Made
<1>5. DOMAIN stats' = DOMAIN stats \cup {p} /\ p \notin DOMAIN stats /\ stats'[p].name = n
      /\ stats'[p].first_func_id = first_free_id
  BY DEF Made
<1>6. \A q \in DOMAIN stats' : FuncsEnd(q)' <= first_free_id'
  BY <1>1, <1>3, <1>4, <1>5, SMTT(30)
<1>7. ASSUME NEW q \in DOMAIN stats', NEW s \in DOMAIN stats', q # s
      PROVE  /\ stats'[q].name # stats'[s].name
             /\ FuncsEnd(q)' <= stats'[s].first_func_id \/ FuncsEnd(s)' <= stats'[q].first_func_id
  <2>1. CASE q \in DOMAIN stats /\ s \in DOMAIN stats
    BY <1>3, <1>7, <2>1 DEF IdInv
  <2>2. CASE q = p /\ s \in DOMAIN stats
    BY <1>3, <1>5, <2>2
  <2>3. CASE s = p /\ q \in DOMAIN stats
    BY <1>3, <1>5, <2>3
  <2> QED BY <1>5, <1>7, <2>1, <2>2, <2>3
<1>8. DOMAIN stats' # {}
  BY <1>5
<1> QED BY <1>6, <1>7, <1>8 DEF IdInv

\* The callers and the peaks, when an entry is made.
LEMMA MadeCallers ==
  ASSUME Inv, NEW p, NEW n, Made(p, n), NEW i \in Callers, \A j \in Callers \ {i} : SameCaller(j),
         CallerInv(i)', UpdateInv(i)', pc[i] \notin {"load", "swap"}, live' = [j \in Callers |-> live'[j]]
  PROVE  CallersInv' /\ PeakInv'
<1>0. CallersInv /\ PeakInv /\ StatsTyped
  BY DEF Inv, TypeInv, StatsTyped
<1>1. /\ DOMAIN stats' = DOMAIN stats \cup {p} /\ p \notin DOMAIN stats /\ StatsTyped' /\ stats'[p].name = n
      /\ \A q \in DOMAIN stats : stats'[q] = stats[q]
      /\ \A slot \in Slots(n) : stats'[p].memory[slot].peak = 0 /\ stats'[p].memory[slot].top = 0
  <2>1. NoMemory.peak = 0 /\ NoMemory.top = 0
    BY DEF NoMemory
  <2> QED BY <2>1 DEF Made
<1>2. ASSUME NEW j \in Callers \ {i} PROVE CallerInv(j)'
  <2>1. CallerInv(j) /\ SameCaller(j)
    BY <1>0, <1>2 DEF CallersInv
  <2>2. \A q \in DOMAIN stats : Runs(j, q) => Runs(j, q)' /\ q \in DOMAIN stats'
    BY <1>1, <2>1 DEF Runs, SameCaller
  <2> QED BY <1>1, <2>1, <2>2 DEF CallerInv, SameCaller
<1>3. CallersInv'
  BY <1>2 DEF CallersInv
<1>4. ASSUME NEW j \in Callers \ {i} PROVE UpdateInv(j)'
  <2>1. CallerInv(j) /\ SameCaller(j) /\ UpdateInv(j)
    BY <1>0, <1>4 DEF CallersInv, PeakInv
  <2>2. pc[j] \in {"load", "swap"} => Memory(j, update[j].slot)' = Memory(j, update[j].slot)
    BY <1>1, <2>1 DEF Memory, SameCaller, CallerInv, Updating
  <2> QED BY <2>1, <2>2 DEF UpdateInv, SameCaller
<1>5. 0 <= 0
  BY SMTT(30)
<1>6. \A q \in DOMAIN stats' : \A slot \in Slots(stats'[q].name) :
        stats'[q].memory[slot].peak <= stats'[q].memory[slot].top
  BY <1>0, <1>1, <1>5 DEF PeakInv
<1>7. ASSUME NEW q \in DOMAIN stats', NEW slot \in Slots(stats'[q].name) PROVE Settled(q, slot)'
  <2>1. CASE q = p
    BY <1>1, <1>7, <2>1 DEF Settled
  <2>2. CASE q # p
    <3>1. q \in DOMAIN stats /\ stats'[q] = stats[q] /\ slot \in Slots(stats[q].name)
      BY <1>1, <1>7, <2>2
    <3>2. Settled(q, slot)
      BY <1>0, <3>1, PeakSettled DEF PeakInv, AllSettled
    <3>3. \A j \in Callers : Raises(j, q, slot) => SameCaller(j)
      BY DEF Raises
    <3>4. \A j \in Callers : Raises(j, q, slot) => Raises(j, q, slot)'
      BY <3>1, <3>3 DEF Raises, SameCaller
    <3> QED BY <3>1, <3>2, <3>4 DEF Settled
  <2> QED BY <2>1, <2>2
<1>8. PeakExact'
  <2>1. AllSettled'
    BY <1>7 DEF AllSettled
  <2> QED BY <1>1, <2>1, PeakSettledNext
<1> QED BY <1>3, <1>4, <1>6, <1>8 DEF PeakInv

\* What the three outcomes of a start have in common.
Starts(i, n) ==
  /\ pc[i] = "out" /\ app = "idle" /\ n \in Names
  /\ name' = [name EXCEPT ![i] = n] /\ sampling_thread' = TRUE
  /\ sampler' = IF sampling_thread THEN sampler ELSE "start"
  /\ \E l \in {"started", "end"} : Goto(i, l)
  /\ \E t \in Nat : token' = [token EXCEPT ![i] = t]
  /\ UNCHANGED <<work, current_func, app, p_stats, live, update>>

\* All of them keep the types and the thread, and the other callers.
LEMMA StartCommon ==
  ASSUME Inv, NEW i \in Callers, NEW n, Starts(i, n), StatsTyped', pipelines' \in Pointers, first_free_id' \in Nat
  PROVE  /\ TypeInv' /\ ThreadInv' /\ KeepsRunning
         /\ \A j \in Callers \ {i} : SameCaller(j)
         /\ name'[i] = n /\ pc'[i] \in {"started", "end"} /\ p_stats'[i] = NULL /\ UpdateInv(i)'
         /\ live' = [j \in Callers |-> live'[j]]
<1>0. TypeInv /\ ThreadInv /\ CallerInv(i) /\ CallersInv
  BY DEF Inv, CallersInv
<1>1. PICK l \in {"started", "end"} : pc' = [pc EXCEPT ![i] = l]
  BY DEF Starts, Goto
<1>2. PICK t \in Nat : token' = [token EXCEPT ![i] = t]
  BY DEF Starts
<1>3. /\ pc[i] = "out" /\ app = "idle" /\ n \in Names
      /\ name' = [name EXCEPT ![i] = n] /\ sampling_thread' = TRUE
      /\ sampler' = IF sampling_thread THEN sampler ELSE "start"
      /\ work' = work /\ current_func' = current_func /\ app' = app /\ p_stats' = p_stats /\ live' = live
      /\ update' = update
  BY DEF Starts
<1>4. /\ pc' \in [Callers -> Labels] /\ token' \in [Callers -> Nat] /\ name' \in [Callers -> Names \cup {NULL}]
      /\ pc'[i] = l /\ name'[i] = n
      /\ \A j \in Callers \ {i} : pc'[j] = pc[j] /\ token'[j] = token[j] /\ name'[j] = name[j]
  BY <1>0, <1>1, <1>2, <1>3 DEF TypeInv, Labels
<1>5. sampler' \in {"none", "start", "check", "sample", "bill", "sleep", "done"} /\ sampling_thread' \in BOOLEAN
  BY <1>0, <1>3 DEF TypeInv
<1>6. TypeInv'
  BY <1>0, <1>3, <1>4, <1>5 DEF TypeInv, StatsTyped
<1>7. ThreadInv'
  <2>1. sampler' # "none" /\ sampler' # "done" /\ sampling_thread'
    BY <1>0, <1>3 DEF ThreadInv, TypeInv
  <2>2. app' = "idle" /\ app' # "join" /\ current_func' # please_stop
    BY <1>0, <1>3 DEF ThreadInv, please_stop
  <2> QED BY <2>1, <2>2 DEF ThreadInv
<1>8. KeepsRunning /\ \A j \in Callers \ {i} : SameCaller(j)
  BY <1>3, <1>4 DEF KeepsRunning, SameCaller
<1>9. p_stats'[i] = NULL /\ UpdateInv(i)' /\ live' = [j \in Callers |-> live'[j]]
  BY <1>0, <1>1, <1>3, <1>4 DEF CallerInv, UpdateInv, CallersInv
<1> QED BY <1>1, <1>4, <1>6, <1>7, <1>8, <1>9

\* The pipeline has its entry, or no entry could be made.
LEMMA StartFoundInv ==
  ASSUME Inv, NEW i \in Callers, NEW n, Starts(i, n), UNCHANGED <<pipelines, first_free_id, stats>>,
         pc'[i] = "started" => \E p \in DOMAIN stats : stats[p].name = n /\ token'[i] = stats[p].first_func_id
  PROVE  Inv'
<1>1. StatsTyped' /\ pipelines' \in Pointers /\ first_free_id' \in Nat /\ BillInv
  BY DEF Inv, TypeInv, StatsTyped
<1>2. /\ TypeInv' /\ ThreadInv' /\ KeepsRunning
      /\ \A j \in Callers \ {i} : SameCaller(j)
      /\ name'[i] = n /\ pc'[i] \in {"started", "end"} /\ p_stats'[i] = NULL /\ UpdateInv(i)'
      /\ live' = [j \in Callers |-> live'[j]]
  BY <1>1, StartCommon
<1>3. pc[i] \notin {"load", "swap"} /\ n \in Names /\ UNCHANGED current_func
  BY DEF Starts
<1>4. CallerInv(i)'
  <2>1. pc'[i] \notin Updating /\ pc'[i] # "out"
    BY <1>2 DEF Updating
  <2>2. pc'[i] = "started" => \E p \in DOMAIN stats' : Runs(i, p)'
    BY <1>2 DEF Runs
  <2>3. pc'[i] \in Updating \cup {"started"} => pc'[i] = "started"
    BY <2>1
  <2> QED BY <1>2, <1>3, <2>1, <2>2, <2>3 DEF CallerInv
<1>5. BillInv'
  <2>1. SameNames
    BY DEF SameNames
  <2> QED BY <1>1, <1>2, <1>3, <2>1, SameBillInv
<1> QED BY <1>2, <1>3, <1>4, <1>5, MoveInv

\* The pipeline gets its entry.
LEMMA StartMadeInv ==
  ASSUME Inv, NEW i \in Callers, NEW n, Starts(i, n), NEW p, Made(p, n), \A q \in DOMAIN stats : stats[q].name # n,
         pc'[i] = "started", token'[i] = first_free_id
  PROVE  Inv'
<1>0. TypeInv /\ ListInv /\ IdInv /\ CallersInv /\ BillInv
  BY DEF Inv
<1>1. first_free_id \in Nat /\ num_funcs[n] \in Nat \ {0} /\ current_func \in Int
  BY <1>0, ProfilerAssumption DEF TypeInv, Made
<1>2. StatsTyped' /\ pipelines' \in Pointers
  BY DEF Made, Pointers
<1>3. first_free_id' \in Nat
  BY <1>1, SMTT(30) DEF Made
<1>4. /\ TypeInv' /\ ThreadInv' /\ KeepsRunning
      /\ \A j \in Callers \ {i} : SameCaller(j)
      /\ name'[i] = n /\ pc'[i] \in {"started", "end"} /\ p_stats'[i] = NULL /\ UpdateInv(i)'
      /\ live' = [j \in Callers |-> live'[j]]
  BY <1>2, <1>3, StartCommon
<1>5. ListInv' /\ IdInv'
  BY <1>0, MadeList, MadeIds
<1>6. p \in DOMAIN stats' /\ Runs(i, p)' /\ stats'[p].first_func_id = first_free_id /\ stats'[p].name = n
      /\ DOMAIN stats' = DOMAIN stats \cup {p} /\ n \in Names /\ \A q \in DOMAIN stats : stats'[q] = stats[q]
  BY <1>4 DEF Made, Runs
<1>7. CallerInv(i)'
  <2>1. pc'[i] \notin Updating /\ pc'[i] # "out"
    BY DEF Updating
  <2> QED BY <1>4, <1>6, <2>1 DEF CallerInv
<1>8. pc[i] \notin {"load", "swap"} /\ current_func' = current_func
  BY DEF Starts
<1>9. CallersInv' /\ PeakInv'
  BY <1>4, <1>7, <1>8, MadeCallers
<1>10. BillInv'
  <2>1. CASE DOMAIN stats = {} /\ current_func = 0
    <3>1. first_free_id = 0
      BY <1>0, <2>1 DEF IdInv
    <3>2. 0 \in 0 .. 0 + num_funcs[n] - 1
      BY <1>1, SMTT(30)
    <3>3. HoldsId(p, current_func)'
      BY <1>6, <1>8, <2>1, <3>1, <3>2 DEF HoldsId
    <3> QED BY <1>6, <3>3 DEF BillInv
  <2>2. CASE \E j \in Callers, q \in DOMAIN stats : pc[j] # "out" /\ Runs(j, q) /\ HoldsId(q, current_func)
    <3>1. PICK j \in Callers, q \in DOMAIN stats : pc[j] # "out" /\ Runs(j, q) /\ HoldsId(q, current_func)
      BY <2>2
    <3>2. pc'[j] # "out" /\ q \in DOMAIN stats' /\ Runs(j, q)' /\ HoldsId(q, current_func)'
      BY <1>4, <1>6, <1>8, <3>1 DEF KeepsRunning, Runs, HoldsId
    <3> QED BY <3>2 DEF BillInv
  <2>3. CASE ~(current_func >= 0)
    BY <1>8, <2>3 DEF BillInv
  <2> QED BY <1>0, <2>1, <2>2, <2>3 DEF BillInv
<1> QED BY <1>4, <1>5, <1>9, <1>10 DEF Inv

\* halide_profiler_pipeline_start keeps the invariant.
LEMMA StartInv ==
  ASSUME Inv, NEW i \in Callers, NEW n \in work.names, Start(i, n)
  PROVE  Inv'
<1>0. TypeInv /\ ListInv
  BY DEF Inv
<1>1. n \in Names
  BY <1>0, ProfilerAssumption DEF TypeInv
<1>2. PICK k : k = Named(n)
  OBVIOUS
<1>3. \/ k = 0 /\ \A p \in DOMAIN stats : stats[p].name # n
      \/ k # 0 /\ Entry[k] \in DOMAIN stats /\ stats[Entry[k]].name = n
  BY <1>0, <1>2, NamedFound
<1>4. /\ pc[i] = "out" /\ app = "idle"
      /\ name' = [name EXCEPT ![i] = n] /\ sampling_thread' = TRUE
      /\ sampler' = IF sampling_thread THEN sampler ELSE "start"
      /\ UNCHANGED <<work, current_func, app, p_stats, live, update>>
  BY DEF Start, At
<1>5. CASE k # 0
  <2>1. PICK p : p = Entry[k]
    OBVIOUS
  <2>2. p \in DOMAIN stats /\ stats[p].name = n /\ stats[p].first_func_id \in Nat
    BY <1>0, <1>3, <1>5, <2>1 DEF TypeInv, Records
  <2>3. /\ token' = [token EXCEPT ![i] = stats[p].first_func_id] /\ Goto(i, "started")
        /\ UNCHANGED <<pipelines, first_free_id, stats>>
    BY <1>2, <1>5, <2>1 DEF Start
  <2>4. Starts(i, n)
    BY <1>1, <1>4, <2>2, <2>3 DEF Starts
  <2>5. token'[i] = stats[p].first_func_id
    BY <1>0, <2>3 DEF TypeInv
  <2> QED BY <2>2, <2>3, <2>4, <2>5, StartFoundInv
<1>6. CASE k = 0
  <2>1. PICK p \in Addresses \ DOMAIN stats :
             \/ /\ Create(p, n)
                /\ token' = [token EXCEPT ![i] = first_free_id]
                /\ Goto(i, "started")
             \/ /\ UNCHANGED <<pipelines, first_free_id, stats>>
                /\ Goto(i, "end")
                /\ UNCHANGED token
    BY <1>2, <1>6 DEF Start
  <2>2. first_free_id \in Nat /\ token \in [Callers -> Nat] /\ pc \in [Callers -> Labels]
    BY <1>0 DEF TypeInv
  <2>3. CASE /\ Create(p, n)
             /\ token' = [token EXCEPT ![i] = first_free_id]
             /\ Goto(i, "started")
    <3>1. Starts(i, n)
      BY <1>1, <1>4, <2>2, <2>3 DEF Starts
    <3>2. Made(p, n)
      BY <1>0, <1>1, <2>1, <2>3, CreateMakes
    <3>3. pc'[i] = "started" /\ token'[i] = first_free_id
      BY <2>2, <2>3 DEF Goto
    <3> QED BY <1>3, <1>6, <3>1, <3>2, <3>3, StartMadeInv
  <2>4. CASE /\ UNCHANGED <<pipelines, first_free_id, stats>>
             /\ Goto(i, "end")
             /\ UNCHANGED token
    <3>1. token' = [token EXCEPT ![i] = token[i]] /\ token[i] \in Nat
      BY <2>2, <2>4
    <3>2. Starts(i, n)
      BY <1>1, <1>4, <2>4, <3>1 DEF Starts
    <3>3. pc'[i] = "end"
      BY <2>2, <2>4 DEF Goto
    <3> QED BY <2>4, <3>2, <3>3, StartFoundInv
  <2> QED BY <2>1, <2>3, <2>4
<1> QED BY <1>5, <1>6

-----------------------------------------------------------------------------
(* The sampling thread and the application *)

\* A step that leaves the callers, the ids and the counters alone.
LEMMA AloneInv ==
  ASSUME Inv, UNCHANGED <<callerVars, first_free_id>>, SameNames, SameMemory, TypeInv', ThreadInv', ListInv', BillInv'
  PROVE  Inv'
<1>1. \A j \in Callers : SameCaller(j)
  BY DEF SameCaller, callerVars
<1>2. live' = [j \in Callers |-> live'[j]]
  BY DEF Inv, CallersInv, callerVars
<1>3. PICK C : C = {}
  OBVIOUS
<1>4. C \in SUBSET Callers /\ (\A j \in Callers \ C : SameCaller(j)) /\ UNCHANGED first_free_id
  BY <1>1, <1>3
<1>5. \A j \in C : CallerInv(j)' /\ pc[j] \notin {"load", "swap"} /\ UpdateInv(j)'
  BY <1>3
<1> QED BY <1>2, <1>4, <1>5, QuietStep

\* A step that leaves the entries alone too.
LEMMA OutsideInv ==
  ASSUME Inv, UNCHANGED <<callerVars, first_free_id, pipelines, stats, work>>, ThreadInv',
         sampler' \in {"none", "start", "check", "sample", "bill", "sleep", "done"}, app' \in {"idle", "join"},
         sampling_thread' \in BOOLEAN, current_func' = current_func \/ current_func' = please_stop
  PROVE  Inv'
<1>0. TypeInv /\ ListInv /\ BillInv
  BY DEF Inv
<1>1. /\ SameNames /\ SameMemory /\ SameNext /\ KeepsRunning /\ UNCHANGED <<callerVars, first_free_id>>
      /\ DOMAIN stats' = DOMAIN stats /\ UNCHANGED pipelines
  BY DEF SameNames, SameMemory, SameNext, KeepsRunning, callerVars
<1>2. please_stop \in Int /\ ~(please_stop >= 0)
  BY SMTT(30) DEF please_stop
<1>3. TypeInv'
  BY <1>0, <1>2 DEF TypeInv, callerVars
<1>4. ListInv'
  BY <1>0, <1>1, SameListInv
<1>5. BillInv'
  <2>1. CASE current_func' = current_func
    BY <1>0, <1>1, <2>1, SameBillInv
  <2>2. CASE current_func' = please_stop
    BY <1>2, <2>2 DEF BillInv
  <2> QED BY <2>1, <2>2
<1> QED BY <1>1, <1>3, <1>4, <1>5, AloneInv

\* The sampling thread, as it takes the lock, keeps the invariant.
LEMMA AcquireInv == ASSUME Inv, Acquire PROVE Inv'
<1>1. /\ ThreadInv /\ sampler \in {"start", "sleep"} /\ sampler' \in {"check", "sample"}
      /\ UNCHANGED <<stateVars, current_func, stats, app, callerVars>> /\ TypeInv
  BY DEF Acquire, Inv
<1>2. ThreadInv'
  BY <1>1 DEF ThreadInv, Quiet, At, stateVars, callerVars, please_stop
<1> QED BY <1>1, <1>2, OutsideInv DEF stateVars, TypeInv

\* The sampling thread, as it looks whether it has to stop, keeps the invariant.
LEMMA CheckInv == ASSUME Inv, Check PROVE Inv'
<1>1. /\ ThreadInv /\ sampler = "check" /\ sampler' = IF current_func = please_stop THEN "done" ELSE "sample"
      /\ UNCHANGED <<stateVars, current_func, stats, app, callerVars>> /\ TypeInv
  BY DEF Check, Inv
<1>2. ThreadInv'
  BY <1>1 DEF ThreadInv, Quiet, At, stateVars, callerVars, please_stop
<1>3. sampler' \in {"done", "sample"}
  BY <1>1
<1> QED BY <1>1, <1>2, <1>3, OutsideInv DEF stateVars, TypeInv

\* halide_profiler_shutdown, as it tells the thread to stop, keeps the invariant.
LEMMA ShutdownInv == ASSUME Inv, Shutdown PROVE Inv'
<1>1. /\ ThreadInv /\ Quiet /\ sampling_thread /\ app = "idle" /\ current_func' = please_stop /\ app' = "join"
      /\ UNCHANGED <<stateVars, stats, sampler, callerVars>> /\ TypeInv
  BY DEF Shutdown, Inv, samplerVars
<1>2. ThreadInv'
  BY <1>1 DEF ThreadInv, Quiet, At, stateVars, callerVars, please_stop
<1> QED BY <1>1, <1>2, OutsideInv DEF stateVars, TypeInv

\* What bill_func does to an entry e that is not the first.
Bubbles(p, e) ==
  /\ p \in DOMAIN stats /\ e \in DOMAIN stats /\ stats[p].next = e
  /\ stats' = [stats EXCEPT ![p].next = stats[e].next, ![e].next = pipelines] /\ pipelines' = e

\* The pointers after that.
LEMMA BubblesLinks ==
  ASSUME TypeInv, NEW p, NEW e, p # e, Bubbles(p, e)
  PROVE  /\ SameNames /\ SameMemory /\ StatsTyped'
         /\ stats'[e].next = pipelines /\ stats'[p].next = stats[e].next
         /\ \A q \in DOMAIN stats \ {p, e} : stats'[q].next = stats[q].next
<1>1. p \in DOMAIN stats /\ e \in DOMAIN stats
  BY DEF Bubbles
<1>2. stats[p] \in Records /\ stats[e] \in Records /\ stats[e].next \in Pointers /\ pipelines \in Pointers
  BY <1>1 DEF TypeInv, Records
<1>3. PICK r : r = [stats[p] EXCEPT !.next = stats[e].next]
  OBVIOUS
<1>4. PICK s : s = [stats[e] EXCEPT !.next = pipelines]
  OBVIOUS
<1>5. /\ r \in Records /\ r.name = stats[p].name /\ r.next = stats[e].next
      /\ r.first_func_id = stats[p].first_func_id /\ r.memory = stats[p].memory
  BY <1>2, <1>3 DEF Records
<1>6. /\ s \in Records /\ s.name = stats[e].name /\ s.next = pipelines
      /\ s.first_func_id = stats[e].first_func_id /\ s.memory = stats[e].memory
  BY <1>2, <1>4 DEF Records
<1>7. stats' = [[stats EXCEPT ![p] = r] EXCEPT ![e] = s]
  <2>1. stats' = [stats EXCEPT ![p].next = stats[e].next, ![e].next = pipelines]
    BY DEF Bubbles
  <2> QED BY <1>1, <1>3, <1>4, <2>1
<1>8. DOMAIN stats' = DOMAIN stats /\ stats'[p] = r /\ stats'[e] = s
      /\ \A q \in DOMAIN stats \ {p, e} : stats'[q] = stats[q]
  BY <1>1, <1>7
<1>9. \A q \in DOMAIN stats : q = p \/ q = e \/ stats'[q] = stats[q]
  BY <1>8
<1>10. SameNames /\ SameMemory
  BY <1>5, <1>6, <1>8, <1>9 DEF SameNames, SameMemory
<1>11. DOMAIN stats \subseteq Addresses /\ stats \in [DOMAIN stats -> Records]
       /\ \A q \in DOMAIN stats : stats[q].memory \in [Slots(stats[q].name) -> Counters]
  BY DEF TypeInv
<1>12. stats' \in [DOMAIN stats' -> Records]
  BY <1>5, <1>6, <1>7, <1>8, <1>11
<1>13. \A q \in DOMAIN stats' : stats'[q].memory \in [Slots(stats'[q].name) -> Counters]
  BY <1>8, <1>10, <1>11 DEF SameNames, SameMemory
<1>14. StatsTyped'
  BY <1>8, <1>11, <1>12, <1>13 DEF StatsTyped
<1> QED BY <1>5, <1>6, <1>8, <1>10, <1>14

\* The entry e is at the head of the list, which is otherwise as it was.
LEMMA BubblesList ==
  ASSUME TypeInv, ListInv, NEW p, NEW e, Bubbles(p, e)
  PROVE  p # e /\ ListInv'
<1> DEFINE S == DOMAIN stats
<1>1. PICK rank \in [Addresses -> Int] : IsList(S, pipelines, NextOf, rank, NULL)
  BY DEF ListInv, IsStatsList
<1>2. S \subseteq Addresses /\ NULL \notin S /\ p \in S /\ e \in S /\ NextOf[p] = e /\ pipelines' = e
  BY StepsNat DEF TypeInv, Bubbles, NextOf
<1>3. \A x \in S : rank[x] \in Int
  BY <1>1, <1>2
<1> HIDE DEF S
<1>4. IsNext(S, p, e, rank) /\ rank[p] <= rank[pipelines] /\ pipelines \in S
  BY <1>1, <1>2 DEF IsList
<1>5. p # e /\ pipelines # e
  BY <1>2, <1>3, <1>4, SMTT(30) DEF IsNext
<1>6. /\ SameNames /\ stats'[e].next = pipelines /\ stats'[p].next = stats[e].next
      /\ \A q \in DOMAIN stats \ {p, e} : stats'[q].next = stats[q].next
  BY <1>5, BubblesLinks
<1>7. PICK nxt2 : nxt2 = NextOf'
  OBVIOUS
<1>8. nxt2[e] = pipelines /\ nxt2[p] = NextOf[e] /\ \A q \in S \ {p, e} : nxt2[q] = NextOf[q]
  BY <1>2, <1>6, <1>7 DEF NextOf, SameNames, S
<1>9. \A x \in S : NextOf[x] = e => x = p
  BY <1>1, <1>2, <1>3, OnePredecessor
<1>10. \A x \in S \ {e} : nxt2[x] = IF NextOf[x] = e THEN NextOf[e] ELSE NextOf[x]
  BY <1>2, <1>8, <1>9
<1>11. PICK nxt : nxt = NextOf
  OBVIOUS
<1>12. IsList(S \ {e}, pipelines, nxt2, rank, NULL)
  <2>1. PICK h : h = pipelines
    OBVIOUS
  <2>2. /\ IsList(S, h, nxt, rank, NULL) /\ h # e
        /\ \A x \in S \ {e} : nxt2[x] = IF nxt[x] = e THEN nxt[e] ELSE nxt[x]
    BY <1>1, <1>5, <1>10, <1>11, <2>1
  <2>3. IsList(S \ {e}, IF h = e THEN nxt[e] ELSE h, nxt2, rank, NULL)
    BY <1>2, <1>3, <2>2, ListRemove
  <2> QED BY <2>1, <2>2, <2>3
<1>13. PICK top \in Int : \A x \in S : rank[x] < top
  BY <1>1, <1>2, RankAbove
<1>14. PICK rank2 : rank2 = [rank EXCEPT ![e] = top]
  OBVIOUS
<1>15. rank2 \in [Addresses -> Int] /\ rank2[e] = top /\ \A x \in S \ {e} : rank2[x] = rank[x]
  BY <1>1, <1>2, <1>13, <1>14
<1>16. IsList((S \ {e}) \cup {e}, e, nxt2, rank2, NULL)
  BY <1>2, <1>3, <1>8, <1>12, <1>13, <1>15, ListPush, SMTT(30)
<1>17. (S \ {e}) \cup {e} = DOMAIN stats'
  BY <1>2, <1>6 DEF S, SameNames
<1>18. ListInv'
  BY <1>2, <1>7, <1>15, <1>16, <1>17 DEF ListInv, IsStatsList
<1> QED BY <1>5, <1>18

\* An entry that is not the first has one before it.
LEMMA EntryBefore ==
  ASSUME TypeInv, ListInv, NEW k \in 1..Steps + 1, ~(k < 2), Entry[k] \in DOMAIN stats
  PROVE  Entry[k - 1] \in DOMAIN stats /\ stats[Entry[k - 1]].next = Entry[k]
<1>1. k \in 2..Steps + 1
  BY StepsNat, SMTT(30)
<1>2. Entry[k] = After(Entry[k - 1])
  BY <1>1, EntryWalks
<1>3. NULL \notin DOMAIN stats
  BY StepsNat DEF TypeInv
<1> QED BY <1>2, <1>3 DEF After

\* bill_func moves an entry to the head, or leaves the list as it is.
LEMMA BillFuncMoves ==
  ASSUME TypeInv, ListInv, NEW id, BillFunc(id)
  PROVE  UNCHANGED <<stats, pipelines>> \/ \E p, e : Bubbles(p, e)
<1> DEFINE A == {p \in DOMAIN stats : HoldsId(p, id)}
<1>1. PICK k : k = FirstOf(A)
  OBVIOUS
<1>2. (k = 0 /\ A = {}) \/ (k \in 1..Steps + 1 /\ Entry[k] \in A)
  BY <1>1, FirstFound
<1>3. IF k < 2 THEN UNCHANGED <<stats, pipelines>>
      ELSE stats' = Unlink(k) /\ pipelines' = Entry[k]
  BY <1>1 DEF BillFunc
<1>4. CASE ~(k < 2)
  <2>1. 0 < 2
    BY SMTT(30)
  <2>2. k \in 1..Steps + 1 /\ Entry[k] \in DOMAIN stats
    BY <1>2, <1>4, <2>1
  <2>3. Entry[k - 1] \in DOMAIN stats /\ stats[Entry[k - 1]].next = Entry[k]
    BY <1>4, <2>2, EntryBefore
  <2>4. Bubbles(Entry[k - 1], Entry[k])
    BY <1>3, <1>4, <2>2, <2>3 DEF Bubbles, Unlink
  <2> QED BY <2>4
<1> QED BY <1>3, <1>4

\* The sampling thread, as it reads the current func, keeps the invariant.
LEMMA SampleInv == ASSUME Inv, Sample PROVE Inv'
<1>1. /\ ThreadInv /\ sampler = "sample" /\ sampler' = "bill"
      /\ UNCHANGED <<stateVars, current_func, stats, app, callerVars>> /\ TypeInv
  BY DEF Sample, Inv
<1>2. ThreadInv'
  BY <1>1 DEF ThreadInv, Quiet, At, stateVars, callerVars, please_stop
<1> QED BY <1>1, <1>2, OutsideInv DEF stateVars, TypeInv

\* The sampling thread, as it bills the func that it has read, keeps the invariant.
LEMMA BillKeepsInv == ASSUME Inv, Bill PROVE Inv'
<1>0. TypeInv /\ ThreadInv /\ ListInv /\ BillInv
  BY DEF Inv
<1>1. /\ sampler = "bill" /\ sampler' \in {"check", "sleep"}
      /\ UNCHANGED <<stats, pipelines>> \/ BillFunc(func)
      /\ UNCHANGED <<work, first_free_id, sampling_thread, current_func, app, callerVars>>
  BY DEF Bill
<1>2. ThreadInv'
  BY <1>0, <1>1 DEF ThreadInv, Quiet, At, callerVars, please_stop
<1>3. CASE UNCHANGED <<stats, pipelines>>
  BY <1>0, <1>1, <1>2, <1>3, OutsideInv DEF TypeInv
<1>4. CASE \E p, e : Bubbles(p, e)
  <2>1. PICK p, e : Bubbles(p, e)
    BY <1>4
  <2>2. p # e /\ ListInv'
    BY <1>0, <2>1, BubblesList
  <2>3. SameNames /\ SameMemory /\ StatsTyped'
    BY <1>0, <2>1, <2>2, BubblesLinks
  <2>4. pipelines' \in Pointers
    BY <1>0, <2>1 DEF Bubbles, TypeInv, Pointers
  <2>5. TypeInv'
    BY <1>0, <1>1, <2>3, <2>4 DEF TypeInv, StatsTyped, callerVars
  <2>6. KeepsRunning
    BY <1>1 DEF KeepsRunning, callerVars
  <2>7. BillInv'
    BY <1>0, <1>1, <2>3, <2>6, SameBillInv
  <2> QED BY <1>1, <1>2, <2>2, <2>3, <2>5, <2>7, AloneInv
<1> QED BY <1>0, <1>1, <1>3, <1>4, BillFuncMoves

\* Once every entry is freed while nobody runs, nothing is left to be wrong.
LEMMA EmptiedInv ==
  ASSUME Inv, Quiet, ResetUnlocked, UNCHANGED <<work, callerVars>>, ThreadInv',
         sampler' \in {"none", "start", "check", "sample", "bill", "sleep", "done"}, app' \in {"idle", "join"},
         sampling_thread' \in BOOLEAN, current_func' = current_func \/ current_func' = outside_of_halide
  PROVE  Inv'
<1>0. TypeInv /\ ListInv /\ CallersInv /\ BillInv /\ \A i \in Callers : pc[i] = "out" /\ CallerInv(i)
  BY DEF Inv, CallersInv, Quiet, At
<1>1. DOMAIN stats' = {} /\ stats' \in [DOMAIN stats' -> Records] /\ pipelines' = NULL /\ first_free_id' = 0
  <2>1. DOMAIN stats \ Listed = {}
    BY <1>0, ListedStats
  <2>2. stats' = [p \in {} |-> stats[p]]
    BY <2>1 DEF ResetUnlocked
  <2> QED BY <2>2 DEF ResetUnlocked
<1>2. outside_of_halide \in Int /\ ~(outside_of_halide >= 0) /\ 0 \in Nat
  BY SMTT(30) DEF outside_of_halide
<1>3. TypeInv'
  BY <1>0, <1>1, <1>2 DEF TypeInv, callerVars, Pointers
<1>4. ListInv'
  <2>1. \E rank : rank \in [Addresses -> Int]
    <3>1. [x \in Addresses |-> 0] \in [Addresses -> Int]
      BY SMTT(30)
    <3> QED BY <3>1
  <2>2. \A rank : IsStatsList(rank)'
    BY <1>1 DEF IsStatsList, IsList
  <2> QED BY <2>1, <2>2 DEF ListInv
<1>5. IdInv'
  BY <1>1 DEF IdInv
<1>6. \A i \in Callers : pc'[i] = "out" /\ p_stats'[i] = NULL
  BY <1>0 DEF CallerInv, callerVars
<1>7. CallersInv'
  <2>1. \A i \in Callers : CallerInv(i)'
    BY <1>6 DEF CallerInv, Updating
  <2> QED BY <1>0, <2>1 DEF CallersInv, callerVars
<1>8. BillInv'
  <2>1. ~(current_func' >= 0) \/ current_func' = 0
    <3>1. current_func >= 0 => current_func = 0
      BY <1>0 DEF BillInv
    <3>2. CASE current_func' = current_func
      BY <3>1, <3>2
    <3>3. CASE current_func' = outside_of_halide
      BY <1>2, <3>3
    <3> QED BY <3>2, <3>3
  <2> QED BY <1>1, <2>1 DEF BillInv
<1>9. PeakInv'
  BY <1>1, <1>6 DEF PeakInv, UpdateInv, PeakExact
<1> QED BY <1>3, <1>4, <1>5, <1>7, <1>8, <1>9 DEF Inv

\* halide_profiler_reset keeps the invariant.
LEMMA ResetInv == ASSUME Inv, Reset PROVE Inv'
<1>1. /\ TypeInv /\ ThreadInv /\ Quiet /\ ResetUnlocked
      /\ UNCHANGED <<work, sampling_thread, current_func, sampler, app, callerVars>>
  BY DEF Reset, Inv, samplerVars
<1>2. ThreadInv'
  BY <1>1 DEF ThreadInv, Quiet, At, callerVars, please_stop
<1> QED BY <1>1, <1>2, EmptiedInv DEF TypeInv

\* halide_profiler_shutdown, once it has joined the thread, keeps the invariant.
LEMMA JoinedInv == ASSUME Inv, Joined PROVE Inv'
<1>1. /\ TypeInv /\ ThreadInv /\ ResetUnlocked /\ app = "join" /\ sampling_thread' = FALSE /\ sampler' = "none"
      /\ current_func' = outside_of_halide /\ app' = "idle" /\ UNCHANGED <<work, callerVars>>
  BY DEF Joined, Inv, handle_after_join
<1>2. Quiet /\ Quiet'
  BY <1>1 DEF ThreadInv, Quiet, At, callerVars
<1>3. current_func' # please_stop
  BY <1>1, SMTT(30) DEF outside_of_halide, please_stop
<1>4. ThreadInv'
  BY <1>1, <1>2, <1>3 DEF ThreadInv
<1> QED BY <1>1, <1>2, <1>4, EmptiedInv

\* The profiler starts in the invariant.
LEMMA InitInv == Init => Inv
<1> SUFFICES ASSUME Init PROVE Inv
  OBVIOUS
<1>1. DOMAIN stats = {} /\ stats \in [DOMAIN stats -> Records]
  BY DEF Init
<1>2. 0 \in Nat /\ 0 \in Int /\ 0 # please_stop /\ NoUpdate \in Updates
  BY SMTT(30) DEF please_stop, NoUpdate, Updates
<1>3. TypeInv
  <2>1. /\ pc \in [Callers -> Labels] /\ name \in [Callers -> Names \cup {NULL}] /\ token \in [Callers -> Nat]
        /\ p_stats \in [Callers -> Pointers] /\ update \in [Callers -> Updates]
    BY <1>2 DEF Init, Labels, Pointers
  <2> QED BY <1>1, <1>2, <2>1 DEF TypeInv, Init, Pointers
<1>4. ThreadInv
  BY <1>2 DEF ThreadInv, Init, Quiet, At
<1>5. ListInv
  <2>1. \E rank : rank \in [Addresses -> Int]
    <3>1. [x \in Addresses |-> 0] \in [Addresses -> Int]
      BY SMTT(30)
    <3> QED BY <3>1
  <2>2. \A rank : IsStatsList(rank)
    BY <1>1 DEF IsStatsList, IsList, Init
  <2> QED BY <2>1, <2>2 DEF ListInv
<1>6. IdInv
  BY <1>1 DEF IdInv, Init
<1>7. \A i \in Callers : pc[i] = "out" /\ p_stats[i] = NULL
  BY DEF Init
<1>8. CallersInv
  <2>1. \A i \in Callers : CallerInv(i)
    BY <1>7 DEF CallerInv, Updating
  <2>2. live = [i \in Callers |-> live[i]]
    BY DEF Init
  <2> QED BY <2>1, <2>2 DEF CallersInv
<1>9. BillInv
  BY <1>1 DEF BillInv, Init
<1>10. PeakInv
  BY <1>1, <1>7 DEF PeakInv, UpdateInv, PeakExact
<1> QED BY <1>3, <1>4, <1>5, <1>6, <1>8, <1>9, <1>10 DEF Inv

\* Every step keeps the invariant.
LEMMA InvStep == Inv /\ [Next]_vars => Inv'
<1> SUFFICES ASSUME Inv, [Next]_vars PROVE Inv'
  OBVIOUS
<1>1. CASE SamplerNext
  BY <1>1, AcquireInv, CheckInv, SampleInv, BillKeepsInv DEF SamplerNext
<1>2. CASE Reset
  BY <1>2, ResetInv
<1>3. CASE Shutdown
  BY <1>3, ShutdownInv
<1>4. CASE Joined
  BY <1>4, JoinedInv
<1>5. ASSUME NEW i \in Callers, CallerNext(i) PROVE Inv'
  <2>1. CASE \E n \in work.names : Start(i, n)
    BY <2>1, StartInv
  <2>2. CASE GetState(i)
    BY <2>2, GetStateInv
  <2>3. CASE Finish(i) \/ Fail(i)
    BY <2>3, ToEndInv DEF Finish, Fail, At, samplerVars
  <2>4. CASE End(i)
    BY <2>4, EndInv
  <2>5. CASE \E f \in UNION {Funcs(n) : n \in work.names} :
               SetCurrentFunc(i, f) \/ MemoryFree(i, f) \/ \E size \in work.sizes : MemoryAllocate(i, f, size)
    BY <2>5, SetCurrentFuncInv, MemoryFreeInv, MemoryAllocateInv
  <2>6. CASE LoadPeak(i) \/ SwapPeak(i) \/ AddFunc(i) \/ FreeFunc(i)
    BY <2>6, LoadPeakInv, SwapPeakInv, AddFuncInv, FreeFuncInv
  <2> QED BY <1>5, <2>1, <2>2, <2>3, <2>4, <2>5, <2>6 DEF CallerNext
<1>6. CASE UNCHANGED vars
  <2>1. /\ UNCHANGED <<callerVars, first_free_id, pipelines, stats, work>>
        /\ UNCHANGED <<sampler, app, sampling_thread, current_func>>
    BY <1>6 DEF vars, stateVars, samplerVars
  <2>2. ThreadInv'
    BY <2>1 DEF Inv, ThreadInv, Quiet, At, callerVars
  <2> QED BY <2>1, <2>2, OutsideInv DEF Inv, TypeInv
<1> QED BY <1>1, <1>2, <1>3, <1>4, <1>5, <1>6 DEF Next

\* The invariant holds in every state.
THEOREM InvHolds == Spec => []Inv
BY InitInv, InvStep, PTL DEF Spec

-----------------------------------------------------------------------------
(* What is billed *)

\* The func that the sampling thread has read is one of a pipeline that ran then.
FuncInv ==
  /\ func \in Int /\ ran \subseteq Names \cup {NULL}
  /\ sampler = "bill" /\ func >= 0 =>
       DOMAIN stats = {} \/ \E p \in DOMAIN stats : HoldsId(p, func) /\ stats[p].name \in ran

\* It stays so while the entries keep their names and ids.
LEMMA SameFuncInv ==
  ASSUME FuncInv, SameNames, UNCHANGED samplerVars
  PROVE  FuncInv'
<1>1. \A p \in DOMAIN stats : HoldsId(p, func)' <=> HoldsId(p, func)
  BY DEF SameNames, HoldsId, samplerVars
<1> QED BY <1>1 DEF FuncInv, SameNames, samplerVars

\* The reading itself: current_func belongs to a pipeline that runs.
LEMMA SampleFunc == ASSUME Inv, Sample PROVE FuncInv'
<1>1. /\ func' = current_func /\ ran' = {name[i] : i \in {j \in Callers : pc[j] # "out"}}
      /\ stats' = stats
  BY DEF Sample, At
<1>2. TypeInv /\ BillInv
  BY DEF Inv
<1>3. func' \in Int /\ ran' \subseteq Names \cup {NULL}
  BY <1>1, <1>2 DEF TypeInv
<1>4. ASSUME func' >= 0, DOMAIN stats # {}
      PROVE  \E p \in DOMAIN stats' : HoldsId(p, func)' /\ stats'[p].name \in ran'
  <2>1. PICK i \in Callers, p \in DOMAIN stats : pc[i] # "out" /\ Runs(i, p) /\ HoldsId(p, current_func)
    BY <1>1, <1>2, <1>4 DEF BillInv
  <2>2. HoldsId(p, func)' /\ stats'[p].name \in ran' /\ p \in DOMAIN stats'
    BY <1>1, <2>1 DEF HoldsId, Runs
  <2> QED BY <2>2
<1> QED BY <1>1, <1>3, <1>4 DEF FuncInv

\* Setting a memory counter leaves the names and ids alone.
LEMMA SetMemoryNames ==
  ASSUME TypeInv, NEW i \in Callers, NEW slot, NEW m, SetMemory(i, slot, m)
  PROVE  SameNames
<1>1. PICK p : p = p_stats[i]
  OBVIOUS
<1>2. PICK f : f = [stats[p].memory EXCEPT ![slot] = m]
  OBVIOUS
<1>3. stats' = [stats EXCEPT ![p] = [stats[p] EXCEPT !.memory = f]]
  BY <1>1, <1>2 DEF SetMemory
<1>4. ASSUME NEW q \in DOMAIN stats
      PROVE  stats'[q].name = stats[q].name /\ stats'[q].first_func_id = stats[q].first_func_id
  <2>1. stats[q] \in Records
    BY DEF TypeInv
  <2>2. CASE q = p
    BY <1>3, <2>1, <2>2 DEF Records
  <2>3. CASE q # p
    BY <1>3, <2>3
  <2> QED BY <2>2, <2>3
<1>5. DOMAIN stats' = DOMAIN stats
  BY <1>3
<1> QED BY <1>4, <1>5 DEF SameNames

\* A call of a running pipeline leaves the sampling thread alone, and sets a counter at most.
LEMMA CallerFunc ==
  ASSUME TypeInv, FuncInv, NEW i \in Callers, CallerNext(i), sampler = "bill"
  PROVE  FuncInv'
<1>1. ~LockFree
  BY DEF LockFree
<1>2. /\ UNCHANGED samplerVars
      /\ UNCHANGED stats \/ \E slot, m : SetMemory(i, slot, m)
  BY <1>1 DEF CallerNext, Start, GetState, Finish, Fail, End, SetCurrentFunc, MemoryFree, MemoryAllocate,
              LoadPeak, SwapPeak, AddFunc, FreeFunc, AddCurrent, CompareAndSwap, SubCurrent
<1>3. SameNames
  BY <1>2, SetMemoryNames DEF SameNames
<1> QED BY <1>2, <1>3, SameFuncInv

\* Every step keeps what is said of the func that was read.
LEMMA FuncStep == Inv /\ FuncInv /\ [Next]_vars => FuncInv'
<1> SUFFICES ASSUME Inv, FuncInv, [Next]_vars PROVE FuncInv'
  OBVIOUS
<1>0. TypeInv
  BY DEF Inv
<1>1. CASE Sample
  BY <1>1, SampleFunc
<1>2. CASE Acquire \/ Check \/ Bill \/ Reset \/ Joined
  <2>1. sampler' # "bill"
    BY <1>2 DEF Acquire, Check, Bill, Reset, Joined, LockFree, samplerVars
  <2>2. (func' = func /\ ran' = ran) \/ (func' = outside_of_halide /\ ran' = {})
    BY <1>2 DEF Acquire, Check, Bill, Reset, Joined, samplerVars
  <2>3. outside_of_halide \in Int
    BY SMTT(30) DEF outside_of_halide
  <2> QED BY <2>1, <2>2, <2>3 DEF FuncInv
<1>3. CASE Shutdown \/ UNCHANGED vars
  <2>1. UNCHANGED stats /\ UNCHANGED samplerVars
    BY <1>3 DEF Shutdown, vars
  <2> QED BY <2>1, SameFuncInv DEF SameNames
<1>4. ASSUME NEW i \in Callers, CallerNext(i) PROVE FuncInv'
  <2>1. CASE sampler = "bill"
    BY <1>0, <1>4, <2>1, CallerFunc
  <2>2. CASE sampler # "bill"
    <3>1. func' = func /\ ran' = ran /\ sampler' \in {sampler, "start"}
      BY <1>4 DEF CallerNext, Start, GetState, Finish, Fail, End, SetCurrentFunc, MemoryFree, MemoryAllocate,
                  LoadPeak, SwapPeak, AddFunc, FreeFunc, samplerVars
    <3> QED BY <2>2, <3>1 DEF FuncInv
  <2> QED BY <2>1, <2>2
<1> QED BY <1>1, <1>2, <1>3, <1>4 DEF Next, SamplerNext

-----------------------------------------------------------------------------
(* What is allocated *)

\* The update of the func's counter is still to come.
Adding(i) == pc[i] = "func" \/ (pc[i] \in {"load", "swap"} /\ update[i].slot = -1)

\* An allocation of caller i for func f counts for a slot of its pipeline's counters
\* from the addition to the slot on until the subtraction from it.
Counted(p, slot, i, f) ==
  /\ p_stats[i] = p /\ pc[i] \in Updating /\ f \in Funcs(name[i]) /\ live[i][f] > 0
  /\ \/ slot = -1 /\ ~(pc[i] = "free" /\ update[i].func = f)
     \/ slot = f /\ ~(Adding(i) /\ update[i].func = f)
Allocations(p, slot) == {x \in Callers \X Int : Counted(p, slot, x[1], x[2])}
Amounts == [x \in Callers \X Int |-> live[x[1]][x[2]]]

\* A counter of value c covers the amounts w of the allocations S.
Covers(S, w, c) == IsFiniteSet(S) /\ SumOver(S, w) <= c

\* A counter is at least what is allocated: a pipeline that fails never frees.
CounterInv(p, slot) ==
  LET m == stats[p].memory[slot]
  IN  /\ Covers(Allocations(p, slot), Amounts, m.current)
      /\ m.peak \in Nat /\ m.top \in Nat
AmountsInv(i) ==
  /\ pc[i] \in Updating => \A f \in Funcs(name[i]) : live[i][f] \in Nat
  /\ pc[i] \in {"load", "swap"} => update[i].val \in Nat
  /\ Adding(i) => update[i].size = live[i][update[i].func] /\ update[i].size > 0
  /\ pc[i] = "free" => live[i][update[i].func] > 0
MemoryInv ==
  /\ \A p \in DOMAIN stats : \A slot \in Slots(stats[p].name) : CounterInv(p, slot)
  /\ \A i \in Callers : AmountsInv(i)

\* A counter that covers some allocations, or a larger one, covers fewer of them.
LEMMA CoversFewer ==
  ASSUME NEW S, NEW w, \A y \in S : w[y] \in Nat, NEW c \in Int, Covers(S, w, c),
         NEW T, T \subseteq S, NEW v, \A y \in T : v[y] = w[y], NEW d \in Int, c <= d
  PROVE  Covers(T, v, d)
<1>1. IsFiniteSet(S) /\ SumOver(S, w) <= c
  BY DEF Covers
<1>2. IsFiniteSet(T) /\ SumOver(T, w) \in Nat /\ SumOver(T, w) <= SumOver(S, w) /\ SumOver(S, w) \in Nat
  BY <1>1, SumSubset, SumFinite
<1>3. SumOver(T, v) = SumOver(T, w)
  BY SumSame
<1>4. SumOver(T, v) <= d
  BY <1>1, <1>2, <1>3, SMTT(30)
<1> QED BY <1>2, <1>4 DEF Covers

\* The allocations T with amounts v are among those of S and w, and x.
WithOne(T, v, S, w, x) == x \notin S /\ T \subseteq S \cup {x} /\ \A y \in T : y # x => v[y] = w[y]

\* A counter to which the amount of one more allocation is added covers that too.
LEMMA CoversMore ==
  ASSUME NEW S, NEW w, \A y \in S : w[y] \in Nat, NEW c \in Int, Covers(S, w, c),
         NEW x, NEW T, NEW v, WithOne(T, v, S, w, x), v[x] \in Nat
  PROVE  Covers(T, v, c + v[x])
<1>1. /\ IsFiniteSet(S) /\ SumOver(S, w) <= c
      /\ x \notin S /\ T \subseteq S \cup {x} /\ \A y \in T : y # x => v[y] = w[y]
  BY DEF Covers, WithOne
<1> DEFINE z == [y \in S \cup {x} |-> IF y = x THEN v[x] ELSE w[y]]
           U == S \cup {x}
<1>2. (\A y \in S : z[y] = w[y] /\ z[y] \in Nat) /\ z[x] = v[x] /\ z[x] \in Nat
  BY <1>1
<1>3. (\A y \in U : z[y] \in Nat) /\ (\A y \in T : v[y] = z[y]) /\ T \subseteq U
  BY <1>1
<1> HIDE DEF z, U
<1>4. SumOver(S, z) = SumOver(S, w) /\ SumOver(S, w) \in Nat
  BY <1>1, <1>2, SumSame, SumFinite
<1>5. SumOver(S \cup {x}, z) = SumOver(S, z) + z[x]
  <2>1. IsFiniteSet(S) /\ (\A y \in S : z[y] \in Nat) /\ x \notin S /\ z[x] \in Nat
    BY <1>1, <1>2
  <2> QED BY <2>1, SumAdd
<1>6. SumOver(U, z) = SumOver(S, w) + v[x]
  BY <1>2, <1>4, <1>5 DEF U
<1>7. IsFiniteSet(U)
  BY <1>1, FS_AddElement DEF U
<1>8. c + v[x] \in Int /\ SumOver(U, z) <= c + v[x] /\ c + v[x] <= c + v[x]
  BY <1>1, <1>4, <1>6, SMTT(30)
<1>9. Covers(U, z, c + v[x])
  BY <1>7, <1>8 DEF Covers
<1> QED BY <1>3, <1>8, <1>9, CoversFewer

\* A counter from which the amount of an allocation is taken covers the rest.
LEMMA CoversLess ==
  ASSUME NEW S, NEW w, \A y \in S : w[y] \in Nat, NEW c \in Int, Covers(S, w, c),
         NEW x \in S, NEW T, T \subseteq S \ {x}, NEW v, \A y \in T : v[y] = w[y]
  PROVE  Covers(T, v, c - w[x])
<1>1. IsFiniteSet(S) /\ SumOver(S, w) <= c
  BY DEF Covers
<1> DEFINE U == S \ {x}
<1>2. SumOver(U, w) = SumOver(S, w) - w[x] /\ SumOver(S, w) \in Nat /\ w[x] \in Nat
  BY <1>1, SumRemove, SumFinite
<1>3. IsFiniteSet(U) /\ \A y \in U : w[y] \in Nat
  BY <1>1, FS_RemoveElement
<1> HIDE DEF U
<1>4. c - w[x] \in Int /\ SumOver(U, w) <= c - w[x] /\ c - w[x] <= c - w[x]
  BY <1>1, <1>2, SMTT(30)
<1>5. Covers(U, w, c - w[x]) /\ T \subseteq U
  BY <1>3, <1>4 DEF Covers, U
<1> QED BY <1>3, <1>4, <1>5, CoversFewer

\* The allocations that count for a slot, one by one.
IsAllocated(p, slot) ==
  /\ \A j \in Callers, f \in Int : /\ <<j, f>> \in Allocations(p, slot) <=> Counted(p, slot, j, f)
                                   /\ Amounts[<<j, f>>] = live[j][f]
  /\ \A x \in Allocations(p, slot) : \E j \in Callers, f \in Int : x = <<j, f>> /\ Counted(p, slot, j, f)

\* The allocations that count for a slot are allocations of callers for funcs.
LEMMA AllocationsAre == \A p, slot : IsAllocated(p, slot)
<1> SUFFICES ASSUME NEW p, NEW slot PROVE IsAllocated(p, slot)
  OBVIOUS
<1>1. ASSUME NEW j \in Callers, NEW f \in Int
      PROVE  /\ <<j, f>> \in Allocations(p, slot) <=> Counted(p, slot, j, f)
             /\ Amounts[<<j, f>>] = live[j][f]
  <2>1. PICK x : x = <<j, f>>
    OBVIOUS
  <2>2. x \in Callers \X Int /\ x[1] = j /\ x[2] = f
    BY <2>1
  <2>3. x \in Allocations(p, slot) <=> Counted(p, slot, j, f)
    BY <2>2 DEF Allocations
  <2>4. Amounts[x] = live[j][f]
    BY <2>2 DEF Amounts
  <2> QED BY <2>1, <2>3, <2>4
<1>2. ASSUME NEW x \in Allocations(p, slot)
      PROVE  \E j \in Callers, f \in Int : x = <<j, f>> /\ Counted(p, slot, j, f)
  <2>1. x \in Callers \X Int /\ Counted(p, slot, x[1], x[2])
    BY <1>2 DEF Allocations
  <2>2. x[1] \in Callers /\ x[2] \in Int /\ x = <<x[1], x[2]>>
    BY <2>1, SMTT(30)
  <2> QED BY <2>1, <2>2
<1> QED BY <1>1, <1>2 DEF IsAllocated

\* The same of the state after a step.
LEMMA AllocationsNext == \A p, slot : IsAllocated(p, slot)'
<1>1. (\A p, slot : IsAllocated(p, slot))'
  BY AllocationsAre, PTL
<1> QED BY <1>1

\* What is allocated is counted in naturals.
LEMMA AmountsNat ==
  ASSUME \A j \in Callers : AmountsInv(j), NEW p, NEW slot
  PROVE  \A x \in Allocations(p, slot) : Amounts[x] \in Nat
<1> SUFFICES ASSUME NEW x \in Allocations(p, slot) PROVE Amounts[x] \in Nat
  OBVIOUS
<1>1. IsAllocated(p, slot)
  BY AllocationsAre
<1>2. PICK j \in Callers, f \in Int : x = <<j, f>> /\ Counted(p, slot, j, f)
  BY <1>1 DEF IsAllocated
<1>3. Amounts[x] = live[j][f] /\ AmountsInv(j)
  BY <1>1, <1>2 DEF IsAllocated
<1> QED BY <1>2, <1>3 DEF Counted, AmountsInv

\* Nothing new of caller j counts for a slot.
Fewer(p, slot, j) == \A f : Counted(p, slot, j, f)' => Counted(p, slot, j, f) /\ live'[j][f] = live[j][f]

\* A slot of an entry goes from m to r.
Turns(p, slot, m, r) ==
  /\ m \in Counters /\ m = stats[p].memory[slot] /\ r \in Counters /\ r = stats'[p].memory[slot]
  /\ r.peak \in Nat /\ r.top \in Nat

\* A counter that is not lowered while nothing new counts for it.
LEMMA CounterFewer ==
  ASSUME NEW p, NEW slot, CounterInv(p, slot), \A j \in Callers : AmountsInv(j) /\ Fewer(p, slot, j),
         NEW m, NEW r, Turns(p, slot, m, r), m.current <= r.current
  PROVE  CounterInv(p, slot)'
<1>1. PICK S : S = Allocations(p, slot)
  OBVIOUS
<1>2. PICK T : T = Allocations(p, slot)'
  OBVIOUS
<1>3. PICK w : w = Amounts
  OBVIOUS
<1>4. PICK v : v = Amounts'
  OBVIOUS
<1>5. (\A y \in S : w[y] \in Nat) /\ Covers(S, w, m.current) /\ m.current \in Int /\ r.current \in Int
  BY <1>1, <1>3, AmountsNat DEF CounterInv, Turns, Counters
<1>6. ASSUME NEW y \in T PROVE y \in S /\ v[y] = w[y]
  <2>1. IsAllocated(p, slot) /\ IsAllocated(p, slot)'
    BY AllocationsAre, AllocationsNext
  <2>2. PICK j \in Callers, f \in Int : y = <<j, f>> /\ Counted(p, slot, j, f)'
    BY <1>2, <1>6, <2>1 DEF IsAllocated
  <2>3. Counted(p, slot, j, f) /\ live'[j][f] = live[j][f]
    BY <2>2 DEF Fewer
  <2> QED BY <1>1, <1>3, <1>4, <2>1, <2>2, <2>3 DEF IsAllocated
<1>7. Covers(T, v, r.current)
  <2>1. T \subseteq S /\ \A y \in T : v[y] = w[y]
    BY <1>6
  <2> QED BY <1>5, <2>1, CoversFewer
<1> QED BY <1>2, <1>4, <1>7 DEF CounterInv, Turns

\* A counter to which an allocation is added that did not count for it before.
LEMMA CounterMore ==
  ASSUME NEW p, NEW slot, CounterInv(p, slot), \A j \in Callers : AmountsInv(j),
         NEW i \in Callers, NEW f \in Int, ~Counted(p, slot, i, f), live'[i][f] \in Nat,
         \A j \in Callers, g \in Int : Counted(p, slot, j, g)' =>
           (j = i /\ g = f) \/ (Counted(p, slot, j, g) /\ live'[j][g] = live[j][g]),
         NEW m, NEW r, Turns(p, slot, m, r), r.current = m.current + live'[i][f]
  PROVE  CounterInv(p, slot)'
<1>1. PICK S : S = Allocations(p, slot)
  OBVIOUS
<1>2. PICK T : T = Allocations(p, slot)'
  OBVIOUS
<1>3. PICK w : w = Amounts
  OBVIOUS
<1>4. PICK v : v = Amounts'
  OBVIOUS
<1>5. (\A y \in S : w[y] \in Nat) /\ Covers(S, w, m.current) /\ m.current \in Int
  BY <1>1, <1>3, AmountsNat DEF CounterInv, Turns, Counters
<1>6. IsAllocated(p, slot) /\ IsAllocated(p, slot)'
  BY AllocationsAre, AllocationsNext
<1>7. PICK x : x = <<i, f>>
  OBVIOUS
<1>8. x \notin S /\ v[x] = live'[i][f]
  BY <1>1, <1>4, <1>6, <1>7 DEF IsAllocated
<1>9. ASSUME NEW y \in T, y # x PROVE y \in S /\ v[y] = w[y]
  <2>1. PICK j \in Callers, g \in Int : y = <<j, g>> /\ Counted(p, slot, j, g)'
    BY <1>2, <1>6, <1>9 DEF IsAllocated
  <2>2. ~(j = i /\ g = f)
    BY <1>7, <1>9, <2>1
  <2>3. Counted(p, slot, j, g) /\ live'[j][g] = live[j][g]
    BY <2>1, <2>2
  <2> QED BY <1>1, <1>3, <1>4, <1>6, <2>1, <2>3 DEF IsAllocated
<1>10. Covers(T, v, m.current + v[x])
  <2>1. WithOne(T, v, S, w, x) /\ v[x] \in Nat
    BY <1>8, <1>9 DEF WithOne
  <2> QED BY <1>5, <2>1, CoversMore
<1>11. Covers(T, v, r.current)
  BY <1>8, <1>10
<1> QED BY <1>2, <1>4, <1>11 DEF CounterInv, Turns

\* A counter from which an allocation is taken that counts for it no more.
LEMMA CounterLess ==
  ASSUME NEW p, NEW slot, CounterInv(p, slot), \A j \in Callers : AmountsInv(j) /\ Fewer(p, slot, j),
         NEW i \in Callers, NEW f \in Int, Counted(p, slot, i, f), ~Counted(p, slot, i, f)',
         NEW m, NEW r, Turns(p, slot, m, r), r.current = m.current - live[i][f]
  PROVE  CounterInv(p, slot)'
<1>1. PICK S : S = Allocations(p, slot)
  OBVIOUS
<1>2. PICK T : T = Allocations(p, slot)'
  OBVIOUS
<1>3. PICK w : w = Amounts
  OBVIOUS
<1>4. PICK v : v = Amounts'
  OBVIOUS
<1>5. (\A y \in S : w[y] \in Nat) /\ Covers(S, w, m.current) /\ m.current \in Int
  BY <1>1, <1>3, AmountsNat DEF CounterInv, Turns, Counters
<1>6. IsAllocated(p, slot) /\ IsAllocated(p, slot)'
  BY AllocationsAre, AllocationsNext
<1>7. PICK x : x = <<i, f>>
  OBVIOUS
<1>8. x \in S /\ x \notin T /\ w[x] = live[i][f]
  BY <1>1, <1>2, <1>3, <1>6, <1>7 DEF IsAllocated
<1>9. ASSUME NEW y \in T PROVE y \in S /\ v[y] = w[y]
  <2>1. PICK j \in Callers, g \in Int : y = <<j, g>> /\ Counted(p, slot, j, g)'
    BY <1>2, <1>6, <1>9 DEF IsAllocated
  <2>2. Counted(p, slot, j, g) /\ live'[j][g] = live[j][g]
    BY <2>1 DEF Fewer
  <2> QED BY <1>1, <1>3, <1>4, <1>6, <2>1, <2>2 DEF IsAllocated
<1>10. Covers(T, v, m.current - w[x])
  <2>1. T \subseteq S \ {x} /\ \A y \in T : v[y] = w[y]
    BY <1>8, <1>9
  <2> QED BY <1>5, <1>8, <2>1, CoversLess
<1>11. Covers(T, v, r.current)
  BY <1>8, <1>10
<1> QED BY <1>2, <1>4, <1>11 DEF CounterInv, Turns

\* A caller that stays as it is.
LEMMA SameAmounts ==
  ASSUME NEW j, SameCaller(j)
  PROVE  (\A p, slot : Fewer(p, slot, j)) /\ (AmountsInv(j) => AmountsInv(j)')
         /\ \A p, slot, f : Counted(p, slot, j, f)' => Counted(p, slot, j, f) /\ live'[j][f] = live[j][f]
<1>1. \A p, slot, f : Counted(p, slot, j, f)' => Counted(p, slot, j, f) /\ live'[j][f] = live[j][f]
  BY DEF SameCaller, Counted, Adding
<1>2. AmountsInv(j) => AmountsInv(j)'
  BY DEF SameCaller, AmountsInv, Adding
<1> QED BY <1>1, <1>2 DEF Fewer

\* The counters of an entry are counters.
LEMMA SlotTyped ==
  ASSUME TypeInv, NEW p \in DOMAIN stats, NEW slot \in Slots(stats[p].name)
  PROVE  stats[p].memory[slot] \in Counters
BY DEF TypeInv

\* An entry whose counters stay while nothing new counts for them.
LEMMA KeptCounter ==
  ASSUME TypeInv, MemoryInv, NEW p \in DOMAIN stats, NEW slot \in Slots(stats[p].name),
         stats'[p].memory = stats[p].memory, \A j \in Callers : Fewer(p, slot, j)
  PROVE  CounterInv(p, slot)'
<1>1. PICK m : m = stats[p].memory[slot]
  OBVIOUS
<1>2. m \in Counters /\ CounterInv(p, slot) /\ \A j \in Callers : AmountsInv(j)
  BY <1>1, SlotTyped DEF MemoryInv
<1>3. m.peak \in Nat /\ m.top \in Nat /\ m.current \in Int
  BY <1>1, <1>2 DEF CounterInv, Counters
<1>4. m.current <= m.current
  BY <1>3, SMTT(30)
<1>5. Turns(p, slot, m, m)
  BY <1>1, <1>2, <1>3 DEF Turns
<1> QED BY <1>2, <1>4, <1>5, CounterFewer

\* Callers come and go without a new allocation, and the counters stay.
LEMMA QuietMemory ==
  ASSUME Inv, MemoryInv, SameNames, SameMemory,
         \A j \in Callers : SameCaller(j) \/ (AmountsInv(j)' /\ \A p, slot : Fewer(p, slot, j))
  PROVE  MemoryInv'
<1>1. \A j \in Callers : AmountsInv(j)' /\ \A p, slot : Fewer(p, slot, j)
  BY SameAmounts DEF MemoryInv
<1>2. ASSUME NEW p \in DOMAIN stats', NEW slot \in Slots(stats'[p].name)
      PROVE  CounterInv(p, slot)'
  <2>1. p \in DOMAIN stats /\ slot \in Slots(stats[p].name) /\ stats'[p].memory = stats[p].memory
    BY <1>2 DEF SameNames, SameMemory
  <2> QED BY <1>1, <2>1, KeptCounter DEF Inv
<1> QED BY <1>1, <1>2 DEF MemoryInv

\* Nobody does anything with allocations.
LEMMA OutsideMemory ==
  ASSUME Inv, MemoryInv, SameNames, SameMemory, UNCHANGED callerVars
  PROVE  MemoryInv'
<1>1. \A j \in Callers : SameCaller(j)
  BY DEF SameCaller, callerVars
<1> QED BY <1>1, QuietMemory

\* A caller that is not in the body of a pipeline has allocated nothing.
LEMMA NoneAllocated ==
  ASSUME NEW i, pc'[i] \notin Updating
  PROVE  AmountsInv(i)' /\ \A p, slot : Fewer(p, slot, i)
<1>1. AmountsInv(i)'
  BY DEF AmountsInv, Adding, Updating
<1> QED BY <1>1 DEF Fewer, Counted

\* What the steps of caller i in the body of its pipeline have in common: where it goes on,
\* and with what update.
Moves(i, l, u) ==
  /\ pc'[i] = l /\ update'[i] = u /\ name'[i] = name[i] /\ p_stats'[i] = p_stats[i]
  /\ \A j \in Callers \ {i} : SameCaller(j)

\* A step that sets the pc and the update of one caller is such a move.
LEMMA StepMoves ==
  ASSUME TypeInv, NEW i \in Callers, NEW l, Goto(i, l), NEW u, update' = [update EXCEPT ![i] = u],
         UNCHANGED <<name, token, p_stats>>, \A j \in Callers \ {i} : live'[j] = live[j]
  PROVE  Moves(i, l, u)
<1>1. pc' = [pc EXCEPT ![i] = l] /\ pc \in [Callers -> Labels] /\ update \in [Callers -> Updates]
  BY DEF Goto, TypeInv
<1>2. /\ pc'[i] = l /\ update'[i] = u
      /\ \A j \in Callers \ {i} : pc'[j] = pc[j] /\ update'[j] = update[j]
  BY <1>1
<1> QED BY <1>2 DEF Moves, SameCaller

\* Such a move that sets a slot of the pipeline's counters, with what counts for the slot.
LEMMA MoveMemory ==
  ASSUME Inv, MemoryInv, NEW i \in Callers, NEW l, NEW u, Moves(i, l, u), NEW q, q = p_stats[i],
         NEW slot, NEW r, Sets(q, slot, r), AmountsInv(i)', CounterInv(q, slot)',
         \A s : s # slot => Fewer(q, s, i)
  PROVE  MemoryInv'
<1>1. \A j \in Callers : AmountsInv(j) /\ AmountsInv(j)'
  BY SameAmounts DEF MemoryInv, Moves
<1>2. SameNames /\ \A p \in DOMAIN stats : \A s \in Slots(stats[p].name) :
       stats'[p].memory[s] = IF p = q /\ s = slot THEN r ELSE stats[p].memory[s]
  BY DEF Sets
<1>3. ASSUME NEW p \in DOMAIN stats', NEW s \in Slots(stats'[p].name), ~(p = q /\ s = slot)
      PROVE  CounterInv(p, s)'
  <2>1. p \in DOMAIN stats /\ s \in Slots(stats[p].name)
    BY <1>2, <1>3 DEF SameNames
  <2>2. stats'[p].memory[s] = stats[p].memory[s]
    BY <1>2, <1>3, <2>1
  <2>3. PICK m : m = stats[p].memory[s]
    OBVIOUS
  <2>4. m \in Counters /\ m = stats'[p].memory[s] /\ CounterInv(p, s)
    BY <2>1, <2>2, <2>3, SlotTyped DEF Inv, MemoryInv
  <2>5. m.peak \in Nat /\ m.top \in Nat /\ m.current \in Int
    BY <2>3, <2>4 DEF CounterInv, Counters
  <2>6. m.current <= m.current
    BY <2>5, SMTT(30)
  <2>7. Fewer(p, s, i)
    BY <1>3 DEF Fewer, Counted, Moves
  <2>8. \A j \in Callers : AmountsInv(j) /\ Fewer(p, s, j)
    BY <1>1, <2>7, SameAmounts DEF Moves
  <2>9. Turns(p, s, m, m)
    BY <2>3, <2>4, <2>5 DEF Turns
  <2> QED BY <2>4, <2>6, <2>8, <2>9, CounterFewer
<1>4. ASSUME NEW p \in DOMAIN stats', NEW s \in Slots(stats'[p].name) PROVE CounterInv(p, s)'
  <2>1. CASE p = q /\ s = slot
    BY <2>1
  <2>2. CASE ~(p = q /\ s = slot)
    BY <1>3, <1>4, <2>2
  <2> QED BY <2>1, <2>2
<1> QED BY <1>1, <1>4 DEF MemoryInv

\* A slot of the counters of caller i's pipeline, while it runs.
LEMMA OwnCounter ==
  ASSUME Inv, MemoryInv, NEW i \in Callers, pc[i] \in Updating, NEW slot \in Slots(name[i])
  PROVE  /\ p_stats[i] \in DOMAIN stats /\ slot \in Slots(stats[p_stats[i]].name)
         /\ Memory(i, slot) = stats[p_stats[i]].memory[slot] /\ Memory(i, slot) \in Counters
         /\ CounterInv(p_stats[i], slot)
         /\ Memory(i, slot).current \in Nat /\ Memory(i, slot).peak \in Nat /\ Memory(i, slot).top \in Nat
         /\ live[i] \in [Funcs(name[i]) -> Nat]
<1>1. /\ p_stats[i] \in DOMAIN stats /\ stats[p_stats[i]].name = name[i]
      /\ live[i] \in [Funcs(name[i]) -> Int]
      /\ stats[p_stats[i]].memory[slot] \in Counters /\ Memory(i, slot) = stats[p_stats[i]].memory[slot]
  BY OwnEntry
<1>2. CounterInv(p_stats[i], slot) /\ (\A j \in Callers : AmountsInv(j)) /\ AmountsInv(i)
  BY <1>1 DEF MemoryInv
<1>3. PICK m : m = Memory(i, slot)
  OBVIOUS
<1>4. PICK S : S = Allocations(p_stats[i], slot)
  OBVIOUS
<1>5. PICK w : w = Amounts
  OBVIOUS
<1>6. Covers(S, w, m.current) /\ m.peak \in Nat /\ m.top \in Nat /\ m \in Counters
  BY <1>1, <1>2, <1>3, <1>4, <1>5 DEF CounterInv
<1>7. IsFiniteSet(S) /\ SumOver(S, w) <= m.current /\ \A x \in S : w[x] \in Nat
  BY <1>2, <1>4, <1>5, <1>6, AmountsNat DEF Covers
<1>8. SumOver(S, w) \in Nat
  BY <1>7, SumFinite
<1>9. m.current \in Nat
  BY <1>6, <1>7, <1>8, SMTT(30) DEF Counters
<1>10. live[i] \in [Funcs(name[i]) -> Nat]
  BY <1>1, <1>2 DEF AmountsInv
<1> QED BY <1>1, <1>2, <1>3, <1>6, <1>9, <1>10

\* Adding to a counter, first of the pipeline and then of the func.
LEMMA AddMemory ==
  ASSUME Inv, MemoryInv, NEW i \in Callers, pc[i] \in {"in", "func"}, NEW u \in Updates,
         NEW f \in Funcs(name[i]), u.func = f, NEW slot, AddCurrent(i, u, slot),
         UNCHANGED <<name, token, p_stats>>, \A j \in Callers \ {i} : live'[j] = live[j],
         live'[i][f] = u.size, u.size \in Nat, u.size > 0, \A g \in Funcs(name[i]) \ {f} : live'[i][g] = live[i][g],
         \/ slot = -1 /\ pc[i] = "in" /\ ~(live[i][f] > 0)
         \/ slot = f /\ pc[i] = "func" /\ update[i].func = f /\ live'[i][f] = live[i][f]
  PROVE  MemoryInv'
<1>0. TypeInv /\ pc[i] \in Updating /\ pc[i] # "free"
  BY DEF Inv, Updating
<1>1. name[i] \in Names
  BY <1>0 DEF Inv, CallersInv, CallerInv
<1>2. slot \in Slots(name[i]) /\ f \in Int /\ f # -1
  <2>1. f \in Nat /\ -1 \in Slots(name[i]) /\ f \in Slots(name[i])
    BY <1>1, SlotsInt
  <2>2. f \in Int /\ f # -1
    BY <2>1, SMTT(30)
  <2> QED BY <2>1, <2>2
<1>3. PICK q : q = p_stats[i]
  OBVIOUS
<1>4. PICK m : m = Memory(i, slot)
  OBVIOUS
<1>5. /\ q \in DOMAIN stats /\ slot \in Slots(stats[q].name) /\ m = stats[q].memory[slot] /\ m \in Counters
      /\ CounterInv(q, slot) /\ m.current \in Nat /\ m.peak \in Nat /\ m.top \in Nat
      /\ live[i] \in [Funcs(name[i]) -> Nat]
  BY <1>0, <1>2, <1>3, <1>4, OwnCounter
<1>6. PICK sum : sum = m.current + u.size
  OBVIOUS
<1>7. sum \in Nat /\ sum \in Int
  BY <1>5, <1>6, SMTT(30)
<1>8. PICK r : IsRaised(r, m, sum)
  BY DEF IsRaised
<1>9. r \in Counters /\ r.peak = m.peak /\ (r.top = m.top \/ r.top = sum) /\ r.current = sum
  <2>1. r \in Counters /\ r.peak = m.peak /\ (r.top = m.top \/ r.top = sum)
    BY <1>5, <1>7, <1>8, Raised
  <2>2. r.current = sum
    BY <1>5, <1>8 DEF IsRaised, Counters
  <2> QED BY <2>1, <2>2
<1>10. PICK v : v = [u EXCEPT !.slot = slot, !.val = sum]
  OBVIOUS
<1>11. v.func = f /\ v.slot = slot /\ v.val = sum /\ v.size = u.size
  BY <1>10 DEF Updates
<1>12. SetMemory(i, slot, r) /\ update' = [update EXCEPT ![i] = v] /\ Goto(i, "load")
  BY <1>4, <1>6, <1>8, <1>10 DEF AddCurrent, IsRaised
<1>13. Moves(i, "load", v)
  BY <1>0, <1>12, StepMoves
<1>14. Sets(q, slot, r) /\ stats'[q].memory[slot] = r
  <2>1. p_stats[i] \in DOMAIN stats /\ slot \in Slots(stats[p_stats[i]].name)
    BY <1>3, <1>5
  <2>2. Sets(p_stats[i], slot, r)
    BY <1>0, <1>9, <1>12, <2>1, SetMemorySets
  <2> QED BY <1>3, <1>5, <2>2 DEF Sets
<1>15. pc'[i] = "load" /\ update'[i] = v /\ name'[i] = name[i] /\ p_stats'[i] = q /\ "load" \in Updating
  BY <1>3, <1>13 DEF Moves, Updating
<1>16. Adding(i)' <=> slot = -1
  BY <1>11, <1>15 DEF Adding
<1>17. AmountsInv(i)'
  <2>1. \A g \in Funcs(name'[i]) : live'[i][g] \in Nat
    BY <1>5, <1>15
  <2> QED BY <1>7, <1>11, <1>15, <2>1 DEF AmountsInv
<1>18. ~Counted(q, slot, i, f)
  BY <1>2 DEF Counted, Adding
<1>19. ASSUME NEW g, g # f, Counted(q, slot, i, g)'
       PROVE  Counted(q, slot, i, g) /\ live'[i][g] = live[i][g]
  <2>1. g \in Funcs(name[i]) /\ live'[i][g] > 0 /\ (slot = -1 \/ slot = g)
    BY <1>15, <1>19 DEF Counted
  <2>2. live'[i][g] = live[i][g] /\ slot = -1
    BY <1>19, <2>1
  <2> QED BY <1>0, <1>3, <2>1, <2>2 DEF Counted
<1>20. ASSUME NEW s, s # slot PROVE Fewer(q, s, i)
  <2> SUFFICES ASSUME NEW g, Counted(q, s, i, g)'
               PROVE  Counted(q, s, i, g) /\ live'[i][g] = live[i][g]
    BY DEF Fewer
  <2>1. /\ g \in Funcs(name[i]) /\ live'[i][g] > 0
        /\ s = -1 \/ (s = g /\ ~(slot = -1 /\ g = f))
    BY <1>11, <1>15, <1>16 DEF Counted
  <2>2. live'[i][g] = live[i][g] /\ (s = -1 \/ (s = g /\ (slot = -1 \/ g # f)))
    BY <1>20, <2>1
  <2> QED BY <1>0, <1>3, <1>20, <2>1, <2>2 DEF Counted, Adding
<1>21. CounterInv(q, slot)'
  <2>1. \A j \in Callers, g \in Int : Counted(q, slot, j, g)' =>
          (j = i /\ g = f) \/ (Counted(q, slot, j, g) /\ live'[j][g] = live[j][g])
    BY <1>13, <1>19, SameAmounts DEF Moves
  <2>2. \A j \in Callers : AmountsInv(j)
    BY DEF MemoryInv
  <2>3. r.current = m.current + live'[i][f] /\ live'[i][f] \in Nat
    BY <1>6, <1>9
  <2>4. Turns(q, slot, m, r)
    BY <1>5, <1>7, <1>9, <1>14 DEF Turns
  <2> QED BY <1>2, <1>5, <1>18, <2>1, <2>2, <2>3, <2>4, CounterMore
<1> QED BY <1>3, <1>13, <1>14, <1>17, <1>20, <1>21, MoveMemory

\* halide_profiler_memory_allocate adds to the pipeline's counter.
LEMMA MemoryAllocateMemory ==
  ASSUME Inv, MemoryInv, NEW i \in Callers, NEW f, NEW size \in work.sizes, MemoryAllocate(i, f, size)
  PROVE  MemoryInv'
<1>1. /\ pc[i] = "in" /\ pc[i] \in Updating /\ pc[i] \in {"in", "func"} /\ f \in Funcs(name[i]) /\ live[i][f] = 0
      /\ live' = [live EXCEPT ![i][f] = size] /\ UNCHANGED <<name, token, p_stats>>
      /\ AddCurrent(i, [NoUpdate EXCEPT !.func = f, !.size = size], -1)
  BY DEF MemoryAllocate, At, Updating
<1>2. work.sizes \subseteq Nat \ {0}
  BY ProfilerAssumption DEF Inv, TypeInv
<1>3. size \in Nat /\ size \in Int /\ size > 0 /\ ~(0 > 0)
  BY <1>2, SMTT(30)
<1>4. name[i] \in Names /\ live[i] \in [Funcs(name[i]) -> Int] /\ DOMAIN live = Callers
  BY <1>1 DEF Inv, CallersInv, CallerInv
<1>5. f \in Int
  BY <1>1, <1>4, SlotsInt
<1>6. PICK u : u = [NoUpdate EXCEPT !.func = f, !.size = size]
  OBVIOUS
<1>7. u \in Updates /\ u.func = f /\ u.size = size
  <2>1. NoUpdate \in Updates
    BY SMTT(30) DEF NoUpdate, Updates
  <2> QED BY <1>3, <1>5, <1>6, <2>1 DEF Updates
<1>8. PICK g : g = [live[i] EXCEPT ![f] = size]
  OBVIOUS
<1>9. live' = [live EXCEPT ![i] = g] /\ g[f] = size /\ \A h \in Funcs(name[i]) \ {f} : g[h] = live[i][h]
  BY <1>1, <1>4, <1>8
<1>10. live'[i] = g /\ \A j \in Callers \ {i} : live'[j] = live[j]
  BY <1>4, <1>9
<1>11. live'[i][f] = u.size /\ u.size \in Nat /\ u.size > 0 /\ ~(live[i][f] > 0) /\ AddCurrent(i, u, -1)
       /\ \A h \in Funcs(name[i]) \ {f} : live'[i][h] = live[i][h]
  BY <1>1, <1>3, <1>6, <1>7, <1>9, <1>10
<1> QED BY <1>1, <1>7, <1>10, <1>11, AddMemory

\* halide_profiler_memory_allocate adds to the func's counter.
LEMMA AddFuncMemory ==
  ASSUME Inv, MemoryInv, NEW i \in Callers, AddFunc(i)
  PROVE  MemoryInv'
<1>1. /\ pc[i] = "func" /\ pc[i] \in {"in", "func"} /\ UNCHANGED <<name, token, p_stats>> /\ UNCHANGED live
      /\ AddCurrent(i, update[i], update[i].func)
  BY DEF AddFunc, At
<1>2. PICK u : u = update[i]
  OBVIOUS
<1>3. PICK f : f = u.func
  OBVIOUS
<1>4. u \in Updates /\ f \in Funcs(name[i]) /\ u.func = f /\ AddCurrent(i, u, f) /\ update[i].func = f
  BY <1>1, <1>2, <1>3 DEF Inv, TypeInv, PeakInv, UpdateInv
<1>5. u.size = live[i][f] /\ u.size > 0
  BY <1>1, <1>2, <1>3 DEF MemoryInv, AmountsInv, Adding
<1>6. live[i][f] \in Nat
  BY <1>1, <1>4 DEF MemoryInv, AmountsInv, Updating
<1>7. /\ live'[i][f] = u.size /\ u.size \in Nat /\ live'[i][f] = live[i][f]
      /\ (\A j \in Callers \ {i} : live'[j] = live[j]) /\ \A g \in Funcs(name[i]) \ {f} : live'[i][g] = live[i][g]
  BY <1>1, <1>5, <1>6
<1> QED BY <1>1, <1>4, <1>5, <1>7, AddMemory

\* The update of a peak moves on towards the update of the func.
GoesOn(i, l, u) ==
  \/ l = "swap" /\ u.func = update[i].func /\ u.slot = update[i].slot /\ u.val = update[i].val /\ u.size = update[i].size
  \/ l = "func" /\ update[i].slot = -1 /\ u.func = update[i].func /\ u.size = update[i].size
  \/ l = "in" /\ update[i].slot # -1

\* While the update of a peak moves on, nothing new counts for a slot.
LEMMA GoesOnMemory ==
  ASSUME MemoryInv, NEW i \in Callers, pc[i] \in {"load", "swap"}, NEW l, NEW u, GoesOn(i, l, u), Moves(i, l, u),
         UNCHANGED live
  PROVE  AmountsInv(i)' /\ \A p, slot : Fewer(p, slot, i)
<1>1. pc[i] \in Updating /\ l \in Updating /\ l # "free" /\ pc[i] # "free"
  BY DEF GoesOn, Updating
<1>2. pc'[i] = l /\ update'[i] = u /\ name'[i] = name[i] /\ p_stats'[i] = p_stats[i] /\ live'[i] = live[i]
  BY DEF Moves
<1>3. /\ Adding(i)' <=> Adding(i)
      /\ Adding(i) => u.func = update[i].func /\ u.size = update[i].size
  BY <1>2 DEF Adding, GoesOn
<1>4. AmountsInv(i)
  BY DEF MemoryInv
<1>5. AmountsInv(i)'
  <2>1. l \in {"load", "swap"} => u.val \in Nat
    BY <1>4 DEF AmountsInv, GoesOn
  <2> QED BY <1>1, <1>2, <1>3, <1>4, <2>1 DEF AmountsInv
<1>6. ASSUME NEW p, NEW slot, NEW f, Counted(p, slot, i, f)'
      PROVE  Counted(p, slot, i, f) /\ live'[i][f] = live[i][f]
  BY <1>1, <1>2, <1>3, <1>6 DEF Counted
<1> QED BY <1>5, <1>6 DEF Fewer

\* A comparison with the peak, whether it ends the loop or not, is such a move.
LEMMA CompareGoesOn ==
  ASSUME TypeInv, NEW i \in Callers, NEW old, Compare(i, old), UNCHANGED <<name, token, p_stats, live>>
  PROVE  \E l, u : GoesOn(i, l, u) /\ Moves(i, l, u)
<1>1. PICK u : u = update[i]
  OBVIOUS
<1>2. PICK l : l = IF u.val > old THEN "swap" ELSE IF u.slot = -1 THEN "func" ELSE "in"
  OBVIOUS
<1>3. PICK v : v = IF u.val > old THEN [u EXCEPT !.old = old] ELSE FuncNext(u)
  OBVIOUS
<1>4. Goto(i, l) /\ update' = [update EXCEPT ![i] = v] /\ u \in Updates
  BY <1>1, <1>2, <1>3 DEF Compare, TypeInv
<1>5. Moves(i, l, v)
  BY <1>4, StepMoves
<1>6. GoesOn(i, l, v)
  <2>1. CASE u.val > old
    BY <1>1, <1>2, <1>3, <1>4, <2>1 DEF GoesOn, Updates
  <2>2. CASE ~(u.val > old)
    <3>1. u.slot = -1 => v.func = u.func /\ v.size = u.size
      BY <1>3, <2>2 DEF FuncNext, NoUpdate
    <3> QED BY <1>1, <1>2, <2>2, <3>1 DEF GoesOn
  <2> QED BY <2>1, <2>2
<1> QED BY <1>5, <1>6

\* A comparison with the peak leaves the counters alone.
LEMMA CompareMemory ==
  ASSUME Inv, MemoryInv, NEW i \in Callers, pc[i] \in {"load", "swap"}, NEW old, Compare(i, old),
         UNCHANGED <<stats, name, token, p_stats, live>>
  PROVE  MemoryInv'
<1>1. PICK l, u : GoesOn(i, l, u) /\ Moves(i, l, u)
  BY CompareGoesOn DEF Inv
<1>2. AmountsInv(i)' /\ \A p, slot : Fewer(p, slot, i)
  BY <1>1, GoesOnMemory
<1>3. SameNames /\ SameMemory
  BY DEF SameNames, SameMemory
<1>4. \A j \in Callers : SameCaller(j) \/ (AmountsInv(j)' /\ \A p, slot : Fewer(p, slot, j))
  BY <1>1, <1>2 DEF Moves
<1> QED BY <1>3, <1>4, QuietMemory

\* sync_compare_max_and_swap, when it succeeds, sets a peak to what was allocated.
LEMMA SwapMemory ==
  ASSUME Inv, MemoryInv, NEW i \in Callers, pc[i] = "swap", Swapped(i),
         SetMemory(i, update[i].slot, [Memory(i, update[i].slot) EXCEPT !.peak = update[i].val]),
         UNCHANGED <<name, token, p_stats, live>>
  PROVE  MemoryInv'
<1>0. TypeInv /\ pc[i] \in Updating /\ pc[i] \in {"load", "swap"} /\ update[i] \in Updates
      /\ update[i].slot \in Slots(name[i]) /\ update[i].val \in Nat
  BY DEF Inv, TypeInv, PeakInv, UpdateInv, Updating, MemoryInv, AmountsInv
<1>1. PICK slot : slot = update[i].slot
  OBVIOUS
<1>2. PICK val : val = update[i].val
  OBVIOUS
<1>3. PICK m : m = Memory(i, slot)
  OBVIOUS
<1>4. PICK q : q = p_stats[i]
  OBVIOUS
<1>5. slot \in Slots(name[i]) /\ val \in Nat /\ val \in Int
  BY <1>0, <1>1, <1>2, SMTT(30)
<1>6. /\ p_stats[i] \in DOMAIN stats /\ slot \in Slots(stats[p_stats[i]].name) /\ m = stats[q].memory[slot]
      /\ m \in Counters /\ CounterInv(q, slot) /\ m.current \in Nat /\ m.peak \in Nat /\ m.top \in Nat
  BY <1>0, <1>3, <1>4, <1>5, OwnCounter
<1>7. PICK r : r = [m EXCEPT !.peak = val]
  OBVIOUS
<1>8. r \in Counters /\ r.peak = val /\ r.current = m.current /\ r.top = m.top
  BY <1>5, <1>6, <1>7 DEF Counters
<1>9. SetMemory(i, slot, r)
  BY <1>1, <1>2, <1>3, <1>7
<1>10. Sets(q, slot, r) /\ stats'[q].memory[slot] = r
  <2>1. Sets(p_stats[i], slot, r)
    BY <1>0, <1>6, <1>8, <1>9, SetMemorySets
  <2> QED BY <1>4, <1>6, <2>1 DEF Sets
<1>11. PICK l : l = IF update[i].slot = -1 THEN "func" ELSE "in"
  OBVIOUS
<1>12. PICK u : u = FuncNext(update[i])
  OBVIOUS
<1>13. Goto(i, l) /\ update' = [update EXCEPT ![i] = u]
  <2>1. update \in [Callers -> Updates]
    BY <1>0 DEF TypeInv
  <2> QED BY <1>11, <1>12, <2>1 DEF Swapped
<1>14. Moves(i, l, u)
  BY <1>0, <1>13, StepMoves
<1>15. GoesOn(i, l, u)
  <2>1. update[i].slot = -1 => u.func = update[i].func /\ u.size = update[i].size
    BY <1>12 DEF FuncNext, NoUpdate
  <2> QED BY <1>11, <2>1 DEF GoesOn
<1>16. AmountsInv(i)' /\ \A p, s : Fewer(p, s, i)
  BY <1>0, <1>14, <1>15, GoesOnMemory
<1>17. CounterInv(q, slot)'
  <2>1. \A j \in Callers : AmountsInv(j) /\ Fewer(q, slot, j)
    BY <1>14, <1>16, SameAmounts DEF Moves, MemoryInv
  <2>2. Turns(q, slot, m, r)
    BY <1>5, <1>6, <1>8, <1>10 DEF Turns
  <2>3. m.current <= r.current
    BY <1>6, <1>8, SMTT(30)
  <2> QED BY <1>6, <2>1, <2>2, <2>3, CounterFewer
<1> QED BY <1>4, <1>10, <1>14, <1>16, <1>17, MoveMemory

\* The compare-and-swap, with both outcomes.
LEMMA SwapPeakMemory ==
  ASSUME Inv, MemoryInv, NEW i \in Callers, SwapPeak(i)
  PROVE  MemoryInv'
<1>1. /\ pc[i] = "swap" /\ pc[i] \in {"load", "swap"} /\ CompareAndSwap(i, Memory(i, update[i].slot))
      /\ UNCHANGED <<name, token, p_stats, live>>
  BY DEF SwapPeak, At
<1>2. CASE Memory(i, update[i].slot).peak = update[i].old
  BY <1>1, <1>2, SwapMemory DEF CompareAndSwap
<1>3. CASE Memory(i, update[i].slot).peak # update[i].old
  BY <1>1, <1>3, CompareMemory DEF CompareAndSwap
<1> QED BY <1>2, <1>3

\* Taking from a counter, first of the pipeline and then of the func, what is allocated for f.
LEMMA SubMemory ==
  ASSUME Inv, MemoryInv, NEW i \in Callers, pc[i] \in Updating, NEW f \in Funcs(name[i]), live[i][f] > 0,
         NEW slot \in Slots(name[i]), SubCurrent(i, slot, live[i][f]), NEW l, NEW u, Moves(i, l, u),
         NEW q, q = p_stats[i], Counted(q, slot, i, f), ~Counted(q, slot, i, f)',
         \A s : Fewer(q, s, i), AmountsInv(i)'
  PROVE  MemoryInv'
<1>0. TypeInv
  BY DEF Inv
<1>1. PICK m : m = Memory(i, slot)
  OBVIOUS
<1>2. PICK size : size = live[i][f]
  OBVIOUS
<1>3. /\ p_stats[i] \in DOMAIN stats /\ slot \in Slots(stats[p_stats[i]].name) /\ m = stats[q].memory[slot]
      /\ m \in Counters /\ CounterInv(q, slot) /\ m.current \in Nat /\ m.peak \in Nat /\ m.top \in Nat
      /\ size \in Nat
  BY <1>1, <1>2, OwnCounter
<1>4. PICK c : c = m.current - size
  OBVIOUS
<1>5. c \in Int
  BY <1>3, <1>4, SMTT(30)
<1>6. PICK r : r = [m EXCEPT !.current = c]
  OBVIOUS
<1>7. r \in Counters /\ r.peak = m.peak /\ r.current = c /\ r.top = m.top
  BY <1>3, <1>5, <1>6 DEF Counters
<1>8. SetMemory(i, slot, r)
  <2>1. [m EXCEPT !.current = @ - size] = r
    BY <1>3, <1>4, <1>6 DEF Counters
  <2> QED BY <1>1, <1>2, <2>1 DEF SubCurrent
<1>9. Sets(q, slot, r) /\ stats'[q].memory[slot] = r
  <2>1. Sets(p_stats[i], slot, r)
    BY <1>0, <1>3, <1>7, <1>8, SetMemorySets
  <2> QED BY <1>3, <2>1 DEF Sets
<1>10. CounterInv(q, slot)'
  <2>1. \A j \in Callers : AmountsInv(j) /\ Fewer(q, slot, j)
    BY SameAmounts DEF Moves, MemoryInv
  <2>2. Turns(q, slot, m, r) /\ r.current = m.current - live[i][f]
    BY <1>2, <1>3, <1>4, <1>7, <1>9 DEF Turns
  <2>3. f \in Int
    BY SlotsInt DEF Inv, CallersInv, CallerInv
  <2> QED BY <1>3, <2>1, <2>2, <2>3, CounterLess
<1> QED BY <1>9, <1>10, MoveMemory

\* halide_profiler_memory_free takes the size from the pipeline's counter.
LEMMA MemoryFreeMemory ==
  ASSUME Inv, MemoryInv, NEW i \in Callers, NEW f, MemoryFree(i, f)
  PROVE  MemoryInv'
<1>1. /\ pc[i] = "in" /\ pc[i] \in Updating /\ f \in Funcs(name[i]) /\ live[i][f] > 0
      /\ SubCurrent(i, -1, live[i][f]) /\ Goto(i, "free") /\ UNCHANGED <<name, token, p_stats, live>>
      /\ update' = [update EXCEPT ![i] = [NoUpdate EXCEPT !.func = f]]
  BY DEF MemoryFree, At, Updating
<1>2. name[i] \in Names /\ TypeInv /\ AmountsInv(i)
  BY <1>1 DEF Inv, CallersInv, CallerInv, MemoryInv
<1>3. -1 \in Slots(name[i]) /\ f # -1
  <2>1. f \in Nat /\ -1 \in Slots(name[i])
    BY <1>1, <1>2, SlotsInt
  <2>2. f # -1
    BY <2>1, SMTT(30)
  <2> QED BY <2>1, <2>2
<1>4. PICK u : u = [NoUpdate EXCEPT !.func = f]
  OBVIOUS
<1>5. u.func = f
  BY <1>4 DEF NoUpdate
<1>6. Moves(i, "free", u)
  BY <1>1, <1>2, <1>4, StepMoves
<1>7. PICK q : q = p_stats[i]
  OBVIOUS
<1>8. /\ pc'[i] = "free" /\ update'[i].func = f /\ name'[i] = name[i] /\ p_stats'[i] = q /\ live'[i] = live[i]
      /\ "free" \in Updating
  BY <1>1, <1>5, <1>6, <1>7 DEF Moves, Updating
<1>9. AmountsInv(i)'
  BY <1>1, <1>2, <1>8 DEF AmountsInv, Adding
<1>10. Counted(q, -1, i, f) /\ ~Counted(q, -1, i, f)'
  BY <1>1, <1>3, <1>7, <1>8 DEF Counted
<1>11. \A s : Fewer(q, s, i)
  <2> SUFFICES ASSUME NEW s, NEW g, Counted(q, s, i, g)'
               PROVE  Counted(q, s, i, g) /\ live'[i][g] = live[i][g]
    BY DEF Fewer
  <2> QED BY <1>1, <1>7, <1>8 DEF Counted, Adding
<1> QED BY <1>1, <1>3, <1>6, <1>7, <1>9, <1>10, <1>11, SubMemory

\* halide_profiler_memory_free takes the size from the func's counter.
LEMMA FreeFuncMemory ==
  ASSUME Inv, MemoryInv, NEW i \in Callers, FreeFunc(i)
  PROVE  MemoryInv'
<1>1. PICK f : f = update[i].func
  OBVIOUS
<1>2. /\ pc[i] = "free" /\ pc[i] \in Updating /\ SubCurrent(i, f, live[i][f]) /\ Goto(i, "in")
      /\ live' = [live EXCEPT ![i][f] = 0] /\ update' = [update EXCEPT ![i] = NoUpdate]
      /\ UNCHANGED <<name, token, p_stats>>
  BY <1>1 DEF FreeFunc, At, Updating, freed_slot
<1>3. /\ name[i] \in Names /\ live[i] \in [Funcs(name[i]) -> Int] /\ DOMAIN live = Callers /\ TypeInv
      /\ f \in Funcs(name[i]) /\ AmountsInv(i) /\ live[i][f] > 0
  BY <1>1, <1>2 DEF Inv, CallersInv, CallerInv, PeakInv, UpdateInv, MemoryInv, AmountsInv
<1>4. f \in Slots(name[i])
  BY <1>3, SlotsInt
<1>5. PICK g : g = [live[i] EXCEPT ![f] = 0]
  OBVIOUS
<1>6. live' = [live EXCEPT ![i] = g] /\ g[f] = 0 /\ \A h \in Funcs(name[i]) \ {f} : g[h] = live[i][h]
  BY <1>2, <1>3, <1>5
<1>7. live'[i] = g /\ \A j \in Callers \ {i} : live'[j] = live[j]
  BY <1>3, <1>6
<1>8. Moves(i, "in", NoUpdate)
  BY <1>2, <1>3, <1>7, StepMoves
<1>9. PICK q : q = p_stats[i]
  OBVIOUS
<1>10. pc'[i] = "in" /\ name'[i] = name[i] /\ p_stats'[i] = q /\ 0 \in Nat /\ ~(0 > 0)
  <2>1. 0 \in Nat /\ ~(0 > 0)
    BY SMTT(30)
  <2> QED BY <1>8, <1>9, <2>1 DEF Moves
<1>11. AmountsInv(i)'
  <2>1. \A h \in Funcs(name[i]) : live[i][h] \in Nat
    BY <1>2, <1>3 DEF AmountsInv
  <2>2. \A h \in Funcs(name[i]) : live'[i][h] \in Nat
    BY <1>6, <1>7, <1>10, <2>1
  <2> QED BY <1>10, <2>2 DEF AmountsInv, Adding
<1>12. Counted(q, f, i, f) /\ ~Counted(q, f, i, f)'
  BY <1>2, <1>3, <1>6, <1>7, <1>9, <1>10 DEF Counted, Adding
<1>13. \A s : Fewer(q, s, i)
  <2> SUFFICES ASSUME NEW s, NEW h, Counted(q, s, i, h)'
               PROVE  Counted(q, s, i, h) /\ live'[i][h] = live[i][h]
    BY DEF Fewer
  <2>1. h \in Funcs(name[i]) /\ live'[i][h] > 0 /\ (s = -1 \/ s = h)
    BY <1>10 DEF Counted
  <2>2. h # f /\ live'[i][h] = live[i][h]
    BY <1>6, <1>7, <1>10, <2>1
  <2> QED BY <1>1, <1>2, <1>9, <2>1, <2>2 DEF Counted, Adding
<1> QED BY <1>2, <1>3, <1>4, <1>8, <1>9, <1>11, <1>12, <1>13, SubMemory

\* Caller i is outside the body of its pipeline after the step, and the entries stay.
LEMMA OutMemory ==
  ASSUME Inv, MemoryInv, UNCHANGED stats, NEW i \in Callers, pc'[i] \notin Updating,
         \A j \in Callers \ {i} : SameCaller(j)
  PROVE  MemoryInv'
<1>1. SameNames /\ SameMemory
  BY DEF SameNames, SameMemory
<1>2. AmountsInv(i)' /\ \A p, slot : Fewer(p, slot, i)
  BY NoneAllocated
<1> QED BY <1>1, <1>2, QuietMemory

\* The body of a pipeline is left, and so is the pipeline.
LEMMA LeaveMemory ==
  ASSUME Inv, MemoryInv, NEW i \in Callers, Finish(i) \/ Fail(i) \/ End(i)
  PROVE  MemoryInv'
<1>0. TypeInv /\ DOMAIN live = Callers
  BY DEF Inv, CallersInv
<1>1. PICK l \in {"end", "out"} : pc' = [pc EXCEPT ![i] = l]
  BY DEF Finish, Fail, End, Goto
<1>2. pc'[i] \notin Updating /\ \A j \in Callers \ {i} : pc'[j] = pc[j]
  BY <1>0, <1>1 DEF TypeInv, Updating
<1>3. \A j \in Callers \ {i} : /\ name'[j] = name[j] /\ token'[j] = token[j] /\ p_stats'[j] = p_stats[j]
                               /\ live'[j] = live[j] /\ update'[j] = update[j]
  <2>1. CASE Finish(i) \/ Fail(i)
    BY <2>1 DEF Finish, Fail
  <2>2. CASE End(i)
    BY <1>0, <2>2 DEF End, TypeInv
  <2> QED BY <2>1, <2>2
<1>4. UNCHANGED stats
  BY DEF Finish, Fail, End
<1> QED BY <1>2, <1>3, <1>4, OutMemory DEF SameCaller

\* halide_profiler_get_pipeline_state: nothing is allocated yet.
LEMMA GetStateMemory ==
  ASSUME Inv, MemoryInv, NEW i \in Callers, GetState(i)
  PROVE  MemoryInv'
<1>0. TypeInv /\ DOMAIN live = Callers
  BY DEF Inv, CallersInv
<1>1. PICK g : g = [f \in Funcs(name[i]) |-> 0]
  OBVIOUS
<1>2. PICK e : p_stats' = [p_stats EXCEPT ![i] = e]
  BY DEF GetState
<1>3. /\ live' = [live EXCEPT ![i] = g] /\ pc' = [pc EXCEPT ![i] = "in"]
      /\ UNCHANGED <<stats, name, token, update>>
  BY <1>1 DEF GetState, Goto
<1>4. live'[i] = g /\ pc'[i] = "in" /\ \A j \in Callers \ {i} : SameCaller(j)
  BY <1>0, <1>2, <1>3 DEF SameCaller, TypeInv
<1>5. 0 \in Nat /\ ~(0 > 0)
  BY SMTT(30)
<1>6. \A f \in Funcs(name'[i]) : live'[i][f] \in Nat /\ ~(live'[i][f] > 0)
  BY <1>1, <1>3, <1>4, <1>5
<1>7. AmountsInv(i)' /\ \A p, slot : Fewer(p, slot, i)
  <2>1. AmountsInv(i)'
    BY <1>4, <1>6 DEF AmountsInv, Adding
  <2>2. \A p, slot, f : ~Counted(p, slot, i, f)'
    BY <1>6 DEF Counted
  <2> QED BY <2>1, <2>2 DEF Fewer
<1>8. SameNames /\ SameMemory
  BY <1>3 DEF SameNames, SameMemory
<1> QED BY <1>4, <1>7, <1>8, QuietMemory

\* halide_profiler_pipeline_start: a new entry starts with nothing allocated.
LEMMA MadeMemory ==
  ASSUME Inv, MemoryInv, NEW p, NEW n, Made(p, n), UNCHANGED p_stats,
         \A j \in Callers : AmountsInv(j)' /\ \A q, slot : Fewer(q, slot, j)
  PROVE  MemoryInv'
<1>1. /\ p \in Addresses /\ p \notin DOMAIN stats /\ DOMAIN stats' = DOMAIN stats \cup {p}
      /\ (\A q \in DOMAIN stats : stats'[q] = stats[q]) /\ stats'[p].name = n
      /\ \A slot \in Slots(n) : stats'[p].memory[slot] = NoMemory
  BY DEF Made
<1>2. ASSUME NEW q \in DOMAIN stats, NEW slot \in Slots(stats'[q].name) PROVE CounterInv(q, slot)'
  <2>1. slot \in Slots(stats[q].name) /\ stats'[q].memory = stats[q].memory
    BY <1>1, <1>2
  <2> QED BY <1>2, <2>1, KeptCounter DEF Inv
<1>3. ASSUME NEW slot \in Slots(n) PROVE CounterInv(p, slot)'
  <2>1. \A j \in Callers : p_stats'[j] # p
    <3>1. p # NULL
      BY <1>1, StepsNat
    <3> QED BY <1>1, <3>1 DEF Inv, CallersInv, CallerInv
  <2>2. IsAllocated(p, slot)'
    BY AllocationsNext
  <2>3. Allocations(p, slot)' = {}
    BY <2>1, <2>2 DEF IsAllocated, Counted
  <2>4. PICK v : v = Amounts'
    OBVIOUS
  <2>5. IsFiniteSet({}) /\ SumOver({}, v) = 0 /\ 0 <= 0
    BY FS_EmptySet, SumSmall, SMTT(30)
  <2>6. Covers({}, v, 0)
    BY <2>5 DEF Covers
  <2>7. NoMemory.current = 0 /\ NoMemory.peak \in Nat /\ NoMemory.top \in Nat
    BY DEF NoMemory
  <2>8. stats'[p].memory[slot] = NoMemory
    BY <1>1, <1>3
  <2> QED BY <2>3, <2>4, <2>6, <2>7, <2>8 DEF CounterInv
<1>4. ASSUME NEW q \in DOMAIN stats', NEW slot \in Slots(stats'[q].name) PROVE CounterInv(q, slot)'
  <2>1. CASE q = p
    BY <1>1, <1>3, <1>4, <2>1
  <2>2. CASE q # p
    BY <1>1, <1>2, <1>4, <2>2
  <2> QED BY <2>1, <2>2
<1> QED BY <1>4 DEF MemoryInv

\* halide_profiler_pipeline_start, with a new entry or with an old one.
LEMMA StartMemory ==
  ASSUME Inv, MemoryInv, NEW i \in Callers, NEW n \in work.names, Start(i, n)
  PROVE  MemoryInv'
<1>0. TypeInv /\ n \in Names
  BY ProfilerAssumption DEF Inv, TypeInv
<1>1. PICK l \in {"started", "end"} : pc' = [pc EXCEPT ![i] = l]
  BY DEF Start, Goto
<1>2. \E t : token' = [token EXCEPT ![i] = t]
  <2>1. token = [token EXCEPT ![i] = token[i]]
    BY <1>0 DEF TypeInv
  <2> QED BY <2>1 DEF Start
<1>3. name' = [name EXCEPT ![i] = n] /\ UNCHANGED <<p_stats, live, update>>
  BY DEF Start
<1>4. pc'[i] \notin Updating /\ \A j \in Callers \ {i} : SameCaller(j)
  BY <1>0, <1>1, <1>2, <1>3 DEF TypeInv, SameCaller, Updating
<1>5. UNCHANGED stats \/ \E p \in Addresses \ DOMAIN stats : Create(p, n)
  BY DEF Start
<1>6. CASE UNCHANGED stats
  BY <1>4, <1>6, OutMemory
<1>7. ASSUME NEW p \in Addresses \ DOMAIN stats, Create(p, n) PROVE MemoryInv'
  <2>1. Made(p, n)
    BY <1>0, <1>7, CreateMakes
  <2>2. \A j \in Callers : AmountsInv(j)' /\ \A q, slot : Fewer(q, slot, j)
    BY <1>4, NoneAllocated, SameAmounts DEF MemoryInv
  <2> QED BY <1>3, <2>1, <2>2, MadeMemory
<1> QED BY <1>5, <1>6, <1>7

\* The sampling thread moves entries and leaves their counters alone.
LEMMA SamplerMemory ==
  ASSUME Inv, MemoryInv, SamplerNext
  PROVE  MemoryInv'
<1>0. TypeInv /\ ListInv
  BY DEF Inv
<1>1. UNCHANGED callerVars
  BY DEF SamplerNext, Acquire, Check, Sample, Bill
<1>2. UNCHANGED stats \/ BillFunc(func)
  BY DEF SamplerNext, Acquire, Check, Sample, Bill
<1>3. SameNames /\ SameMemory
  <2>1. CASE UNCHANGED stats
    BY <2>1 DEF SameNames, SameMemory
  <2>2. CASE \E p, e : Bubbles(p, e)
    <3>1. PICK p, e : Bubbles(p, e)
      BY <2>2
    <3>2. p # e
      BY <1>0, <3>1, BubblesList
    <3> QED BY <1>0, <3>1, <3>2, BubblesLinks
  <2> QED BY <1>0, <1>2, <2>1, <2>2, BillFuncMoves
<1> QED BY <1>1, <1>3, OutsideMemory

\* The application frees all entries together.
LEMMA ResetMemory ==
  ASSUME Inv, MemoryInv, ResetUnlocked, UNCHANGED callerVars
  PROVE  MemoryInv'
<1>1. DOMAIN stats \ Listed = {}
  BY ListedStats DEF Inv
<1>2. DOMAIN stats' = {}
  BY <1>1 DEF ResetUnlocked
<1>3. \A j \in Callers : AmountsInv(j)'
  BY SameAmounts DEF MemoryInv, SameCaller, callerVars
<1> QED BY <1>2, <1>3 DEF MemoryInv

\* No counter is wrong at the start.
LEMMA MemoryInit == Init => MemoryInv
<1> SUFFICES ASSUME Init PROVE MemoryInv
  OBVIOUS
<1>1. DOMAIN stats = {} /\ \A i \in Callers : pc[i] = "out"
  BY DEF Init
<1> QED BY <1>1 DEF MemoryInv, AmountsInv, Adding, Updating

\* Every step keeps the counters right.
LEMMA MemoryStep == Inv /\ MemoryInv /\ [Next]_vars => MemoryInv'
<1> SUFFICES ASSUME Inv, MemoryInv, [Next]_vars PROVE MemoryInv'
  OBVIOUS
<1>1. CASE SamplerNext
  BY <1>1, SamplerMemory
<1>2. CASE Reset \/ Joined
  BY <1>2, ResetMemory DEF Reset, Joined
<1>3. CASE Shutdown \/ (\E i \in Callers : \E f : SetCurrentFunc(i, f)) \/ UNCHANGED vars
  <2>1. UNCHANGED stats /\ UNCHANGED callerVars
    BY <1>3 DEF Shutdown, SetCurrentFunc, vars
  <2>2. SameNames /\ SameMemory
    BY <2>1 DEF SameNames, SameMemory
  <2> QED BY <2>1, <2>2, OutsideMemory
<1>4. ASSUME NEW i \in Callers, CallerNext(i) PROVE MemoryInv'
  <2>1. CASE \E n \in work.names : Start(i, n)
    BY <2>1, StartMemory
  <2>2. CASE GetState(i) \/ Finish(i) \/ Fail(i) \/ End(i)
    BY <2>2, GetStateMemory, LeaveMemory
  <2>3. CASE \E f \in UNION {Funcs(n) : n \in work.names} :
               SetCurrentFunc(i, f) \/ MemoryFree(i, f) \/ \E size \in work.sizes : MemoryAllocate(i, f, size)
    BY <1>3, <2>3, MemoryFreeMemory, MemoryAllocateMemory
  <2>4. CASE LoadPeak(i)
    BY <2>4, CompareMemory DEF LoadPeak, At
  <2>5. CASE SwapPeak(i) \/ AddFunc(i) \/ FreeFunc(i)
    BY <2>5, SwapPeakMemory, AddFuncMemory, FreeFuncMemory
  <2> QED BY <1>4, <2>1, <2>2, <2>3, <2>4, <2>5 DEF CallerNext
<1> QED BY <1>1, <1>2, <1>3, <1>4 DEF Next

\* Failures are counted up to their bound.
FailuresInv == failures \in 0..Failures

\* Every step keeps the count of failures within its bound.
LEMMA FailuresStep == FailuresInv /\ [Next]_vars => FailuresInv'
<1> SUFFICES ASSUME FailuresInv, [Next]_vars PROVE FailuresInv'
  OBVIOUS
<1>1. failures' = failures \/ (failures < Failures /\ failures' = failures + 1)
  <2>1. CASE SamplerNext \/ Reset \/ Shutdown \/ Joined \/ UNCHANGED vars
    BY <2>1 DEF SamplerNext, Acquire, Check, Sample, Bill, Reset, Shutdown, Joined, vars
  <2>2. ASSUME NEW i \in Callers, CallerNext(i) PROVE <1>1
    BY <2>2 DEF CallerNext, Start, GetState, Finish, Fail, End, SetCurrentFunc, MemoryFree, MemoryAllocate,
                LoadPeak, SwapPeak, AddFunc, FreeFunc
  <2> QED BY <2>1, <2>2 DEF Next
<1> QED BY <1>1, ProfilerAssumption, SMTT(30) DEF FailuresInv

-----------------------------------------------------------------------------
(* The properties *)

\* While a pipeline runs there is a sampling thread that has not returned: a start makes
\* one if the last shutdown joined it, and no shutdown begins until the pipelines are through.
THEOREM ProfilerSampled == Spec => []Sampled
<1>1. Inv => Sampled
  <2> SUFFICES ASSUME Inv, NEW i \in Callers, Running(i)
               PROVE  sampler \in {"start", "check", "sample", "bill", "sleep"}
    BY DEF Sampled
  <2>1. ~Quiet
    BY DEF Running, Quiet, At
  <2>2. sampling_thread /\ app # "join" /\ sampler # "none" /\ sampler # "done"
    BY <2>1 DEF Inv, ThreadInv
  <2> QED BY <2>2 DEF Inv, TypeInv
<1> QED BY <1>1, InvHolds, PTL

\* The list of pipelines holds every allocated entry once and then ends, whatever
\* bill_func moves and however starts fail; a running pipeline has the entry of its name.
THEOREM StatsStayListed == Spec => []StatsListed
<1>1. Inv => StatsListed
  <2> SUFFICES ASSUME Inv PROVE StatsListed
    OBVIOUS
  <2>1. TypeInv /\ ListInv /\ \A i \in Callers : CallerInv(i)
    BY DEF Inv, CallersInv
  <2>2. Listed = DOMAIN stats /\ Entry[Cardinality(DOMAIN stats) + 1] = NULL
    BY <2>1, ListedStats, EntryMeetsStats
  <2> QED BY <2>1, <2>2 DEF StatsListed, CallerInv
<1> QED BY <1>1, InvHolds, PTL

\* No two pipelines share a func id, and a sample is billed to a pipeline that was running
\* when current_func was read, though it is written without the lock and the pipeline may
\* have ended before bill_func is called.
THEOREM SamplesBilledWhileRunning == Spec => []BilledWhileRunning
<1>1. Init => FuncInv
  BY SMTT(30) DEF Init, FuncInv, outside_of_halide
<1>2. Inv /\ FuncInv => BilledWhileRunning
  <2> SUFFICES ASSUME Inv, FuncInv PROVE BilledWhileRunning
    OBVIOUS
  <2>1. TypeInv /\ ListInv /\ IdInv
    BY DEF Inv
  <2>2. Listed = DOMAIN stats
    BY <2>1, ListedStats
  <2>3. \A p \in DOMAIN stats : /\ stats[p].first_func_id \in Nat /\ stats[p].name \in Names
                                /\ num_funcs[stats[p].name] \in Nat
    BY <2>1, ProfilerAssumption DEF TypeInv, Records
  <2>4. ASSUME NEW p \in DOMAIN stats, NEW q \in DOMAIN stats, NEW id, HoldsId(p, id), HoldsId(q, id), p # q
        PROVE  FALSE
    <3>1. FuncsEnd(p) <= stats[q].first_func_id \/ FuncsEnd(q) <= stats[p].first_func_id
      BY <2>1, <2>4 DEF IdInv
    <3> QED BY <2>3, <2>4, <3>1, SMTT(30) DEF HoldsId, FuncsEnd
  <2> QED BY <2>2, <2>4 DEF BilledWhileRunning, FuncInv
<1> QED BY <1>1, <1>2, InvHolds, FuncStep, PTL DEF Spec

\* A memory_peak is the highest value that its memory_current ever had, or a pipeline is
\* about to make it so: no interleaving of the compare-and-swap loops loses a peak.
THEOREM PeaksStayExact == Spec => []PeakExact
<1>1. Inv => PeakExact
  BY DEF Inv, PeakInv
<1> QED BY <1>1, InvHolds, PTL

\* The memory counters of pipelines and funcs, which are unsigned, are never taken below
\* zero, however the updates of several callers of a pipeline are interleaved; and the
\* rest of the state has its types.
THEOREM CountersNeverNegative == Spec => []TypeOK
<1>1. Init => FailuresInv /\ FuncInv
  BY ProfilerAssumption, SMTT(30) DEF Init, FailuresInv, FuncInv, outside_of_halide
<1>2. Inv /\ MemoryInv /\ FailuresInv /\ FuncInv => TypeOK
  <2> SUFFICES ASSUME Inv, MemoryInv, FailuresInv, FuncInv PROVE TypeOK
    OBVIOUS
  <2>1. TypeInv
    BY DEF Inv
  <2>2. ASSUME NEW p \in DOMAIN stats, NEW slot \in DOMAIN stats[p].memory
        PROVE  stats[p].memory[slot] \in [current : Nat, peak : Nat, top : Nat]
    <3>1. slot \in Slots(stats[p].name)
      BY <2>1, <2>2 DEF TypeInv
    <3>2. PICK m : m = stats[p].memory[slot]
      OBVIOUS
    <3>3. PICK S : S = Allocations(p, slot)
      OBVIOUS
    <3>4. PICK w : w = Amounts
      OBVIOUS
    <3>5. m \in Counters /\ Covers(S, w, m.current) /\ m.peak \in Nat /\ m.top \in Nat
      BY <2>1, <2>2, <3>1, <3>2, <3>3, <3>4, SlotTyped DEF MemoryInv, CounterInv
    <3>6. IsFiniteSet(S) /\ SumOver(S, w) <= m.current /\ \A x \in S : w[x] \in Nat
      BY <3>3, <3>4, <3>5, AmountsNat DEF Covers, MemoryInv
    <3>7. SumOver(S, w) \in Nat
      BY <3>6, SumFinite
    <3>8. m.current \in Nat
      BY <3>5, <3>6, <3>7, SMTT(30) DEF Counters
    <3>9. m \in [current : Nat, peak : Nat, top : Nat]
      BY <3>5, <3>8 DEF Counters
    <3> QED BY <3>2, <3>9
  <2> QED BY <2>1, <2>2 DEF TypeOK, FailuresInv, FuncInv, TypeInv, Pointers, Labels
<1> QED BY <1>1, <1>2, InvHolds, MemoryInit, MemoryStep, FailuresStep, FuncStep, PTL DEF Spec
=============================================================================
