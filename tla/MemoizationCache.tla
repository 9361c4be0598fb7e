-------------------------- MODULE MemoizationCache --------------------------
(***************************************************************************)
(* The memoization cache of the Halide runtime (src/runtime/cache.cpp) and *)
(* the way a pipeline uses it (src/Memoization.cpp): look a realization    *)
(* up; on a miss compute it and store it back; release every buffer of it  *)
(* at the end of its scope.  A client is one memoized realization at a     *)
(* time; a pipeline that holds several at once is several clients, here    *)
(* without the order in which its code makes their calls.                  *)
(*                                                                         *)
(* A key stands for everything lookup compares: the key bytes, the bounds  *)
(* and the number of tuple elements.  Entries and blocks are addresses     *)
(* that malloc hands out; malloc may fail at any time.  The mutex is held  *)
(* across several steps where the code loops under it.                     *)
(***************************************************************************)
EXTENDS Integers, Sequences, FiniteSets, FiniteSetsExt, Sums

CONSTANTS Clients,       \* uses of a memoized Func by the pipelines that run
          Application,   \* the thread that calls halide_memoization_cache_set_size
          Keys, Entries, Blocks,
          Buckets, Hash, \* Hash[k]: djb_hash of the key bytes % kHashTableSize
          TupleCount,    \* buffers of the realization a key stands for
          Bytes,         \* their size_in_bytes, summed
          DefaultSize,   \* kDefaultCacheSize
          Workloads,     \* bounds: realizations held at once, blocks at once, the keys
                         \* they use and the arguments of halide_memoization_cache_set_size
          NULL

ASSUME CacheAssumption ==
  /\ IsFiniteSet(Entries) /\ IsFiniteSet(Blocks) /\ IsFiniteSet(Keys)
  /\ Application \notin Clients
  /\ NULL \notin Entries \cup Blocks \cup Keys \cup Clients \cup {Application}
  /\ Hash \in [Keys -> Buckets]
  /\ TupleCount \in [Keys -> Nat \ {0}] /\ Bytes \in [Keys -> Nat]
  /\ DefaultSize \in Nat
  /\ Workloads \subseteq [realizations : Nat, blocks : Nat, keys : SUBSET Keys, sizes : SUBSET Nat]

VARIABLES
  workload,                \* what the application does
  lock,                    \* who holds memoization_lock, or NULL
  cache_entries,           \* heads of the hash chains
  most_recently_used, least_recently_used,
  max_cache_size, current_cache_size,
  entries,                 \* the entries malloc has handed out
  ent,                     \* struct CacheEntry, by entry
  blocks,                  \* the host blocks malloc has handed out
  header,                  \* CacheBlockHeader::entry, by block
  contents,                \* the key whose result is in a block
  pc, key, held,           \* by client: where it is, its key and its buffers
  found,                   \* by client: header->entry as release read it
  prune_candidate

listVars == <<cache_entries, most_recently_used, least_recently_used, ent, entries>>
sizeVars == <<max_cache_size, current_cache_size>>
blockVars == <<blocks, header, contents>>
clientVars == <<pc, key, held, found>>
vars == <<workload, lock, listVars, sizeVars, blockVars, clientVars, prune_candidate>>

Fields == {"next", "more_recent", "less_recent"}
Blank == [key |-> NULL, next |-> NULL, more_recent |-> NULL, less_recent |-> NULL,
          in_use_count |-> 0, buf |-> <<>>]

-----------------------------------------------------------------------------
(* The entries met from h along a pointer field.                           *)

Walk(h, field) ==
  LET at[n \in 0..Cardinality(Entries)] ==
        IF n = 0 THEN h ELSE IF at[n - 1] = NULL THEN NULL ELSE ent[at[n - 1]][field]
  IN at
Chain(h, field) == Range(Walk(h, field)) \ {NULL}
InTable == UNION {Chain(cache_entries[i], "next") : i \in Buckets}

\* The first entry of its hash chain that matches k, or NULL.
MutMatchesBucket(e, k) == Hash[ent[e].key] = Hash[k]
Matches(e, k) == ent[e].key = k
Lookup(k) ==
  LET at == Walk(cache_entries[Hash[k]], "next")
      S == {n \in DOMAIN at : at[n] # NULL /\ Matches(at[n], k)}
  IN IF S = {} THEN NULL ELSE at[Min(S)]

-----------------------------------------------------------------------------
(* halide_memoization_cache_lookup                                         *)

Return(c, q) == pc' = [pc EXCEPT ![c] = q]

\* What is left in freed blocks, and in the locals of a client that has finished,
\* does not matter.
Wipe(freed) ==
  /\ blocks' = blocks \ freed
  /\ header' = [b \in Blocks |-> IF b \in freed THEN NULL ELSE header[b]]
  /\ contents' = [b \in Blocks |-> IF b \in freed THEN NULL ELSE contents[b]]
Forget(c) == key' = [key EXCEPT ![c] = NULL]

MutUseOnce(e) == ent[e].in_use_count + 1
UsedAgain(e) == ent[e].in_use_count + TupleCount[ent[e].key]

MutLruKept(e) == least_recently_used
LruWithout(e) == IF ent[e].less_recent = NULL THEN ent[e].more_recent ELSE least_recently_used

\* The entry moves to the recent end of the list.
MoveToFront(e) ==
  LET more == ent[e].more_recent
      less == ent[e].less_recent
      mru == most_recently_used
  IN /\ least_recently_used' = LruWithout(e)
     /\ most_recently_used' = e
     /\ ent' = [x \in Entries |->
                 [ent[x] EXCEPT
                   !.more_recent = IF x = e THEN NULL ELSE IF x = mru THEN e
                                   ELSE IF x = less THEN more ELSE @,
                   !.less_recent = IF x = e THEN mru ELSE IF x = more THEN less ELSE @,
                   !.in_use_count = IF x = e THEN UsedAgain(e) ELSE @]]

MayStart(c) ==
  pc[c] = "idle" /\ Cardinality({d \in Clients : pc[d] # "idle"}) < workload.realizations

LookupHit(c, k) ==
  LET e == Lookup(k)
  IN /\ MayStart(c) /\ lock = NULL /\ e # NULL
     /\ IF e = most_recently_used
        THEN /\ ent' = [ent EXCEPT ![e].in_use_count = UsedAgain(e)]
             /\ UNCHANGED <<most_recently_used, least_recently_used>>
        ELSE MoveToFront(e)
     /\ held' = [held EXCEPT ![c] = ent[e].buf]
     /\ key' = [key EXCEPT ![c] = k]
     /\ Return(c, "using")
     /\ UNCHANGED <<lock, cache_entries, entries, sizeVars, blockVars, found, prune_candidate>>

\* A miss: one block after another is allocated, with the lock held.
LookupMiss(c, k) ==
  /\ MayStart(c) /\ lock = NULL /\ Lookup(k) = NULL
  /\ lock' = c
  /\ key' = [key EXCEPT ![c] = k]
  /\ Return(c, "allocating")
  /\ UNCHANGED <<listVars, sizeVars, blockVars, held, found, prune_candidate>>

AllocateBlock(c) ==
  /\ pc[c] = "allocating" /\ Len(held[c]) < TupleCount[key[c]]
  /\ Cardinality(blocks) < workload.blocks
  /\ \E b \in Blocks \ blocks :
       /\ blocks' = blocks \cup {b}
       /\ header' = [header EXCEPT ![b] = NULL]
       /\ contents' = [contents EXCEPT ![b] = NULL]
       /\ held' = [held EXCEPT ![c] = Append(@, b)]
  /\ UNCHANGED <<lock, listVars, sizeVars, pc, key, found, prune_candidate>>

\* malloc fails: the blocks allocated so far are freed and lookup returns -1.
MutKeepFirst(c) == Range(Tail(held[c]))
HeldSoFar(c) == Range(held[c])

AllocateFails(c) ==
  /\ pc[c] = "allocating" /\ Len(held[c]) < TupleCount[key[c]]
  /\ Wipe(IF held[c] = <<>> THEN {} ELSE HeldSoFar(c))
  /\ held' = [held EXCEPT ![c] = <<>>]
  /\ lock' = NULL
  /\ Return(c, "idle") /\ Forget(c)
  /\ UNCHANGED <<listVars, sizeVars, found, prune_candidate>>

LookupDone(c) ==
  /\ pc[c] = "allocating" /\ Len(held[c]) = TupleCount[key[c]]
  /\ lock' = NULL
  /\ Return(c, "computing")
  /\ UNCHANGED <<listVars, sizeVars, blockVars, key, held, found, prune_candidate>>

-----------------------------------------------------------------------------
(* The producer runs after a miss.  If it fails the buffers are released   *)
(* without a store.                                                        *)

Compute(c) ==
  /\ pc[c] = "computing"
  /\ contents' = [b \in Blocks |-> IF b \in Range(held[c]) THEN key[c] ELSE contents[b]]
  /\ Return(c, "computed")
  /\ UNCHANGED <<lock, listVars, sizeVars, blocks, header, key, held, found, prune_candidate>>

ComputeFails(c) ==
  /\ pc[c] = "computing"
  /\ Return(c, "using")
  /\ UNCHANGED <<lock, listVars, sizeVars, blockVars, key, held, found, prune_candidate>>

-----------------------------------------------------------------------------
(* halide_memoization_cache_store and prune_cache                          *)

\* Somebody else has stored the result meanwhile: the caller keeps its buffers.
StoreKnown(c) ==
  /\ pc[c] = "computed" /\ lock = NULL /\ Lookup(key[c]) # NULL
  /\ header' = [b \in Blocks |-> IF b \in Range(held[c]) THEN NULL ELSE header[b]]
  /\ Return(c, "using")
  /\ UNCHANGED <<lock, listVars, sizeVars, blocks, contents, key, held, found, prune_candidate>>

StoreNew(c) ==
  /\ pc[c] = "computed" /\ lock = NULL /\ Lookup(key[c]) = NULL
  /\ lock' = c
  /\ current_cache_size' = current_cache_size + Bytes[key[c]]
  /\ prune_candidate' = least_recently_used
  /\ Return(c, "storing")
  /\ UNCHANGED <<listVars, max_cache_size, blockVars, key, held, found>>

MustPrune == current_cache_size > max_cache_size /\ prune_candidate # NULL

MutPruneInUse(e) == TRUE
Prunable(e) == ent[e].in_use_count = 0

\* One turn of the loop of prune_cache.  The last assignment of the removal is
\* to the candidate's own less_recent, which is freed next.
PruneEntry ==
  LET e == prune_candidate
      more == ent[e].more_recent
      less == ent[e].less_recent
      i == Hash[ent[e].key]
  IN /\ lock # NULL /\ MustPrune /\ Prunable(e)
     /\ IF cache_entries[i] = e
        THEN cache_entries' = [cache_entries EXCEPT ![i] = ent[e].next]
        ELSE UNCHANGED cache_entries
     /\ ent' = [x \in Entries |->
                 IF x = e THEN Blank
                 ELSE [ent[x] EXCEPT
                        !.next = IF @ = e /\ x \in Chain(cache_entries[i], "next")
                                 THEN ent[e].next ELSE @,
                        !.less_recent = IF x = more THEN less ELSE @]]
     /\ least_recently_used' = IF least_recently_used = e THEN more ELSE least_recently_used
     /\ most_recently_used' = IF most_recently_used = e THEN less ELSE most_recently_used
     /\ current_cache_size' = current_cache_size - Bytes[ent[e].key]
     /\ Wipe(Range(ent[e].buf))
     /\ entries' = entries \ {e}
     /\ prune_candidate' = more
     /\ UNCHANGED <<lock, max_cache_size, clientVars>>

PruneSkip ==
  /\ lock # NULL /\ MustPrune /\ ~Prunable(prune_candidate)
  /\ prune_candidate' = ent[prune_candidate].more_recent
  /\ UNCHANGED <<lock, listVars, sizeVars, blockVars, clientVars>>

StoreInsert(c) ==
  LET k == key[c]
      i == Hash[k]
      mru == most_recently_used
  IN /\ pc[c] = "storing" /\ ~MustPrune
     /\ \E e \in Entries \ entries :
          /\ entries' = entries \cup {e}
          /\ ent' = [x \in Entries |->
                      IF x = e THEN [key |-> k, next |-> cache_entries[i], more_recent |-> NULL,
                                     less_recent |-> mru, in_use_count |-> TupleCount[k],
                                     buf |-> held[c]]
                      ELSE [ent[x] EXCEPT !.more_recent = IF x = mru THEN e ELSE @]]
          /\ most_recently_used' = e
          /\ least_recently_used' = IF least_recently_used = NULL THEN e ELSE least_recently_used
          /\ cache_entries' = [cache_entries EXCEPT ![i] = e]
          /\ header' = [b \in Blocks |-> IF b \in Range(held[c]) THEN e ELSE header[b]]
     /\ lock' = NULL
     /\ prune_candidate' = NULL
     /\ Return(c, "using")
     /\ UNCHANGED <<sizeVars, blocks, contents, key, held, found>>

\* malloc fails for the entry or its metadata.
MutSizeKept(k) == current_cache_size
WithoutAdded(k) == current_cache_size - Bytes[k]

StoreFails(c) ==
  /\ pc[c] = "storing" /\ ~MustPrune
  /\ current_cache_size' = WithoutAdded(key[c])
  /\ header' = [b \in Blocks |-> IF b \in Range(held[c]) THEN NULL ELSE header[b]]
  /\ lock' = NULL
  /\ prune_candidate' = NULL
  /\ Return(c, "using")
  /\ UNCHANGED <<listVars, max_cache_size, blocks, contents, key, held, found>>

-----------------------------------------------------------------------------
(* halide_memoization_cache_release, for the client's next buffer          *)

AfterRelease(c) ==
  IF Len(held[c]) = 1 THEN Return(c, "idle") /\ Forget(c)
                      ELSE Return(c, "using") /\ UNCHANGED key

\* header->entry is read without the lock.
ReadHeader(c) ==
  /\ pc[c] = "using"
  /\ found' = [found EXCEPT ![c] = header[Head(held[c])]]
  /\ Return(c, "releasing")
  /\ UNCHANGED <<lock, listVars, sizeVars, blockVars, key, held, prune_candidate>>

FreeBlock(c) ==
  /\ pc[c] = "releasing" /\ found[c] = NULL
  /\ Wipe({Head(held[c])})
  /\ held' = [held EXCEPT ![c] = Tail(@)]
  /\ AfterRelease(c)
  /\ UNCHANGED <<lock, listVars, sizeVars, found, prune_candidate>>

ReleaseEntry(c) ==
  /\ pc[c] = "releasing" /\ found[c] # NULL /\ lock = NULL
  /\ ent' = [ent EXCEPT ![found[c]].in_use_count = @ - 1]
  /\ held' = [held EXCEPT ![c] = Tail(@)]
  /\ found' = [found EXCEPT ![c] = NULL]
  /\ AfterRelease(c)
  /\ UNCHANGED <<lock, cache_entries, most_recently_used, least_recently_used, entries,
                 sizeVars, blockVars, prune_candidate>>

-----------------------------------------------------------------------------
(* The application.                                                        *)

halide_memoization_cache_set_size(n) ==
  /\ lock = NULL
  /\ lock' = Application
  /\ max_cache_size' = IF n = 0 THEN DefaultSize ELSE n
  /\ prune_candidate' = least_recently_used
  /\ UNCHANGED <<listVars, current_cache_size, blockVars, clientVars>>

SetSizeDone ==
  /\ lock = Application /\ ~MustPrune
  /\ lock' = NULL
  /\ prune_candidate' = NULL
  /\ UNCHANGED <<listVars, sizeVars, blockVars, clientVars>>

\* At exit, without the lock: no pipeline runs any more.
halide_memoization_cache_cleanup ==
  /\ \A c \in Clients : pc[c] = "idle"
  /\ lock = NULL
  /\ cache_entries' = [i \in Buckets |-> NULL]
  /\ Wipe(UNION {Range(ent[e].buf) : e \in InTable})
  /\ entries' = entries \ InTable
  /\ ent' = [e \in Entries |-> IF e \in InTable THEN Blank ELSE ent[e]]
  /\ current_cache_size' = 0
  /\ most_recently_used' = NULL /\ least_recently_used' = NULL
  /\ UNCHANGED <<lock, max_cache_size, clientVars, prune_candidate>>

-----------------------------------------------------------------------------
Init ==
  /\ workload \in Workloads
  /\ lock = NULL /\ prune_candidate = NULL
  /\ cache_entries = [i \in Buckets |-> NULL]
  /\ most_recently_used = NULL /\ least_recently_used = NULL
  /\ max_cache_size = DefaultSize /\ current_cache_size = 0
  /\ entries = {} /\ ent = [e \in Entries |-> Blank]
  /\ blocks = {} /\ header = [b \in Blocks |-> NULL] /\ contents = [b \in Blocks |-> NULL]
  /\ pc = [c \in Clients |-> "idle"] /\ key = [c \in Clients |-> NULL]
  /\ held = [c \in Clients |-> <<>>] /\ found = [c \in Clients |-> NULL]

Realization(c) ==
  \/ \E k \in workload.keys : LookupHit(c, k) \/ LookupMiss(c, k)
  \/ AllocateBlock(c) \/ AllocateFails(c) \/ LookupDone(c)
  \/ Compute(c) \/ ComputeFails(c)
  \/ StoreKnown(c) \/ StoreNew(c) \/ StoreInsert(c) \/ StoreFails(c)
  \/ ReadHeader(c) \/ FreeBlock(c) \/ ReleaseEntry(c)

Next ==
  /\ \/ \E c \in Clients : Realization(c)
     \/ PruneEntry \/ PruneSkip
     \/ \E n \in workload.sizes : halide_memoization_cache_set_size(n)
     \/ SetSizeDone
     \/ halide_memoization_cache_cleanup
  /\ UNCHANGED workload

Spec == Init /\ [][Next]_vars

-----------------------------------------------------------------------------
\* Types of the state; no use count and no size goes below zero.
TypeOK ==
  /\ lock \in Clients \cup {Application, NULL}
  /\ cache_entries \in [Buckets -> Entries \cup {NULL}]
  /\ {most_recently_used, least_recently_used, prune_candidate} \subseteq Entries \cup {NULL}
  /\ max_cache_size \in Nat /\ current_cache_size \in Nat
  /\ entries \subseteq Entries /\ blocks \subseteq Blocks
  /\ \A e \in Entries : /\ ent[e].key \in Keys \cup {NULL} /\ ent[e].in_use_count \in Nat
                        /\ \A f \in Fields : ent[e][f] \in Entries \cup {NULL}
  /\ header \in [Blocks -> Entries \cup {NULL}] /\ contents \in [Blocks -> Keys \cup {NULL}]
  /\ pc \in [Clients -> {"idle", "allocating", "computing", "computed", "storing", "using",
                         "releasing"}]
  /\ key \in [Clients -> Keys \cup {NULL}] /\ found \in [Clients -> Entries \cup {NULL}]

\* The four tests of validate_cache: the hash table, the list from the most
\* recently used entry and the list from the least recently used one hold the
\* same entries, and none of them has been freed.
ValidCache ==
  /\ InTable = entries
  /\ Chain(most_recently_used, "less_recent") = entries
  /\ Chain(least_recently_used, "more_recent") = entries
  /\ \A e \in entries : /\ ent[e].more_recent = NULL => e = most_recently_used
                        /\ ent[e].less_recent = NULL => e = least_recently_used

\* An entry's in_use_count is the number of buffers of it that clients have not
\* released, so prune_cache never frees a buffer a pipeline reads or writes.
Users == {c \in Clients : pc[c] \in {"using", "releasing"}}
Holders(e) == UNION {{c} \X {i \in DOMAIN held[c] : header[held[c][i]] = e} : c \in Users}
UsersCounted ==
  /\ \A e \in entries : ent[e].in_use_count = Cardinality(Holders(e))
  /\ \A c \in Clients : Range(held[c]) \subseteq blocks

\* Every entry holds the result computed for its key, and a key has one entry:
\* a hit never hands out the result of another key or a buffer nobody computed.
ResultsBelongToKey ==
  /\ \A e \in entries : \A b \in Range(ent[e].buf) : contents[b] = ent[e].key /\ header[b] = e
  /\ \A e, f \in entries : ent[e].key = ent[f].key => e = f
  /\ \A c \in Clients : \A b \in Range(held[c]) : contents[b] \in {NULL, key[c]}

\* No block is lost: each belongs to an entry or to a client that will free it,
\* whichever of malloc, the producer or the store failed.
NoBlockLost ==
  blocks = (UNION {Range(ent[e].buf) : e \in entries}) \cup (UNION {Range(held[c]) : c \in Clients})

\* The clients that are about to store a result, and the sizes.
Storing == {c \in Clients : pc[c] = "storing"}
EntryBytes == [e \in Entries |-> Bytes[ent[e].key]]
KeyBytes == [c \in Clients |-> Bytes[key[c]]]

\* current_cache_size is the size of what is stored (or about to be), and the
\* loop of prune_cache ends with it within max_cache_size unless all that is left
\* is in use.
SizeAccounted ==
  /\ current_cache_size = SumOver(entries, EntryBytes) + SumOver(Storing, KeyBytes)
  /\ lock \in Storing \cup {Application} /\ ~MustPrune
       => current_cache_size <= max_cache_size \/ \A e \in entries : ~Prunable(e)
=============================================================================
