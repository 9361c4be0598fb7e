----------------------------- MODULE CacheLemmas ----------------------------
(***************************************************************************)
(* The inductive invariant of the memoization cache, and the steps that    *)
(* leave the two lists of entries as they are.                             *)
(*                                                                         *)
(* The recency list and the chains of the hash table are lists in the      *)
(* sense of ListLemmas, each with a rank that its elements fall along. The *)
(* rest says who holds which block, what is in it, and how often an entry  *)
(* is used. The size of the cache is an invariant of its own, kept by      *)
(* every step under the first. CacheProofs has the steps that change the   *)
(* lists, and the theorems.                                                *)
(***************************************************************************)
EXTENDS MemoizationCache, ListLemmas

\* A leaf is for Zenon unless it says otherwise.
USE ZenonT(30)

\* The types of the state.  current_cache_size may be any integer here: SizeInv says
\* that it is the sum of the sizes.
Pointers == Entries \cup {NULL}
CacheEntries == [key : Keys \cup {NULL}, next : Pointers, more_recent : Pointers,
                 less_recent : Pointers, in_use_count : Int, buf : Seq(Blocks)]
Labels == {"idle", "allocating", "computing", "computed", "storing", "using", "releasing"}

TypeInv ==
  /\ workload \in Workloads
  /\ lock \in Clients \cup {Application, NULL}
  /\ cache_entries \in [Buckets -> Pointers]
  /\ most_recently_used \in Pointers /\ least_recently_used \in Pointers
  /\ max_cache_size \in Nat /\ current_cache_size \in Int
  /\ entries \subseteq Entries /\ ent \in [Entries -> CacheEntries]
  /\ blocks \subseteq Blocks
  /\ header \in [Blocks -> Pointers] /\ contents \in [Blocks -> Keys \cup {NULL}]
  /\ pc \in [Clients -> Labels] /\ key \in [Clients -> Keys \cup {NULL}]
  /\ held \in [Clients -> Seq(Blocks)] /\ found \in [Clients -> Pointers]
  /\ prune_candidate \in Pointers

\* The pointers of the entries, and the entries that belong into a bucket.
NextOf == [e \in Entries |-> ent[e].next]
LessOf == [e \in Entries |-> ent[e].less_recent]
MoreOf == [e \in Entries |-> ent[e].more_recent]
Bucket(i) == {e \in entries : Hash[ent[e].key] = i}
Negated(rank) == [e \in Entries |-> -rank[e]]

\* The entries are a list by less_recent, and by more_recent the same list reversed.
LruOrder(rank) ==
  /\ IsList(entries, most_recently_used, LessOf, rank, NULL)
  /\ IsList(entries, least_recently_used, MoreOf, Negated(rank), NULL)
\* While prune_cache runs, what it has passed is in use.
Pruning == lock = Application \/ \E c \in Clients : lock = c /\ pc[c] = "storing"
PruneOrder(rank) ==
  Pruning => \A x \in entries : Prunable(x) =>
               prune_candidate # NULL /\ rank[prune_candidate] <= rank[x]

\* The recency list is whole, and what prune_cache has still to look at starts at
\* its candidate.
LruInv == \E rank \in [Entries -> Int] : LruOrder(rank) /\ PruneOrder(rank)

\* Every bucket starts the chain of the entries that belong into it.
HashOrder(age) == \A i \in Buckets : IsList(Bucket(i), cache_entries[i], NextOf, age, NULL)
HashInv == \E age \in [Entries -> Int] : HashOrder(age)

\* Where a client has blocks that no entry has, and where it has those of an entry.
Private == {"allocating", "computing", "computed", "storing"}
Using == {"using", "releasing"}
Distinct(s) == \A i, j \in DOMAIN s : s[i] = s[j] => i = j

\* What a client holds is allocated, each block once, and as many as its key has.
HeldInv(c) ==
  /\ Distinct(held[c]) /\ \A i \in DOMAIN held[c] : held[c][i] \in blocks
  /\ pc[c] = "idle" => held[c] = <<>> /\ key[c] = NULL
  /\ pc[c] # "idle" => key[c] \in Keys
  /\ pc[c] = "allocating" => Len(held[c]) <= TupleCount[key[c]]
  /\ pc[c] \in Private \ {"allocating"} => Len(held[c]) = TupleCount[key[c]]
  /\ pc[c] \in Using => held[c] # <<>>

\* The blocks of a client that still computes have no entry; those it uses have
\* one entry between them, and its key.
BuffersInv(c) ==
  /\ pc[c] \in Private => \A i \in DOMAIN held[c] : header[held[c][i]] = NULL
  /\ pc[c] \in {"allocating", "computing"} => \A i \in DOMAIN held[c] : contents[held[c][i]] = NULL
  /\ pc[c] \in {"computed", "storing"} => \A i \in DOMAIN held[c] : contents[held[c][i]] = key[c]
  /\ pc[c] \in Using => \A i \in DOMAIN held[c] :
       /\ contents[held[c][i]] \in {NULL, key[c]}
       /\ header[held[c][i]] = header[held[c][1]]
       /\ header[held[c][i]] # NULL => ent[header[held[c][i]]].key = key[c]
  /\ found[c] = IF pc[c] = "releasing" THEN header[held[c][1]] ELSE NULL
ClientInv == \A c \in Clients : HeldInv(c) /\ BuffersInv(c)

\* No two clients hold the same block that has no entry.
PrivateInv ==
  \A c, d \in Clients : \A i \in DOMAIN held[c], j \in DOMAIN held[d] :
    held[c][i] = held[d][j] /\ header[held[c][i]] = NULL => c = d

\* An entry has its blocks, which name it and hold the result for its key.
StoredInv(e) ==
  /\ ent[e].key \in Keys /\ Len(ent[e].buf) = TupleCount[ent[e].key] /\ Distinct(ent[e].buf)
  /\ \A i \in DOMAIN ent[e].buf : /\ ent[e].buf[i] \in blocks
                                  /\ header[ent[e].buf[i]] = e
                                  /\ contents[ent[e].buf[i]] = ent[e].key
EntryInv == /\ \A e \in entries : StoredInv(e)
            /\ \A e \in Entries \ entries : ent[e].in_use_count = 0

\* A block belongs to an entry or to a client.
OwnedInv(b) ==
  \/ header[b] \in entries /\ \E i \in DOMAIN ent[header[b]].buf : ent[header[b]].buf[i] = b
  \/ header[b] = NULL /\ \E c \in Clients : \E i \in DOMAIN held[c] : held[c][i] = b
BlockInv == /\ \A b \in blocks : OwnedInv(b)
            /\ \A b \in Blocks \ blocks : header[b] = NULL /\ contents[b] = NULL

\* There is one entry for a key, also once a store has looked.
KeyInv ==
  /\ \A e, f \in entries : ent[e].key = ent[f].key => e = f
  /\ \A c \in Clients : pc[c] = "storing" => \A e \in entries : ent[e].key # key[c]

\* The lock is held by a client that allocates or stores, and candidates are kept
\* only under it.
LockInv ==
  /\ \A c \in Clients : lock = c <=> pc[c] \in {"allocating", "storing"}
  /\ prune_candidate \in entries \cup {NULL}
  /\ prune_candidate # NULL => Pruning

\* The use count of an entry counts the blocks of it that clients hold.
HoldsOne(c, i, e) == pc[c] \in Using /\ header[held[c][i]] = e
UsersInv ==
  \A e \in entries : IsFiniteSet(Holders(e)) /\ ent[e].in_use_count = Cardinality(Holders(e))

\* The inductive invariant.
Inv == /\ TypeInv /\ LruInv /\ HashInv /\ ClientInv /\ PrivateInv /\ EntryInv /\ BlockInv
       /\ KeyInv /\ LockInv /\ UsersInv

-----------------------------------------------------------------------------
(* Chains, look-ups and holders *)

\* A walk from h along a field visits the elements of S, and only those.
WalkMeets(h, field, S) ==
  /\ DOMAIN Walk(h, field) = 0..Cardinality(Entries)
  /\ \A n \in DOMAIN Walk(h, field) : Walk(h, field)[n] \in S \cup {NULL}
  /\ \A x \in S : \E n \in DOMAIN Walk(h, field) : Walk(h, field)[n] = x
  /\ Chain(h, field) = S

\* A walk along a field meets the elements of a list, if there is one.
LEMMA WalkList ==
  ASSUME NEW S, S \subseteq Entries, NEW h, NEW field, NEW nxt, \A x \in S : nxt[x] = ent[x][field],
         NEW rank \in [Entries -> Int], IsList(S, h, nxt, rank, NULL)
  PROVE  WalkMeets(h, field, S)
<1> DEFINE N == Cardinality(Entries)
           at == Walk(h, field)
<1>1. N \in Nat /\ IsFiniteSet(S) /\ Cardinality(S) <= N /\ NULL \notin S
  BY CacheAssumption, FS_CardinalityType, FS_Subset
<1>2. \E w : Follows(w, N, h, ent, field, NULL)
  BY <1>1, WalkExists
<1>3. at = CHOOSE w : Follows(w, N, h, ent, field, NULL)
  BY DEF Walk, Follows
<1> HIDE DEF at, N
<1>4. Follows(at, N, h, ent, field, NULL)
  BY <1>2, <1>3
<1>5. DOMAIN at = 0..N /\ at[0] = h
      /\ \A n \in 1..N : at[n] = IF at[n - 1] = NULL THEN NULL ELSE ent[at[n - 1]][field]
  BY <1>1, <1>4, SMTT(30) DEF Follows
<1>6. \A x \in S : rank[x] \in Int
  OBVIOUS
<1>7. /\ \A n \in 1..N : at[n - 1] = NULL => at[n] = NULL
      /\ \A n \in 1..N : at[n - 1] \in S => at[n] = nxt[at[n - 1]]
  BY <1>1, <1>5
<1>8. /\ \A n \in 0..N : at[n] \in S \cup {NULL}
      /\ \A x \in S : \E n \in 0..N : at[n] = x
  BY <1>1, <1>5, <1>6, <1>7, WalkMeetsList, SMTT(30)
<1>9. Chain(h, field) = {at[n] : n \in 0..N} \ {NULL}
  BY <1>5 DEF Chain, Range, at
<1> QED BY <1>1, <1>5, <1>8, <1>9, SMTT(30) DEF at, N, WalkMeets

\* The hash table holds the entries, one chain to a bucket.
LEMMA TableHoldsEntries ==
  ASSUME TypeInv, HashInv, EntryInv
  PROVE  /\ \A i \in Buckets : Chain(cache_entries[i], "next") = Bucket(i)
         /\ InTable = entries
<1>1. PICK age \in [Entries -> Int] : HashOrder(age)
  BY DEF HashInv
<1>2. ASSUME NEW i \in Buckets PROVE Chain(cache_entries[i], "next") = Bucket(i)
  <2>1. Bucket(i) \subseteq Entries /\ \A x \in Bucket(i) : NextOf[x] = ent[x]["next"]
    BY DEF Bucket, TypeInv, NextOf
  <2>2. IsList(Bucket(i), cache_entries[i], NextOf, age, NULL)
    BY <1>1 DEF HashOrder
  <2>3. WalkMeets(cache_entries[i], "next", Bucket(i))
    BY <2>1, <2>2, WalkList
  <2> QED BY <2>3 DEF WalkMeets
<1>3. \A e \in entries : Hash[ent[e].key] \in Buckets
  BY CacheAssumption DEF EntryInv, StoredInv
<1>4. InTable = UNION {Bucket(i) : i \in Buckets}
  BY <1>2 DEF InTable
<1>5. UNION {Bucket(i) : i \in Buckets} = entries
  BY <1>3, SMTT(30) DEF Bucket
<1> QED BY <1>2, <1>4, <1>5

\* lookup finds the entry of a key if and only if there is one.
LEMMA LookupFinds ==
  ASSUME TypeInv, HashInv, EntryInv, NEW k \in Keys
  PROVE  \/ Lookup(k) = NULL /\ \A e \in entries : ent[e].key # k
         \/ Lookup(k) \in entries /\ ent[Lookup(k)].key = k
<1> DEFINE i == Hash[k]
           at == Walk(cache_entries[i], "next")
           S == {n \in DOMAIN at : at[n] # NULL /\ Matches(at[n], k)}
<1>1. PICK age \in [Entries -> Int] : HashOrder(age)
  BY DEF HashInv
<1>2. i \in Buckets
  BY CacheAssumption
<1>3. Bucket(i) \subseteq Entries /\ \A x \in Bucket(i) : NextOf[x] = ent[x]["next"]
  BY DEF Bucket, TypeInv, NextOf
<1>4. /\ DOMAIN at = 0..Cardinality(Entries)
      /\ \A n \in DOMAIN at : at[n] \in Bucket(i) \cup {NULL}
      /\ \A x \in Bucket(i) : \E n \in DOMAIN at : at[n] = x
  <2>1. IsList(Bucket(i), cache_entries[i], NextOf, age, NULL)
    BY <1>1, <1>2 DEF HashOrder
  <2> HIDE DEF i
  <2>2. WalkMeets(cache_entries[i], "next", Bucket(i))
    BY <1>3, <2>1, WalkList
  <2> QED BY <2>2 DEF WalkMeets
<1>5. Lookup(k) = IF S = {} THEN NULL ELSE at[Min(S)]
  BY DEF Lookup
<1> HIDE DEF at
<1>6. CASE S = {}
  <2>1. ASSUME NEW e \in entries, ent[e].key = k PROVE FALSE
    <3>1. e \in Bucket(i)
      BY <2>1 DEF Bucket
    <3>2. e # NULL
      BY CacheAssumption DEF TypeInv
    <3> QED BY <1>4, <1>6, <2>1, <3>1, <3>2 DEF Matches
  <2> QED BY <1>5, <1>6, <2>1
<1>7. CASE S # {}
  <2>1. S \subseteq Nat
    BY <1>4, CacheAssumption, FS_CardinalityType, SMTT(30)
  <2>2. \E n \in S : \A m \in S : n <= m
    BY <1>7, <2>1, LeastNat
  <2>3. Min(S) \in S
    <3> HIDE DEF S
    <3> QED BY <2>2 DEF Min
  <2> QED BY <1>4, <1>5, <1>7, <2>3 DEF Matches, Bucket
<1> QED BY <1>6, <1>7

\* Who holds a buffer of an entry.
LEMMA HoldersAre ==
  ASSUME NEW e
  PROVE  /\ \A x : x \in Holders(e) <=>
              \E c \in Clients : \E i \in DOMAIN held[c] : x = <<c, i>> /\ HoldsOne(c, i, e)
         /\ \A x : x \in Holders(e)' <=>
              \E c \in Clients : \E i \in DOMAIN held'[c] : x = <<c, i>> /\ HoldsOne(c, i, e)'
BY SMTT(30) DEF Holders, HoldsOne, Users, Using

\* The holders of an entry are the same if the same blocks are held.
LEMMA HoldersKept ==
  ASSUME NEW e, \A c \in Clients : \A i : i \in DOMAIN held'[c] /\ HoldsOne(c, i, e)'
                                      <=> i \in DOMAIN held[c] /\ HoldsOne(c, i, e)
  PROVE  Holders(e)' = Holders(e)
<1>1. \A x : x \in Holders(e)' <=> x \in Holders(e)
  BY HoldersAre
<1> QED BY <1>1

-----------------------------------------------------------------------------
(* What a step that leaves a part of the state alone keeps *)

\* A step that leaves the keys and the chains alone keeps the hash table.
LEMMA HashFrame ==
  ASSUME TypeInv, HashInv, UNCHANGED <<cache_entries, entries>>,
         \A e \in Entries : ent'[e].next = ent[e].next /\ ent'[e].key = ent[e].key
  PROVE  HashInv'
<1>1. NextOf' = NextOf
  BY DEF NextOf
<1>2. \A i \in Buckets : Bucket(i)' = Bucket(i)
  BY DEF Bucket, TypeInv
<1>3. PICK age \in [Entries -> Int] : HashOrder(age)
  BY DEF HashInv
<1>4. HashOrder(age)'
  BY <1>1, <1>2, <1>3 DEF HashOrder
<1> QED BY <1>4 DEF HashInv

\* A step that leaves the recency list alone keeps it, if it makes nothing prunable
\* behind the candidate.
LEMMA LruFrame ==
  ASSUME LruInv, UNCHANGED <<most_recently_used, least_recently_used, entries>>,
         \A e \in Entries : /\ ent'[e].more_recent = ent[e].more_recent
                            /\ ent'[e].less_recent = ent[e].less_recent,
         Pruning' => /\ Pruning /\ prune_candidate' = prune_candidate
                     /\ \A e \in entries : Prunable(e)' => Prunable(e)
  PROVE  LruInv'
<1>1. LessOf' = LessOf /\ MoreOf' = MoreOf
  BY DEF LessOf, MoreOf
<1>2. PICK rank \in [Entries -> Int] : LruOrder(rank) /\ PruneOrder(rank)
  BY DEF LruInv
<1>3. LruOrder(rank)'
  BY <1>1, <1>2 DEF LruOrder, Negated
<1>4. PruneOrder(rank)'
  BY <1>2 DEF PruneOrder
<1> QED BY <1>3, <1>4 DEF LruInv

\* A prune starts with the oldest entry.
LEMMA PruneStarts ==
  ASSUME TypeInv, LruInv, UNCHANGED listVars, prune_candidate' = least_recently_used
  PROVE  LruInv'
<1>0. UNCHANGED <<cache_entries, most_recently_used, least_recently_used, ent, entries>>
  BY DEF listVars
<1>1. LessOf' = LessOf /\ MoreOf' = MoreOf
  BY <1>0 DEF LessOf, MoreOf
<1>2. PICK rank \in [Entries -> Int] : LruOrder(rank) /\ PruneOrder(rank)
  BY DEF LruInv
<1>3. LruOrder(rank)'
  BY <1>0, <1>1, <1>2 DEF LruOrder, Negated
<1>4. \A x \in entries : least_recently_used # NULL /\ rank[least_recently_used] <= rank[x]
  <2> SUFFICES ASSUME NEW x \in entries
               PROVE  least_recently_used # NULL /\ rank[least_recently_used] <= rank[x]
    OBVIOUS
  <2>1. least_recently_used \in entries /\ Negated(rank)[x] <= Negated(rank)[least_recently_used]
    BY <1>2 DEF LruOrder, IsList
  <2> QED BY <2>1, CacheAssumption, SMTT(30) DEF Negated, TypeInv
<1>5. PruneOrder(rank)'
  BY <1>0, <1>4 DEF PruneOrder
<1> QED BY <1>3, <1>5 DEF LruInv

\* A client whose blocks keep their headers and contents is as it was.
LEMMA ClientFrame ==
  ASSUME NEW d \in Clients, HeldInv(d), BuffersInv(d),
         pc'[d] = pc[d], key'[d] = key[d], held'[d] = held[d], found'[d] = found[d],
         held[d] \in Seq(Blocks),
         \A i \in DOMAIN held[d] :
           /\ held[d][i] \in blocks' /\ header'[held[d][i]] = header[held[d][i]]
           /\ contents'[held[d][i]] = contents[held[d][i]]
           /\ header[held[d][i]] # NULL =>
                ent'[header[held[d][i]]].key = ent[header[held[d][i]]].key
  PROVE  HeldInv(d)' /\ BuffersInv(d)'
<1>1. HeldInv(d)'
  BY DEF HeldInv, Distinct
<1>2. pc[d] \in Using => 1 \in DOMAIN held[d]
  BY SMTT(30) DEF HeldInv
<1>3. BuffersInv(d)'
  <2>1. /\ pc'[d] \in Private => \A i \in DOMAIN held'[d] : header'[held'[d][i]] = NULL
        /\ pc'[d] \in {"allocating", "computing"} =>
             \A i \in DOMAIN held'[d] : contents'[held'[d][i]] = NULL
        /\ pc'[d] \in {"computed", "storing"} =>
             \A i \in DOMAIN held'[d] : contents'[held'[d][i]] = key'[d]
    BY DEF BuffersInv
  <2>2. pc'[d] \in Using => \A i \in DOMAIN held'[d] :
          /\ contents'[held'[d][i]] \in {NULL, key'[d]}
          /\ header'[held'[d][i]] = header'[held'[d][1]]
          /\ header'[held'[d][i]] # NULL => ent'[header'[held'[d][i]]].key = key'[d]
    BY <1>2, SMTT(30) DEF BuffersInv
  <2>3. found'[d] = IF pc'[d] = "releasing" THEN header'[held'[d][1]] ELSE NULL
    BY <1>2 DEF BuffersInv, Using
  <2> QED BY <2>1, <2>2, <2>3 DEF BuffersInv
<1> QED BY <1>1, <1>3

\* A client that works on its own buffers, and leaves the entries alone: what it
\* frees and what it writes belongs to nobody else, and what it allocates it keeps.
OwnWork(c) ==
  /\ UNCHANGED listVars /\ header' = header
  /\ \A d \in Clients \ {c} : /\ pc'[d] = pc[d] /\ key'[d] = key[d]
                              /\ held'[d] = held[d] /\ found'[d] = found[d]
  /\ \A i \in DOMAIN held'[c] : held'[c][i] \in blocks =>
       \E j \in DOMAIN held[c] : held'[c][i] = held[c][j]
  /\ \A b \in Blocks : b \in blocks \ blocks' \/ contents'[b] # contents[b] =>
       header[b] = NULL /\ \E i \in DOMAIN held[c] : held[c][i] = b
  /\ \A b \in blocks' :
       b \notin blocks \/ (header[b] = NULL /\ \E i \in DOMAIN held[c] : held[c][i] = b) =>
         \E i \in DOMAIN held'[c] : held'[c][i] = b
  /\ \A b \in Blocks \ blocks' : contents'[b] = NULL
  /\ \/ pc[c] \in Using /\ pc'[c] \in Using /\ held'[c] = held[c]
     \/ /\ \A i \in DOMAIN held[c] : header[held[c][i]] = NULL
        /\ \A i \in DOMAIN held'[c] : header[held'[c][i]] = NULL
  /\ pc'[c] = "storing" => \A e \in entries : ent[e].key # key'[c]

\* A step of a client on blocks of its own keeps the invariant.
LEMMA OwnStep ==
  ASSUME Inv, TypeInv', LockInv', LruInv', NEW c \in Clients, HeldInv(c)', BuffersInv(c)', OwnWork(c)
  PROVE  Inv'
<1>a. UNCHANGED listVars /\ header' = header
  BY DEF OwnWork
<1>b. \A d \in Clients \ {c} : /\ pc'[d] = pc[d] /\ key'[d] = key[d]
                               /\ held'[d] = held[d] /\ found'[d] = found[d]
  BY DEF OwnWork
<1>c. \A i \in DOMAIN held'[c] : held'[c][i] \in blocks => \E j \in DOMAIN held[c] : held'[c][i] = held[c][j]
  BY DEF OwnWork
<1>d. \A b \in Blocks : b \in blocks \ blocks' \/ contents'[b] # contents[b] =>
        header[b] = NULL /\ \E i \in DOMAIN held[c] : held[c][i] = b
  BY DEF OwnWork
<1>e. \A b \in blocks' :
        b \notin blocks \/ (header[b] = NULL /\ \E i \in DOMAIN held[c] : held[c][i] = b) =>
          \E i \in DOMAIN held'[c] : held'[c][i] = b
  BY DEF OwnWork
<1>f. \A b \in Blocks \ blocks' : contents'[b] = NULL
  BY DEF OwnWork
<1>g. \/ pc[c] \in Using /\ pc'[c] \in Using /\ held'[c] = held[c]
      \/ /\ \A i \in DOMAIN held[c] : header[held[c][i]] = NULL
         /\ \A i \in DOMAIN held'[c] : header[held'[c][i]] = NULL
  BY DEF OwnWork
<1>h. pc'[c] = "storing" => \A e \in entries : ent[e].key # key'[c]
  BY DEF OwnWork
<1>0. UNCHANGED <<cache_entries, most_recently_used, least_recently_used, ent, entries>>
  BY <1>a DEF listVars
<1>1. HashInv'
  BY <1>0, HashFrame DEF Inv
<1>2. ASSUME NEW d \in Clients, d # c PROVE HeldInv(d)' /\ BuffersInv(d)'
  <2>1. held[d] \in Seq(Blocks) /\ HeldInv(d) /\ BuffersInv(d)
    BY DEF Inv, TypeInv, ClientInv
  <2>2. ASSUME NEW i \in DOMAIN held[d]
        PROVE  held[d][i] \in blocks' /\ contents'[held[d][i]] = contents[held[d][i]]
    <3>1. held[d][i] \in blocks /\ held[d][i] \in Blocks
      BY <2>1 DEF HeldInv, Inv, TypeInv
    <3>2. ~(header[held[d][i]] = NULL /\ \E j \in DOMAIN held[c] : held[c][j] = held[d][i])
      BY <1>2 DEF Inv, PrivateInv
    <3> QED BY <1>d, <3>1, <3>2
  <2>3. header' = header /\ pc'[d] = pc[d] /\ key'[d] = key[d] /\ held'[d] = held[d] /\ found'[d] = found[d]
    BY <1>2, <1>a, <1>b
  <2> QED BY <1>0, <2>1, <2>2, <2>3, ClientFrame
<1>3. ClientInv'
  BY <1>2 DEF ClientInv
<1>4. PrivateInv'
  <2> SUFFICES ASSUME NEW d1 \in Clients, NEW d2 \in Clients,
                      NEW i \in DOMAIN held'[d1], NEW j \in DOMAIN held'[d2],
                      held'[d1][i] = held'[d2][j], header[held'[d1][i]] = NULL, d1 # d2
               PROVE  FALSE
    BY <1>a DEF PrivateInv
  <2>1. ASSUME NEW d \in Clients, d # c, NEW m \in DOMAIN held'[c], NEW n \in DOMAIN held'[d],
               held'[c][m] = held'[d][n], header[held'[c][m]] = NULL
        PROVE  FALSE
    <3>1. held'[c][m] \in blocks
      BY <1>b, <2>1, SMTT(30) DEF Inv, ClientInv, HeldInv
    <3>2. PICK k \in DOMAIN held[c] : held'[c][m] = held[c][k]
      BY <1>c, <3>1
    <3>3. n \in DOMAIN held[d] /\ held[c][k] = held[d][n] /\ header[held[c][k]] = NULL
      BY <1>b, <2>1, <3>2
    <3> QED BY <2>1, <3>2, <3>3 DEF Inv, PrivateInv
  <2>2. CASE d1 = c
    BY <2>1, <2>2
  <2>3. CASE d2 = c
    BY <2>1, <2>3
  <2>4. CASE d1 # c /\ d2 # c
    BY <1>b, <2>4 DEF Inv, PrivateInv
  <2> QED BY <2>2, <2>3, <2>4
<1>5. EntryInv'
  <2>1. ASSUME NEW e \in entries PROVE StoredInv(e)'
    <3>1. StoredInv(e) /\ e # NULL /\ ent[e].buf \in Seq(Blocks)
      BY CacheAssumption DEF Inv, EntryInv, TypeInv, CacheEntries
    <3>2. \A i \in DOMAIN ent[e].buf :
            ent[e].buf[i] \in blocks' /\ contents'[ent[e].buf[i]] = contents[ent[e].buf[i]]
      BY <1>d, <3>1, SMTT(30) DEF StoredInv
    <3> QED BY <1>0, <1>a, <3>1, <3>2 DEF StoredInv, Distinct
  <2> QED BY <1>0, <2>1 DEF Inv, EntryInv
<1>6. BlockInv'
  <2>1. ASSUME NEW b \in blocks' PROVE OwnedInv(b)'
    <3>1. b \in Blocks
      BY DEF TypeInv
    <3>2. CASE b \notin blocks
      <4>1. header[b] = NULL /\ \E i \in DOMAIN held'[c] : held'[c][i] = b
        BY <1>e, <3>1, <3>2 DEF Inv, BlockInv
      <4> QED BY <1>a, <4>1 DEF OwnedInv
    <3>3. CASE b \in blocks /\ header[b] # NULL
      BY <1>0, <1>a, <3>3 DEF Inv, BlockInv, OwnedInv
    <3>4. CASE b \in blocks /\ header[b] = NULL
      <4>1. PICK d \in Clients : \E i \in DOMAIN held[d] : held[d][i] = b
        BY <3>4, CacheAssumption DEF Inv, BlockInv, OwnedInv, TypeInv
      <4>2. CASE d = c
        BY <1>a, <1>e, <3>4, <4>1, <4>2 DEF OwnedInv
      <4>3. CASE d # c
        BY <1>a, <1>b, <3>4, <4>1, <4>3 DEF OwnedInv
      <4> QED BY <4>2, <4>3
    <3> QED BY <3>2, <3>3, <3>4
  <2>2. \A b \in Blocks \ blocks' : header'[b] = NULL
    BY <1>a, <1>d DEF Inv, BlockInv
  <2> QED BY <1>f, <2>1, <2>2 DEF BlockInv
<1>7. KeyInv'
  <2>1. \A d \in Clients : pc'[d] = "storing" => \A e \in entries : ent[e].key # key'[d]
    BY <1>b, <1>h DEF Inv, KeyInv
  <2> QED BY <1>0, <2>1 DEF Inv, KeyInv
<1>8. UsersInv'
  <2>1. ASSUME NEW e \in entries PROVE Holders(e)' = Holders(e)
    <3>1. e # NULL
      BY CacheAssumption DEF Inv, TypeInv
    <3>2. ASSUME NEW d \in Clients, NEW i
          PROVE  i \in DOMAIN held'[d] /\ HoldsOne(d, i, e)' <=> i \in DOMAIN held[d] /\ HoldsOne(d, i, e)
      BY <1>a, <1>b, <1>g, <3>1, SMTT(30) DEF HoldsOne
    <3> QED BY <3>2, HoldersKept
  <2> QED BY <1>0, <2>1 DEF Inv, UsersInv
<1> QED BY <1>1, <1>3, <1>4, <1>5, <1>6, <1>7, <1>8 DEF Inv

\* A client that touches neither its buffers nor the entries.
LEMMA QuietStep ==
  ASSUME Inv, TypeInv', LockInv', LruInv', UNCHANGED <<listVars, blockVars, held>>,
         NEW c \in Clients, HeldInv(c)', BuffersInv(c)',
         \A d \in Clients \ {c} : pc'[d] = pc[d] /\ key'[d] = key[d] /\ found'[d] = found[d],
         pc[c] \in Private \cup {"idle"} \/ (pc[c] \in Using /\ pc'[c] \in Using),
         pc'[c] = "storing" => \A e \in entries : ent[e].key # key'[c]
  PROVE  Inv'
<1>1. UNCHANGED <<blocks, header, contents, held, listVars>>
  BY DEF blockVars
<1>2. \/ pc[c] \in Using /\ pc'[c] \in Using
      \/ \A i \in DOMAIN held[c] : header[held[c][i]] = NULL
  BY SMTT(30) DEF Inv, ClientInv, HeldInv, BuffersInv
<1>3. \A b \in Blocks \ blocks' : contents'[b] = NULL
  BY <1>1 DEF Inv, BlockInv
<1>4. OwnWork(c)
  BY <1>1, <1>2, <1>3 DEF OwnWork
<1> QED BY <1>4, OwnStep

\* A client that neither has nor takes the lock.
LEMMA LockKept ==
  ASSUME Inv, NEW c \in Clients, \A d \in Clients \ {c} : pc'[d] = pc[d],
         pc[c] \notin {"allocating", "storing"}, pc'[c] \notin {"allocating", "storing"},
         UNCHANGED <<listVars, lock, prune_candidate>>
  PROVE  LockInv' /\ LruInv'
<1>0. UNCHANGED <<cache_entries, most_recently_used, least_recently_used, ent, entries>>
  BY DEF listVars
<1>1. Pruning' <=> Pruning
  BY DEF Pruning
<1>2. LockInv'
  BY <1>0, <1>1 DEF Inv, LockInv
<1>3. \A e \in entries : Prunable(e)' <=> Prunable(e)
  BY <1>0 DEF Prunable
<1> QED BY <1>0, <1>1, <1>2, <1>3, LruFrame DEF Inv

\* A client that gives the lock back, or takes it to allocate.
LEMMA NobodyPrunes ==
  ASSUME Inv, NEW c \in Clients, \A d \in Clients \ {c} : pc'[d] = pc[d], UNCHANGED listVars,
         prune_candidate' = NULL,
         \/ lock = c /\ lock' = NULL /\ pc'[c] \notin {"allocating", "storing"}
         \/ lock = NULL /\ lock' = c /\ pc'[c] = "allocating"
  PROVE  LockInv' /\ LruInv'
<1>0. UNCHANGED <<cache_entries, most_recently_used, least_recently_used, ent, entries>>
  BY DEF listVars
<1>1. NULL \notin Clients /\ Application # NULL /\ Application \notin Clients
  BY CacheAssumption
<1>2. ~Pruning'
  BY <1>1 DEF Pruning
<1>3. LockInv'
  BY <1>1 DEF Inv, LockInv
<1> QED BY <1>0, <1>2, <1>3, LruFrame DEF Inv

\* Only a client that stores has a candidate.
LEMMA NoCandidate ==
  ASSUME Inv, NEW c \in Clients, lock = NULL \/ (lock = c /\ pc[c] = "allocating")
  PROVE  prune_candidate = NULL
BY CacheAssumption DEF Inv, LockInv, Pruning

-----------------------------------------------------------------------------
(* One lemma for each action *)

\* A look-up that misses keeps the invariant.
LEMMA LookupMissInv ==
  ASSUME Inv, NEW c \in Clients, NEW k \in Keys, LookupMiss(c, k), UNCHANGED workload
  PROVE  Inv'
<1>0. /\ pc[c] = "idle" /\ lock = NULL /\ lock' = c /\ key' = [key EXCEPT ![c] = k]
      /\ pc' = [pc EXCEPT ![c] = "allocating"]
      /\ UNCHANGED <<listVars, sizeVars, blockVars, held, found, prune_candidate>>
  BY DEF LookupMiss, MayStart, Return
<1>1. UNCHANGED <<cache_entries, most_recently_used, least_recently_used, ent, entries, max_cache_size,
                  current_cache_size, blocks, header, contents>>
  BY <1>0 DEF listVars, sizeVars, blockVars
<1>2. TypeInv'
  BY <1>0, <1>1 DEF Inv, TypeInv, Labels
<1>3. /\ pc'[c] = "allocating" /\ key'[c] = k
      /\ \A d \in Clients \ {c} : pc'[d] = pc[d] /\ key'[d] = key[d]
  BY <1>0 DEF Inv, TypeInv
<1>y. lock = NULL /\ prune_candidate' = prune_candidate
  BY <1>0
<1>z. prune_candidate' = NULL
  BY <1>y, NoCandidate
<1>4. LockInv' /\ LruInv'
  BY <1>0, <1>3, <1>z, NobodyPrunes
<1>5. HeldInv(c) /\ BuffersInv(c) /\ held[c] = <<>>
  BY <1>0 DEF Inv, ClientInv, HeldInv
<1>6. HeldInv(c)'
  <2>1. TupleCount[k] \in Nat
    BY CacheAssumption
  <2> QED BY <1>0, <1>3, <1>5, <2>1, SMTT(30) DEF HeldInv, Distinct, Private, Using
<1>7. BuffersInv(c)'
  BY <1>0, <1>3, <1>5, SMTT(30) DEF BuffersInv, Using
<1>a. \A d \in Clients \ {c} : pc'[d] = pc[d] /\ key'[d] = key[d] /\ found'[d] = found[d]
  BY <1>0, <1>3
<1>p. pc[c] = "idle" /\ pc'[c] = "allocating"
  BY <1>0, <1>3
<1>b. pc[c] \in Private \cup {"idle"} \/ (pc[c] \in Using /\ pc'[c] \in Using)
  BY <1>p
<1>c. pc'[c] # "storing"
  BY <1>p
<1>d. UNCHANGED <<listVars, blockVars, held>>
  BY <1>0
<1> QED BY <1>2, <1>4, <1>6, <1>7, <1>a, <1>b, <1>c, <1>d, QuietStep

\* So does the end of the look-up, once the blocks are allocated,
LEMMA LookupDoneInv == ASSUME Inv, NEW c \in Clients, LookupDone(c), UNCHANGED workload PROVE Inv'
<1>0. /\ pc[c] = "allocating" /\ lock' = NULL /\ Len(held[c]) = TupleCount[key[c]]
      /\ pc' = [pc EXCEPT ![c] = "computing"]
      /\ UNCHANGED <<listVars, sizeVars, blockVars, key, held, found, prune_candidate>>
  BY DEF LookupDone, Return
<1>1. UNCHANGED <<cache_entries, most_recently_used, least_recently_used, ent, entries, max_cache_size,
                  current_cache_size, blocks, header, contents>>
  BY <1>0 DEF listVars, sizeVars, blockVars
<1>2. TypeInv'
  BY <1>0, <1>1 DEF Inv, TypeInv, Labels
<1>3. pc'[c] = "computing" /\ \A d \in Clients \ {c} : pc'[d] = pc[d]
  BY <1>0 DEF Inv, TypeInv
<1>4. lock = c
  BY <1>0 DEF Inv, LockInv
<1>5. LockInv' /\ LruInv'
  BY <1>0, <1>3, <1>4, NobodyPrunes, NoCandidate
<1>6. HeldInv(c) /\ BuffersInv(c)
  BY DEF Inv, ClientInv
<1>7. HeldInv(c)'
  BY <1>0, <1>1, <1>3, <1>6 DEF HeldInv, Distinct, Private, Using
<1>8. BuffersInv(c)'
  BY <1>0, <1>1, <1>3, <1>6 DEF BuffersInv, Private, Using
<1>a. \A d \in Clients \ {c} : pc'[d] = pc[d] /\ key'[d] = key[d] /\ found'[d] = found[d]
  BY <1>0, <1>3
<1>p. pc[c] = "allocating" /\ pc'[c] = "computing"
  BY <1>0, <1>3
<1>b. pc[c] \in Private \cup {"idle"} \/ (pc[c] \in Using /\ pc'[c] \in Using)
  BY <1>p DEF Private
<1>c. pc'[c] # "storing"
  BY <1>p
<1>d. UNCHANGED <<listVars, blockVars, held>>
  BY <1>0
<1> QED BY <1>2, <1>5, <1>7, <1>8, <1>a, <1>b, <1>c, <1>d, QuietStep

\* and a producer that fails before it stores its result.
LEMMA ComputeFailsInv == ASSUME Inv, NEW c \in Clients, ComputeFails(c), UNCHANGED workload PROVE Inv'
<1>0. /\ pc[c] = "computing" /\ pc' = [pc EXCEPT ![c] = "using"]
      /\ UNCHANGED <<lock, listVars, sizeVars, blockVars, key, held, found, prune_candidate>>
  BY DEF ComputeFails, Return
<1>1. UNCHANGED <<cache_entries, most_recently_used, least_recently_used, ent, entries, max_cache_size,
                  current_cache_size, blocks, header, contents>>
  BY <1>0 DEF listVars, sizeVars, blockVars
<1>2. TypeInv'
  BY <1>0, <1>1 DEF Inv, TypeInv, Labels
<1>3. pc'[c] = "using" /\ \A d \in Clients \ {c} : pc'[d] = pc[d]
  BY <1>0 DEF Inv, TypeInv
<1>4. LockInv' /\ LruInv'
  BY <1>0, <1>3, LockKept
<1>5. HeldInv(c) /\ BuffersInv(c) /\ held[c] \in Seq(Blocks)
  BY DEF Inv, ClientInv, TypeInv
<1>6. Len(held[c]) # 0
  BY <1>0, <1>5, CacheAssumption DEF HeldInv, Private
<1>7. HeldInv(c)'
  BY <1>0, <1>1, <1>3, <1>5, <1>6 DEF HeldInv, Distinct, Private, Using
<1>8. BuffersInv(c)'
  BY <1>0, <1>1, <1>3, <1>5, <1>6, SMTT(30) DEF BuffersInv, Private, Using
<1>a. \A d \in Clients \ {c} : pc'[d] = pc[d] /\ key'[d] = key[d] /\ found'[d] = found[d]
  BY <1>0, <1>3
<1>p. pc[c] = "computing" /\ pc'[c] = "using"
  BY <1>0, <1>3
<1>b. pc[c] \in Private \cup {"idle"} \/ (pc[c] \in Using /\ pc'[c] \in Using)
  BY <1>p DEF Private
<1>c. pc'[c] # "storing"
  BY <1>p
<1>d. UNCHANGED <<listVars, blockVars, held>>
  BY <1>0
<1> QED BY <1>2, <1>4, <1>7, <1>8, <1>a, <1>b, <1>c, <1>d, QuietStep

\* The buffers of a client that stores carry no entry yet.
LEMMA StoreKnownInv == ASSUME Inv, NEW c \in Clients, StoreKnown(c), UNCHANGED workload PROVE Inv'
<1>0. /\ pc[c] = "computed" /\ pc' = [pc EXCEPT ![c] = "using"]
      /\ header' = [b \in Blocks |-> IF b \in Range(held[c]) THEN NULL ELSE header[b]]
      /\ UNCHANGED <<lock, listVars, sizeVars, blocks, contents, key, held, found, prune_candidate>>
  BY DEF StoreKnown, Return
<1>1. HeldInv(c) /\ BuffersInv(c) /\ held[c] \in Seq(Blocks)
  BY DEF Inv, ClientInv, TypeInv
<1>2. header' = header
  <2>1. \A b \in Range(held[c]) : header[b] = NULL
    BY <1>0, <1>1 DEF BuffersInv, Private, Range
  <2> QED BY <1>0, <2>1 DEF Inv, TypeInv
<1>3. UNCHANGED <<cache_entries, most_recently_used, least_recently_used, ent, entries, max_cache_size,
                  current_cache_size, blockVars>>
  BY <1>0, <1>2 DEF listVars, sizeVars, blockVars
<1>4. TypeInv'
  BY <1>0, <1>2, <1>3 DEF Inv, TypeInv, Labels
<1>5. pc'[c] = "using" /\ \A d \in Clients \ {c} : pc'[d] = pc[d]
  BY <1>0 DEF Inv, TypeInv
<1>6. LockInv' /\ LruInv'
  BY <1>0, <1>5, LockKept
<1>7. Len(held[c]) # 0
  BY <1>0, <1>1, CacheAssumption DEF HeldInv, Private
<1>8. HeldInv(c)'
  BY <1>0, <1>1, <1>5, <1>7 DEF HeldInv, Distinct, Private, Using
<1>9. BuffersInv(c)'
  BY <1>0, <1>1, <1>2, <1>5, <1>7, SMTT(30) DEF BuffersInv, Private, Using
<1>a. \A d \in Clients \ {c} : pc'[d] = pc[d] /\ key'[d] = key[d] /\ found'[d] = found[d]
  BY <1>0, <1>5
<1>p. pc[c] = "computed" /\ pc'[c] = "using"
  BY <1>0, <1>5
<1>b. pc[c] \in Private \cup {"idle"} \/ (pc[c] \in Using /\ pc'[c] \in Using)
  BY <1>p DEF Private
<1>c. pc'[c] # "storing"
  BY <1>p
<1>d. UNCHANGED <<listVars, blockVars, held>>
  BY <1>0, <1>3
<1> QED BY <1>4, <1>6, <1>8, <1>9, <1>a, <1>b, <1>c, <1>d, QuietStep

\* halide_memoization_cache_release reads the header of a block.
LEMMA ReadHeaderInv == ASSUME Inv, NEW c \in Clients, ReadHeader(c), UNCHANGED workload PROVE Inv'
<1>0. /\ pc[c] = "using" /\ found' = [found EXCEPT ![c] = header[Head(held[c])]]
      /\ pc' = [pc EXCEPT ![c] = "releasing"]
      /\ UNCHANGED <<lock, listVars, sizeVars, blockVars, key, held, prune_candidate>>
  BY DEF ReadHeader, Return
<1>1. UNCHANGED <<cache_entries, most_recently_used, least_recently_used, ent, entries, max_cache_size,
                  current_cache_size, blocks, header, contents>>
  BY <1>0 DEF listVars, sizeVars, blockVars
<1>2. HeldInv(c) /\ BuffersInv(c) /\ held[c] \in Seq(Blocks)
  BY DEF Inv, ClientInv, TypeInv
<1>3. 1 \in DOMAIN held[c] /\ Head(held[c]) = held[c][1] /\ header[held[c][1]] \in Pointers
  BY <1>0, <1>2, SMTT(30) DEF HeldInv, Using, Inv, TypeInv
<1>4. TypeInv'
  BY <1>0, <1>1, <1>3 DEF Inv, TypeInv, Labels
<1>5. /\ pc'[c] = "releasing" /\ found'[c] = header[held[c][1]]
      /\ \A d \in Clients \ {c} : pc'[d] = pc[d] /\ found'[d] = found[d]
  BY <1>0, <1>3 DEF Inv, TypeInv
<1>6. LockInv' /\ LruInv'
  BY <1>0, <1>5, LockKept
<1>7. HeldInv(c)'
  BY <1>0, <1>1, <1>2, <1>5 DEF HeldInv, Distinct, Private, Using
<1>8. BuffersInv(c)'
  BY <1>0, <1>1, <1>2, <1>5 DEF BuffersInv, Private, Using
<1>a. \A d \in Clients \ {c} : pc'[d] = pc[d] /\ key'[d] = key[d] /\ found'[d] = found[d]
  BY <1>0, <1>5
<1>p. pc[c] = "using" /\ pc'[c] = "releasing"
  BY <1>0, <1>5
<1>b. pc[c] \in Private \cup {"idle"} \/ (pc[c] \in Using /\ pc'[c] \in Using)
  BY <1>p DEF Using
<1>c. pc'[c] # "storing"
  BY <1>p
<1>d. UNCHANGED <<listVars, blockVars, held>>
  BY <1>0
<1> QED BY <1>4, <1>6, <1>7, <1>8, <1>a, <1>b, <1>c, <1>d, QuietStep

\* What StoreNew knows after the walk of the chain.
LEMMA NotStored ==
  ASSUME Inv, NEW k \in Keys, Lookup(k) = NULL
  PROVE  \A e \in entries : ent[e].key # k
BY LookupFinds, CacheAssumption DEF Inv, TypeInv

\* A store that finds its key missing goes on to prune.
LEMMA StoreNewInv == ASSUME Inv, NEW c \in Clients, StoreNew(c), UNCHANGED workload PROVE Inv'
<1>0. /\ pc[c] = "computed" /\ lock = NULL /\ Lookup(key[c]) = NULL /\ lock' = c
      /\ current_cache_size' = current_cache_size + Bytes[key[c]]
      /\ prune_candidate' = least_recently_used /\ pc' = [pc EXCEPT ![c] = "storing"]
      /\ UNCHANGED <<listVars, max_cache_size, blockVars, key, held, found>>
  BY DEF StoreNew, Return
<1>1. UNCHANGED <<cache_entries, most_recently_used, least_recently_used, ent, entries, blocks, header,
                  contents>>
  BY <1>0 DEF listVars, blockVars
<1>2. HeldInv(c) /\ BuffersInv(c)
  BY DEF Inv, ClientInv
<1>3. key[c] \in Keys /\ Bytes[key[c]] \in Int
  BY <1>0, <1>2, CacheAssumption, SMTT(30) DEF HeldInv
<1>4. TypeInv'
  BY <1>0, <1>1, <1>3, SMTT(30) DEF Inv, TypeInv, Labels
<1>5. pc'[c] = "storing" /\ \A d \in Clients \ {c} : pc'[d] = pc[d]
  BY <1>0 DEF Inv, TypeInv
<1>6. LruInv'
  BY <1>0, PruneStarts DEF Inv
<1>7. least_recently_used \in entries \cup {NULL}
  BY DEF Inv, LruInv, LruOrder, IsList
<1>8. LockInv'
  BY <1>0, <1>1, <1>5, <1>7, CacheAssumption DEF Inv, LockInv, Pruning
<1>9. HeldInv(c)'
  BY <1>0, <1>1, <1>2, <1>5 DEF HeldInv, Distinct, Private, Using
<1>10. BuffersInv(c)'
  BY <1>0, <1>1, <1>2, <1>5 DEF BuffersInv, Private, Using
<1>a. \A d \in Clients \ {c} : pc'[d] = pc[d] /\ key'[d] = key[d] /\ found'[d] = found[d]
  BY <1>0, <1>5
<1>b. pc[c] \in Private
  BY <1>0 DEF Private
<1>c. \A e \in entries : ent[e].key # key'[c]
  BY <1>0, <1>3, NotStored
<1>d. UNCHANGED <<listVars, blockVars, held>>
  BY <1>0
<1> QED BY <1>4, <1>6, <1>8, <1>9, <1>10, <1>a, <1>b, <1>c, <1>d, QuietStep

\* A store that gets no memory for its entry leaves the blocks to its client.
LEMMA StoreFailsInv == ASSUME Inv, NEW c \in Clients, StoreFails(c), UNCHANGED workload PROVE Inv'
<1>0. /\ pc[c] = "storing" /\ pc' = [pc EXCEPT ![c] = "using"]
      /\ header' = [b \in Blocks |-> IF b \in Range(held[c]) THEN NULL ELSE header[b]]
      /\ lock' = NULL /\ prune_candidate' = NULL
      /\ current_cache_size' = current_cache_size - Bytes[key[c]]
      /\ UNCHANGED <<listVars, max_cache_size, blocks, contents, key, held, found>>
  BY DEF StoreFails, Return, WithoutAdded
<1>1. HeldInv(c) /\ BuffersInv(c) /\ held[c] \in Seq(Blocks)
  BY DEF Inv, ClientInv, TypeInv
<1>2. header' = header
  <2>1. \A b \in Range(held[c]) : header[b] = NULL
    BY <1>0, <1>1 DEF BuffersInv, Private, Range
  <2> QED BY <1>0, <2>1 DEF Inv, TypeInv
<1>3. UNCHANGED <<cache_entries, most_recently_used, least_recently_used, ent, entries, blockVars>>
  BY <1>0, <1>2 DEF listVars, blockVars
<1>x. Bytes[key[c]] \in Int /\ Len(held[c]) # 0 /\ lock = c
  BY <1>0, <1>1, CacheAssumption, SMTT(30) DEF HeldInv, Private, Inv, LockInv
<1>y. current_cache_size' \in Int
  BY <1>0, <1>x, SMTT(30) DEF Inv, TypeInv
<1>4. TypeInv'
  <2>1. pc' \in [Clients -> Labels]
    BY <1>0 DEF Inv, TypeInv, Labels
  <2>2. lock' \in Clients \cup {Application, NULL} /\ prune_candidate' \in Pointers
    BY <1>0 DEF Pointers
  <2>3. UNCHANGED <<workload, max_cache_size, blocks, contents, key, held, found>>
    BY <1>0
  <2> QED BY <1>2, <1>3, <1>y, <2>1, <2>2, <2>3 DEF Inv, TypeInv
<1>5. pc'[c] = "using" /\ \A d \in Clients \ {c} : pc'[d] = pc[d]
  BY <1>0 DEF Inv, TypeInv
<1>6. LockInv' /\ LruInv'
  BY <1>0, <1>5, <1>x, NobodyPrunes
<1>8. HeldInv(c)'
  BY <1>0, <1>1, <1>5, <1>x DEF HeldInv, Distinct, Private, Using
<1>9. BuffersInv(c)'
  <2>1. /\ 1 \in DOMAIN held[c] /\ found[c] = NULL
        /\ \A i \in DOMAIN held[c] : header[held[c][i]] = NULL /\ contents[held[c][i]] = key[c]
    BY <1>0, <1>1, <1>x, SMTT(30) DEF BuffersInv, Private
  <2>2. UNCHANGED <<header, contents, key, held, found>>
    BY <1>0, <1>2
  <2>3. pc'[c] \notin Private /\ pc'[c] \notin {"allocating", "computing"}
        /\ pc'[c] \notin {"computed", "storing"} /\ pc'[c] # "releasing"
    BY <1>5 DEF Private
  <2> QED BY <2>1, <2>2, <2>3 DEF BuffersInv
<1>a. \A d \in Clients \ {c} : pc'[d] = pc[d] /\ key'[d] = key[d] /\ found'[d] = found[d]
  BY <1>0, <1>5
<1>b. pc[c] \in Private
  BY <1>0 DEF Private
<1>c. pc'[c] # "storing"
  BY <1>5
<1>d. UNCHANGED <<listVars, blockVars, held>>
  BY <1>0, <1>3
<1> QED BY <1>4, <1>6, <1>8, <1>9, <1>a, <1>b, <1>c, <1>d, QuietStep

\* A producer fills its own blocks.
LEMMA ComputeInv == ASSUME Inv, NEW c \in Clients, Compute(c), UNCHANGED workload PROVE Inv'
<1>0. /\ pc[c] = "computing" /\ pc' = [pc EXCEPT ![c] = "computed"]
      /\ contents' = [b \in Blocks |-> IF b \in Range(held[c]) THEN key[c] ELSE contents[b]]
      /\ UNCHANGED <<lock, listVars, sizeVars, blocks, header, key, held, found, prune_candidate>>
  BY DEF Compute, Return
<1>1. UNCHANGED <<cache_entries, most_recently_used, least_recently_used, ent, entries, max_cache_size,
                  current_cache_size>>
  BY <1>0 DEF listVars, sizeVars
<1>2. HeldInv(c) /\ BuffersInv(c) /\ held[c] \in Seq(Blocks) /\ key[c] \in Keys
  BY <1>0 DEF Inv, ClientInv, TypeInv, HeldInv
<1>3. TypeInv'
  BY <1>0, <1>1, <1>2 DEF Inv, TypeInv, Labels
<1>4. pc'[c] = "computed" /\ \A d \in Clients \ {c} : pc'[d] = pc[d]
  BY <1>0 DEF Inv, TypeInv
<1>5. LockInv' /\ LruInv'
  BY <1>0, <1>4, LockKept
<1>6. \A i \in DOMAIN held[c] : held[c][i] \in Blocks /\ contents'[held[c][i]] = key[c]
  BY <1>0, <1>2, SMTT(30) DEF Range
<1>7. HeldInv(c)'
  BY <1>0, <1>2, <1>4 DEF HeldInv, Distinct, Private, Using
<1>8. BuffersInv(c)'
  BY <1>0, <1>2, <1>4, <1>6 DEF BuffersInv, Private, Using
<1>9. \A i \in DOMAIN held[c] : header[held[c][i]] = NULL /\ held[c][i] \in blocks
  BY <1>0, <1>2 DEF HeldInv, BuffersInv, Private
<1>10. \A b \in Blocks : contents'[b] # contents[b] =>
         header[b] = NULL /\ \E i \in DOMAIN held[c] : held[c][i] = b
  BY <1>0, <1>9 DEF Range
<1>11. \A b \in Blocks \ blocks' : contents'[b] = NULL
  BY <1>0, <1>9 DEF Range, Inv, BlockInv
<1>a. \A d \in Clients \ {c} : /\ pc'[d] = pc[d] /\ key'[d] = key[d]
                               /\ held'[d] = held[d] /\ found'[d] = found[d]
  BY <1>0, <1>4
<1>b. UNCHANGED <<listVars, header, blocks>> /\ held'[c] = held[c] /\ pc'[c] # "storing"
  BY <1>0, <1>4
<1>c. OwnWork(c)
  BY <1>9, <1>10, <1>11, <1>a, <1>b DEF OwnWork
<1> QED BY <1>3, <1>5, <1>7, <1>8, <1>c, OwnStep

\* A block is allocated for a look-up that missed.
LEMMA AllocateBlockInv == ASSUME Inv, NEW c \in Clients, AllocateBlock(c), UNCHANGED workload PROVE Inv'
<1>0. PICK b \in Blocks \ blocks :
        /\ pc[c] = "allocating" /\ Len(held[c]) < TupleCount[key[c]]
        /\ blocks' = blocks \cup {b} /\ header' = [header EXCEPT ![b] = NULL]
        /\ contents' = [contents EXCEPT ![b] = NULL]
        /\ held' = [held EXCEPT ![c] = Append(held[c], b)]
        /\ UNCHANGED <<lock, listVars, sizeVars, pc, key, found, prune_candidate>>
  BY DEF AllocateBlock
<1>1. UNCHANGED <<cache_entries, most_recently_used, least_recently_used, ent, entries, max_cache_size,
                  current_cache_size>>
  BY <1>0 DEF listVars, sizeVars
<1>2. HeldInv(c) /\ BuffersInv(c) /\ held[c] \in Seq(Blocks) /\ key[c] \in Keys /\ TupleCount[key[c]] \in Nat
  BY <1>0, CacheAssumption DEF Inv, ClientInv, TypeInv, HeldInv
<1>3. header' = header /\ contents' = contents /\ header[b] = NULL /\ contents[b] = NULL
  BY <1>0 DEF Inv, TypeInv, BlockInv
<1>4. /\ held'[c] = Append(held[c], b) /\ held'[c] \in Seq(Blocks)
      /\ \A d \in Clients \ {c} : held'[d] = held[d]
  BY <1>0, <1>2, SMTT(30) DEF Inv, TypeInv
<1>5. TypeInv'
  <2>1. held' \in [Clients -> Seq(Blocks)]
    BY <1>0, <1>4 DEF Inv, TypeInv
  <2> QED BY <1>0, <1>1, <1>3, <2>1 DEF Inv, TypeInv
<1>6. LockInv' /\ LruInv'
  <2>1. Pruning' <=> Pruning
    BY <1>0 DEF Pruning
  <2>2. LockInv'
    BY <1>0, <1>1, <2>1 DEF Inv, LockInv
  <2>3. \A e \in entries : Prunable(e)' <=> Prunable(e)
    BY <1>1 DEF Prunable
  <2> QED BY <1>0, <1>1, <2>1, <2>2, <2>3, LruFrame DEF Inv
<1>7. /\ DOMAIN held'[c] = 1..(Len(held[c]) + 1) /\ Len(held'[c]) = Len(held[c]) + 1
      /\ DOMAIN held[c] = 1..Len(held[c]) /\ Len(held[c]) \in Nat
      /\ \A i \in DOMAIN held[c] : held'[c][i] = held[c][i]
      /\ held'[c][Len(held[c]) + 1] = b
  BY <1>2, <1>4, SMTT(30)
<1>8. \A i \in DOMAIN held'[c] : \/ i \in DOMAIN held[c] /\ held'[c][i] = held[c][i]
                                 \/ i = Len(held[c]) + 1 /\ held'[c][i] = b
  BY <1>7, SMTT(30)
<1>9. \A i \in DOMAIN held[c] : held[c][i] \in blocks /\ held[c][i] # b /\ header[held[c][i]] = NULL
                                /\ contents[held[c][i]] = NULL
  BY <1>0, <1>2 DEF HeldInv, BuffersInv, Private
<1>10. HeldInv(c)'
  <2>1. Distinct(held[c])
    BY <1>2 DEF HeldInv
  <2>2. Distinct(held'[c])
    BY <1>8, <1>9, <2>1 DEF Distinct
  <2>3. \A i \in DOMAIN held'[c] : held'[c][i] \in blocks'
    BY <1>0, <1>8, <1>9, SMTT(30)
  <2>4. Len(held'[c]) <= TupleCount[key[c]]
    BY <1>0, <1>2, <1>7, SMTT(30)
  <2> QED BY <1>0, <1>2, <2>2, <2>3, <2>4 DEF HeldInv, Private, Using, Distinct
<1>11. \A i \in DOMAIN held'[c] : header[held'[c][i]] = NULL /\ contents[held'[c][i]] = NULL
  BY <1>3, <1>8, <1>9
<1>12. BuffersInv(c)'
  BY <1>0, <1>2, <1>3, <1>11 DEF BuffersInv, Private, Using
<1>13. \A i \in DOMAIN held'[c] : held'[c][i] \in blocks => \E j \in DOMAIN held[c] : held'[c][i] = held[c][j]
  BY <1>8
<1>14. \A x \in blocks' : x \notin blocks \/ (\E i \in DOMAIN held[c] : held[c][i] = x) =>
         \E i \in DOMAIN held'[c] : held'[c][i] = x
  BY <1>0, <1>7, SMTT(30)
<1>15. \A x \in Blocks : ~(x \in blocks \ blocks') /\ contents'[x] = contents[x]
  BY <1>0, <1>3
<1>16. \A x \in Blocks \ blocks' : contents'[x] = NULL
  BY <1>0, <1>3 DEF Inv, BlockInv
<1>a. \A d \in Clients \ {c} : /\ pc'[d] = pc[d] /\ key'[d] = key[d]
                               /\ held'[d] = held[d] /\ found'[d] = found[d]
  BY <1>0, <1>4
<1>b. UNCHANGED <<listVars, header>> /\ pc'[c] # "storing"
  BY <1>0, <1>3
<1>c. \/ pc[c] \in Using /\ pc'[c] \in Using /\ held'[c] = held[c]
      \/ /\ \A i \in DOMAIN held[c] : header[held[c][i]] = NULL
         /\ \A i \in DOMAIN held'[c] : header[held'[c][i]] = NULL
  BY <1>9, <1>11
<1>d. OwnWork(c)
  BY <1>13, <1>14, <1>15, <1>16, <1>a, <1>b, <1>c DEF OwnWork
<1> QED BY <1>5, <1>6, <1>10, <1>12, <1>d, OwnStep

\* A client that frees some of its own blocks.
FreesOwn(c, freed) ==
  /\ Wipe(freed) /\ UNCHANGED listVars /\ pc'[c] # "storing"
  /\ \A d \in Clients \ {c} : /\ pc'[d] = pc[d] /\ key'[d] = key[d]
                              /\ held'[d] = held[d] /\ found'[d] = found[d]
  /\ \A i \in DOMAIN held[c] : header[held[c][i]] = NULL
  /\ \A x \in freed : \E i \in DOMAIN held[c] : held[c][i] = x
  /\ \A i \in DOMAIN held[c] : held[c][i] \in freed \/ \E j \in DOMAIN held'[c] : held'[c][j] = held[c][i]
  /\ \A i \in DOMAIN held'[c] : \E j \in DOMAIN held[c] : held'[c][i] = held[c][j]

\* The types that such a step has to keep.
FreeTypes ==
  /\ UNCHANGED <<listVars, sizeVars, workload, prune_candidate>> /\ lock' \in {lock, NULL}
  /\ pc' \in [Clients -> Labels] /\ key' \in [Clients -> Keys \cup {NULL}]
  /\ held' \in [Clients -> Seq(Blocks)] /\ found' \in [Clients -> Pointers]

\* A client that frees blocks of its own keeps the invariant.
LEMMA FreeOwn ==
  ASSUME Inv, NEW c \in Clients, NEW freed, FreesOwn(c, freed), FreeTypes,
         LockInv', LruInv', HeldInv(c)', BuffersInv(c)'
  PROVE  Inv'
<1>0. /\ blocks' = blocks \ freed
      /\ header' = [b \in Blocks |-> IF b \in freed THEN NULL ELSE header[b]]
      /\ contents' = [b \in Blocks |-> IF b \in freed THEN NULL ELSE contents[b]]
  BY DEF FreesOwn, Wipe
<1>a. /\ \A i \in DOMAIN held[c] : header[held[c][i]] = NULL
      /\ \A x \in freed : \E i \in DOMAIN held[c] : held[c][i] = x
      /\ \A i \in DOMAIN held[c] : held[c][i] \in freed \/ \E j \in DOMAIN held'[c] : held'[c][j] = held[c][i]
      /\ \A i \in DOMAIN held'[c] : \E j \in DOMAIN held[c] : held'[c][i] = held[c][j]
  BY DEF FreesOwn
<1>1. header' = header
  BY <1>0, <1>a, SMTT(30) DEF Inv, TypeInv
<1>2. TypeInv'
  <2>1. UNCHANGED <<cache_entries, most_recently_used, least_recently_used, ent, entries, max_cache_size,
                    current_cache_size, workload>>
    BY DEF FreeTypes, listVars, sizeVars
  <2>2. blocks' \subseteq Blocks /\ contents' \in [Blocks -> Keys \cup {NULL}]
    BY <1>0 DEF Inv, TypeInv
  <2>3. lock' \in Clients \cup {Application, NULL} /\ prune_candidate' \in Pointers
    BY DEF Inv, TypeInv, Pointers, FreeTypes
  <2> QED BY <1>1, <2>1, <2>2, <2>3 DEF Inv, TypeInv, FreeTypes
<1>3. \A i \in DOMAIN held'[c] : header[held'[c][i]] = NULL
  BY <1>a, SMTT(30)
<1>4. \A b \in Blocks : b \in blocks \ blocks' \/ contents'[b] # contents[b] =>
           header[b] = NULL /\ \E i \in DOMAIN held[c] : held[c][i] = b
  BY <1>0, <1>a, SMTT(30)
<1>5. \A b \in blocks' :
        b \notin blocks \/ (header[b] = NULL /\ \E i \in DOMAIN held[c] : held[c][i] = b) =>
          \E i \in DOMAIN held'[c] : held'[c][i] = b
  BY <1>0, <1>a
<1>6. \A b \in Blocks \ blocks' : contents'[b] = NULL
  BY <1>0 DEF Inv, BlockInv
<1>7. OwnWork(c)
  BY <1>1, <1>3, <1>4, <1>5, <1>6, <1>a DEF OwnWork, FreesOwn
<1> QED BY <1>2, <1>7, OwnStep

\* When an allocation fails the blocks allocated before are freed.
LEMMA AllocateFailsInv == ASSUME Inv, NEW c \in Clients, AllocateFails(c), UNCHANGED workload PROVE Inv'
<1>0. /\ pc[c] = "allocating" /\ held' = [held EXCEPT ![c] = <<>>] /\ lock' = NULL
      /\ pc' = [pc EXCEPT ![c] = "idle"] /\ key' = [key EXCEPT ![c] = NULL]
      /\ UNCHANGED <<listVars, sizeVars, found, prune_candidate>>
      /\ Wipe(IF held[c] = <<>> THEN {} ELSE Range(held[c]))
  BY DEF AllocateFails, Return, Forget, HeldSoFar
<1>1. HeldInv(c) /\ BuffersInv(c) /\ held[c] \in Seq(Blocks)
  BY DEF Inv, ClientInv, TypeInv
<1>2. Wipe(Range(held[c]))
  <2>1. held[c] = <<>> => Range(held[c]) = {}
    BY SMTT(30) DEF Range
  <2>2. (IF held[c] = <<>> THEN {} ELSE Range(held[c])) = Range(held[c])
    BY <2>1
  <2> QED BY <1>0, <2>2
<1>3. /\ pc' \in [Clients -> Labels] /\ key' \in [Clients -> Keys \cup {NULL}]
      /\ held' \in [Clients -> Seq(Blocks)] /\ found' \in [Clients -> Pointers]
  BY <1>0, SMTT(30) DEF Inv, TypeInv, Labels
<1>4. /\ pc'[c] = "idle" /\ held'[c] = <<>> /\ key'[c] = NULL /\ found'[c] = found[c]
      /\ \A d \in Clients \ {c} : /\ pc'[d] = pc[d] /\ key'[d] = key[d]
                                  /\ held'[d] = held[d] /\ found'[d] = found[d]
  BY <1>0 DEF Inv, TypeInv
<1>5. lock = c /\ prune_candidate = NULL
  BY <1>0, NoCandidate DEF Inv, LockInv
<1>6. LockInv' /\ LruInv'
  BY <1>0, <1>4, <1>5, NobodyPrunes
<1>7. HeldInv(c)'
  BY <1>4, SMTT(30) DEF HeldInv, Distinct, Private, Using
<1>8. BuffersInv(c)'
  BY <1>0, <1>1, <1>4 DEF BuffersInv, Private, Using
<1>9. \A i \in DOMAIN held[c] : header[held[c][i]] = NULL /\ held[c][i] \in Range(held[c])
  BY <1>0, <1>1 DEF BuffersInv, Private, Range
<1>10. \A x \in Range(held[c]) : \E i \in DOMAIN held[c] : held[c][i] = x
  BY DEF Range
<1>11. \A i \in DOMAIN held'[c] : \E j \in DOMAIN held[c] : held'[c][i] = held[c][j]
  BY <1>4, SMTT(30)
<1>12. pc'[c] # "storing" /\ lock' \in {lock, NULL} /\ UNCHANGED <<listVars, sizeVars, workload, prune_candidate>>
  BY <1>0, <1>4
<1>13. FreesOwn(c, Range(held[c]))
  BY <1>2, <1>4, <1>9, <1>10, <1>11, <1>12 DEF FreesOwn
<1>14. FreeTypes
  BY <1>3, <1>12 DEF FreeTypes
<1> QED BY <1>6, <1>7, <1>8, <1>13, <1>14, FreeOwn

\* A sequence of length zero.
LEMMA EmptySeq == ASSUME NEW S, NEW s \in Seq(S), Len(s) = 0 PROVE s = <<>>
BY SMTT(30)

\* What is left of a sequence without its head.
LEMMA TailOf ==
  ASSUME NEW S, NEW s \in Seq(S), s # <<>>
  PROVE  /\ Tail(s) \in Seq(S) /\ 1 \in DOMAIN s /\ Head(s) = s[1] /\ Len(s) \in Nat
         /\ DOMAIN s = 1..Len(s) /\ DOMAIN Tail(s) = 1..(Len(s) - 1) /\ Len(Tail(s)) = Len(s) - 1
         /\ \A i \in DOMAIN Tail(s) : i + 1 \in DOMAIN s /\ Tail(s)[i] = s[i + 1] /\ i + 1 # 1
         /\ \A i \in DOMAIN s : i # 1 => i - 1 \in DOMAIN Tail(s) /\ Tail(s)[i - 1] = s[i]
         /\ Len(s) # 1 => Tail(s) # <<>> /\ 1 \in DOMAIN Tail(s)
         /\ Len(s) = 1 => Tail(s) = <<>>
<1>1. /\ Tail(s) \in Seq(S) /\ Head(s) = s[1] /\ Len(s) \in Nat /\ Len(s) # 0
      /\ DOMAIN s = 1..Len(s) /\ DOMAIN Tail(s) = 1..(Len(s) - 1) /\ Len(Tail(s)) = Len(s) - 1
  BY SMTT(30)
<1>2. \A i \in 1..(Len(s) - 1) : Tail(s)[i] = s[i + 1]
  BY SMTT(30)
<1>3. Len(s) = 1 => Tail(s) = <<>>
  BY <1>1, EmptySeq, SMTT(30)
<1>4. Len(s) # 1 => 1 \in DOMAIN Tail(s) /\ Tail(s) # <<>>
  <2>1. Len(s) # 1 => 1 \in 1..(Len(s) - 1) /\ Len(Tail(s)) # 0
    BY <1>1, SMTT(30)
  <2>2. Len(<<>>) = 0
    OBVIOUS
  <2> QED BY <1>1, <2>1, <2>2
<1>5. \A i \in DOMAIN Tail(s) : i + 1 \in DOMAIN s /\ Tail(s)[i] = s[i + 1] /\ i + 1 # 1
  BY <1>1, <1>2, SMTT(30)
<1>6. ASSUME NEW i \in DOMAIN s, i # 1
      PROVE  i - 1 \in DOMAIN Tail(s) /\ Tail(s)[i - 1] = s[i]
  <2>1. i - 1 \in 1..(Len(s) - 1) /\ (i - 1) + 1 = i
    BY <1>1, <1>6, SMTT(30)
  <2>2. Tail(s)[i - 1] = s[(i - 1) + 1]
    BY <1>2, <2>1
  <2> QED BY <1>1, <2>1, <2>2
<1>7. 1 \in DOMAIN s
  BY <1>1, SMTT(30)
<1> QED BY <1>1, <1>3, <1>4, <1>5, <1>6, <1>7

\* A client that gives back its first buffer.
LEMMA ReleaseFirst ==
  ASSUME Inv, NEW c \in Clients, pc[c] = "releasing", held' = [held EXCEPT ![c] = Tail(@)], AfterRelease(c)
  PROVE  /\ held[c] # <<>> /\ held[c] \in Seq(Blocks) /\ held'[c] = Tail(held[c])
         /\ pc'[c] \in {"idle", "using"}
         /\ pc' \in [Clients -> Labels] /\ key' \in [Clients -> Keys \cup {NULL}]
         /\ held' \in [Clients -> Seq(Blocks)]
         /\ \A d \in Clients \ {c} : pc'[d] = pc[d] /\ key'[d] = key[d] /\ held'[d] = held[d]
         /\ Len(held[c]) = 1 => pc'[c] = "idle" /\ key'[c] = NULL /\ held'[c] = <<>>
         /\ Len(held[c]) # 1 => pc'[c] = "using" /\ key'[c] = key[c] /\ held'[c] # <<>>
<1>1. held[c] # <<>> /\ held[c] \in Seq(Blocks)
  BY DEF Inv, ClientInv, HeldInv, Using, TypeInv
<1>2. Tail(held[c]) \in Seq(Blocks) /\ (Len(held[c]) # 1 => Tail(held[c]) # <<>>)
      /\ (Len(held[c]) = 1 => Tail(held[c]) = <<>>)
  BY <1>1, TailOf
<1>3. /\ held'[c] = Tail(held[c]) /\ held' \in [Clients -> Seq(Blocks)]
      /\ \A d \in Clients \ {c} : held'[d] = held[d]
  BY <1>2 DEF Inv, TypeInv
<1>4. CASE Len(held[c]) = 1
  <2>1. pc' = [pc EXCEPT ![c] = "idle"] /\ key' = [key EXCEPT ![c] = NULL]
    BY <1>4 DEF AfterRelease, Return, Forget
  <2>2. /\ pc'[c] = "idle" /\ key'[c] = NULL /\ pc' \in [Clients -> Labels]
        /\ key' \in [Clients -> Keys \cup {NULL}] /\ \A d \in Clients \ {c} : pc'[d] = pc[d] /\ key'[d] = key[d]
    BY <2>1 DEF Inv, TypeInv, Labels
  <2> QED BY <1>1, <1>2, <1>3, <1>4, <2>2
<1>5. CASE Len(held[c]) # 1
  <2>1. pc' = [pc EXCEPT ![c] = "using"] /\ key' = key
    BY <1>5 DEF AfterRelease, Return
  <2>2. /\ pc'[c] = "using" /\ key' = key /\ pc' \in [Clients -> Labels]
        /\ key' \in [Clients -> Keys \cup {NULL}] /\ \A d \in Clients \ {c} : pc'[d] = pc[d]
    BY <2>1 DEF Inv, TypeInv, Labels
  <2> QED BY <1>1, <1>2, <1>3, <1>5, <2>2
<1> QED BY <1>4, <1>5

\* The release of a block that has no entry frees it.
LEMMA FreeBlockInv == ASSUME Inv, NEW c \in Clients, FreeBlock(c), UNCHANGED workload PROVE Inv'
<1> DEFINE b == Head(held[c])
<1>0. /\ pc[c] = "releasing" /\ found[c] = NULL /\ held' = [held EXCEPT ![c] = Tail(@)]
      /\ Wipe({b}) /\ AfterRelease(c)
      /\ UNCHANGED <<lock, listVars, sizeVars, found, prune_candidate>>
  BY DEF FreeBlock
<1>1. /\ held[c] # <<>> /\ held[c] \in Seq(Blocks) /\ held'[c] = Tail(held[c])
      /\ pc'[c] \in {"idle", "using"}
      /\ pc' \in [Clients -> Labels] /\ key' \in [Clients -> Keys \cup {NULL}]
      /\ held' \in [Clients -> Seq(Blocks)]
      /\ \A d \in Clients \ {c} : pc'[d] = pc[d] /\ key'[d] = key[d] /\ held'[d] = held[d]
      /\ Len(held[c]) = 1 => pc'[c] = "idle" /\ key'[c] = NULL /\ held'[c] = <<>>
      /\ Len(held[c]) # 1 => pc'[c] = "using" /\ key'[c] = key[c] /\ held'[c] # <<>>
  BY <1>0, ReleaseFirst
<1>2. HeldInv(c) /\ BuffersInv(c)
  BY DEF Inv, ClientInv
<1>3. /\ b = held[c][1] /\ 1 \in DOMAIN held[c]
      /\ \A i \in DOMAIN held'[c] : i + 1 \in DOMAIN held[c] /\ held'[c][i] = held[c][i + 1] /\ i + 1 # 1
      /\ \A i \in DOMAIN held[c] : i # 1 => i - 1 \in DOMAIN held'[c] /\ held'[c][i - 1] = held[c][i]
      /\ \A i \in DOMAIN held'[c] : i \in Int
      /\ Len(held[c]) # 1 => 1 \in DOMAIN held'[c]
  BY <1>1, TailOf, SMTT(30)
<1> HIDE DEF b
<1>4. \A i \in DOMAIN held[c] : header[held[c][i]] = NULL
  BY <1>0, <1>2, <1>3 DEF BuffersInv, Using
<1>5. pc[c] \notin {"allocating", "storing"} /\ pc'[c] \notin {"allocating", "storing"}
  BY <1>0, <1>1
<1>6. LockInv' /\ LruInv'
  BY <1>0, <1>1, <1>5, LockKept
<1>7. Distinct(held'[c])
  BY <1>2, <1>3, SMTT(30) DEF HeldInv, Distinct
<1>8. /\ blocks' = blocks \ {b}
      /\ header' = [x \in Blocks |-> IF x = b THEN NULL ELSE header[x]]
      /\ contents' = [x \in Blocks |-> IF x = b THEN NULL ELSE contents[x]]
  BY <1>0 DEF Wipe
<1>9. ASSUME NEW i \in DOMAIN held'[c]
      PROVE  held'[c][i] \in blocks' /\ header'[held'[c][i]] = NULL /\ contents'[held'[c][i]] \in {NULL, key[c]}
  <2>1. i + 1 \in DOMAIN held[c] /\ held'[c][i] = held[c][i + 1] /\ held[c][i + 1] # b
    BY <1>2, <1>3 DEF HeldInv, Distinct
  <2>2. held[c][i + 1] \in blocks /\ held[c][i + 1] \in Blocks /\ header[held[c][i + 1]] = NULL
        /\ contents[held[c][i + 1]] \in {NULL, key[c]}
    BY <1>0, <1>2, <1>4, <2>1 DEF HeldInv, BuffersInv, Using, Inv, TypeInv
  <2> QED BY <1>8, <2>1, <2>2
<1>10. HeldInv(c)'
  <2>1. CASE Len(held[c]) = 1
    BY <1>1, <1>7, <1>9, <2>1 DEF HeldInv, Private, Using, Distinct
  <2>2. CASE Len(held[c]) # 1
    <3>1. key[c] \in Keys
      BY <1>0, <1>2 DEF HeldInv
    <3> QED BY <1>1, <1>7, <1>9, <2>2, <3>1 DEF HeldInv, Private, Using, Distinct
  <2> QED BY <2>1, <2>2
<1>11. found'[c] = NULL
  BY <1>0
<1>12. BuffersInv(c)'
  <2>1. CASE Len(held[c]) = 1
    BY <1>1, <1>9, <1>11, <2>1 DEF BuffersInv, Private, Using
  <2>2. CASE Len(held[c]) # 1
    BY <1>1, <1>3, <1>9, <1>11, <2>2 DEF BuffersInv, Private, Using
  <2> QED BY <2>1, <2>2
<1>13. \A x \in {b} : \E i \in DOMAIN held[c] : held[c][i] = x
  BY <1>3
<1>14. \A i \in DOMAIN held[c] : held[c][i] \in {b} \/ \E j \in DOMAIN held'[c] : held'[c][j] = held[c][i]
  BY <1>3
<1>15. \A i \in DOMAIN held'[c] : \E j \in DOMAIN held[c] : held'[c][i] = held[c][j]
  BY <1>3
<1>16. \A d \in Clients \ {c} : /\ pc'[d] = pc[d] /\ key'[d] = key[d]
                                /\ held'[d] = held[d] /\ found'[d] = found[d]
  BY <1>0, <1>1
<1>17. pc'[c] # "storing" /\ lock' \in {lock, NULL} /\ UNCHANGED <<listVars, sizeVars, workload, prune_candidate>>
  BY <1>0, <1>5
<1>18. found' \in [Clients -> Pointers]
  BY <1>0 DEF Inv, TypeInv
<1>19. Wipe({b})
  BY <1>0
<1>20. FreesOwn(c, {b})
  BY <1>4, <1>13, <1>14, <1>15, <1>16, <1>17, <1>19 DEF FreesOwn
<1>21. FreeTypes
  BY <1>1, <1>17, <1>18 DEF FreeTypes
<1> QED BY <1>6, <1>10, <1>12, <1>20, <1>21, FreeOwn

-----------------------------------------------------------------------------
(* Steps of prune_cache and of the application *)

\* A step of the application or of prune_cache that touches neither the entries
\* nor a client.
LEMMA PrunerStep ==
  ASSUME Inv, TypeInv', LockInv', LruInv', UNCHANGED <<listVars, blockVars, clientVars>>
  PROVE  Inv'
<1>0. UNCHANGED <<cache_entries, most_recently_used, least_recently_used, ent, entries, blocks, header,
                  contents, pc, key, held, found>>
  BY DEF listVars, blockVars, clientVars
<1>1. HashInv'
  BY <1>0, HashFrame DEF Inv
<1>2. ClientInv'
  <2>1. ASSUME NEW c \in Clients PROVE HeldInv(c)' /\ BuffersInv(c)'
    <3>1. HeldInv(c)'
      BY <1>0 DEF Inv, ClientInv, HeldInv
    <3>2. BuffersInv(c)'
      BY <1>0 DEF Inv, ClientInv, BuffersInv
    <3> QED BY <3>1, <3>2
  <2> QED BY <2>1 DEF ClientInv
<1>3. PrivateInv'
  BY <1>0 DEF Inv, PrivateInv
<1>4. EntryInv'
  BY <1>0 DEF Inv, EntryInv, StoredInv
<1>5. BlockInv'
  BY <1>0 DEF Inv, BlockInv, OwnedInv
<1>6. KeyInv'
  BY <1>0 DEF Inv, KeyInv
<1>7. UsersInv'
  <2>1. ASSUME NEW e PROVE Holders(e)' = Holders(e)
    <3>1. \A c \in Clients : \A i : i \in DOMAIN held'[c] /\ HoldsOne(c, i, e)'
                                   <=> i \in DOMAIN held[c] /\ HoldsOne(c, i, e)
      BY <1>0 DEF HoldsOne
    <3> QED BY <3>1, HoldersKept
  <2> QED BY <1>0, <2>1 DEF Inv, UsersInv
<1> QED BY <1>1, <1>2, <1>3, <1>4, <1>5, <1>6, <1>7 DEF Inv

\* The entry after the candidate is the oldest of those that are younger.
LEMMA Younger ==
  ASSUME TypeInv, NEW rank \in [Entries -> Int], LruOrder(rank),
         NEW e \in entries, NEW x \in entries, rank[e] <= rank[x], x # e
  PROVE  ent[e].more_recent \in entries /\ rank[ent[e].more_recent] <= rank[x]
<1>1. /\ NULL \notin entries /\ entries \subseteq Entries /\ MoreOf[e] = ent[e].more_recent
      /\ \A y \in entries : Negated(rank)[y] \in Int /\ Negated(rank)[y] = -rank[y] /\ rank[y] \in Int
  BY CacheAssumption, SMTT(30) DEF TypeInv, Negated, MoreOf
<1>2. IsList(entries, least_recently_used, MoreOf, Negated(rank), NULL)
  BY DEF LruOrder
<1>3. \A y, z \in entries : rank[y] = rank[z] => y = z
  BY DEF LruOrder, IsList
<1>4. Negated(rank)[x] < Negated(rank)[e]
  BY <1>1, <1>3, SMTT(30)
<1>5. MoreOf[e] \in entries /\ Negated(rank)[x] <= Negated(rank)[MoreOf[e]]
  BY <1>1, <1>2, <1>4, ListNext
<1> QED BY <1>1, <1>5, SMTT(30)

\* The oldest and the youngest entry of the list.
LEMMA Ends ==
  ASSUME TypeInv, NEW rank \in [Entries -> Int], LruOrder(rank)
  PROVE  /\ \A x, y \in entries : LessOf[x] = y <=> MoreOf[y] = x
         /\ \A x \in entries : /\ MoreOf[x] = NULL <=> x = most_recently_used
                               /\ LessOf[x] = NULL <=> x = least_recently_used
                               /\ MoreOf[x] \in entries \cup {NULL} /\ MoreOf[x] # x
                               /\ LessOf[x] \in entries \cup {NULL} /\ LessOf[x] # x
                               /\ most_recently_used \in entries /\ rank[x] <= rank[most_recently_used]
                               /\ least_recently_used \in entries
         /\ entries = {} => most_recently_used = NULL /\ least_recently_used = NULL
<1>1. NULL \notin entries /\ \A y \in entries : Negated(rank)[y] = -rank[y] /\ rank[y] \in Int
                                                /\ Negated(rank)[y] \in Int
  BY CacheAssumption, SMTT(30) DEF TypeInv, Negated
<1>2. /\ IsList(entries, most_recently_used, LessOf, rank, NULL)
      /\ IsList(entries, least_recently_used, MoreOf, Negated(rank), NULL)
  BY DEF LruOrder
<1>3. /\ \A x, y \in entries : LessOf[x] = y <=> MoreOf[y] = x
      /\ \A x \in entries : (MoreOf[x] = NULL <=> x = most_recently_used)
                            /\ (LessOf[x] = NULL <=> x = least_recently_used)
  BY <1>1, <1>2, ListReverse, SMTT(30)
<1>4. \A x \in entries : /\ LessOf[x] \in entries \cup {NULL} /\ LessOf[x] # x
                         /\ most_recently_used \in entries /\ rank[x] <= rank[most_recently_used]
  BY <1>1, <1>2, ListNext, SMTT(30)
<1>5. \A x \in entries : /\ MoreOf[x] \in entries \cup {NULL} /\ MoreOf[x] # x
                         /\ least_recently_used \in entries
  BY <1>1, <1>2, ListNext, SMTT(30)
<1>6. entries = {} => most_recently_used = NULL /\ least_recently_used = NULL
  BY <1>2 DEF IsList
<1> QED BY <1>3, <1>4, <1>5, <1>6

\* prune_cache passes an entry that is in use.
LEMMA PruneSkipInv == ASSUME Inv, PruneSkip, UNCHANGED workload PROVE Inv'
<1>0. /\ lock # NULL /\ prune_candidate # NULL /\ ~Prunable(prune_candidate)
      /\ prune_candidate' = ent[prune_candidate].more_recent
      /\ UNCHANGED <<lock, listVars, sizeVars, blockVars, clientVars>>
  BY DEF PruneSkip, MustPrune
<1>1. UNCHANGED <<cache_entries, most_recently_used, least_recently_used, ent, entries, blocks, header,
                  contents, pc, key, held, found, max_cache_size, current_cache_size>>
  BY <1>0 DEF listVars, blockVars, clientVars, sizeVars
<1>2. PICK rank \in [Entries -> Int] : LruOrder(rank) /\ PruneOrder(rank)
  BY DEF Inv, LruInv
<1>3. TypeInv /\ prune_candidate \in entries /\ Pruning
  BY <1>0 DEF Inv, LockInv
<1>4. prune_candidate' \in entries \cup {NULL}
  <2>1. MoreOf[prune_candidate] = ent[prune_candidate].more_recent
    BY <1>3 DEF TypeInv, MoreOf
  <2> QED BY <1>0, <1>2, <1>3, <2>1, Ends
<1>5. TypeInv'
  <2>1. prune_candidate' \in Pointers
    BY <1>3, <1>4 DEF TypeInv, Pointers
  <2> QED BY <1>0, <1>1, <1>3, <2>1 DEF TypeInv
<1>6. Pruning'
  BY <1>0, <1>1, <1>3 DEF Pruning
<1>7. LockInv'
  BY <1>0, <1>1, <1>4, <1>6 DEF Inv, LockInv
<1>8. LruOrder(rank)'
  BY <1>1, <1>2 DEF LruOrder, Negated, LessOf, MoreOf
<1>9. PruneOrder(rank)'
  <2> SUFFICES ASSUME NEW x \in entries, Prunable(x)
               PROVE  prune_candidate' # NULL /\ rank[prune_candidate'] <= rank[x]
    BY <1>1 DEF PruneOrder, Prunable
  <2>1. x # prune_candidate /\ rank[prune_candidate] <= rank[x]
    BY <1>0, <1>2, <1>3 DEF PruneOrder
  <2>2. ent[prune_candidate].more_recent \in entries /\ rank[ent[prune_candidate].more_recent] <= rank[x]
    BY <1>2, <1>3, <2>1, Younger
  <2> QED BY <1>0, <1>3, <2>2, CacheAssumption DEF TypeInv
<1>10. LruInv'
  BY <1>8, <1>9 DEF LruInv
<1> QED BY <1>0, <1>5, <1>7, <1>10, PrunerStep

\* halide_memoization_cache_set_size starts to prune from the oldest entry,
LEMMA SetSizeInv ==
  ASSUME Inv, NEW n \in Nat, halide_memoization_cache_set_size(n), UNCHANGED workload
  PROVE  Inv'
<1>0. /\ lock = NULL /\ lock' = Application /\ max_cache_size' = (IF n = 0 THEN DefaultSize ELSE n)
      /\ prune_candidate' = least_recently_used
      /\ UNCHANGED <<listVars, current_cache_size, blockVars, clientVars>>
  BY DEF halide_memoization_cache_set_size
<1>1. UNCHANGED <<cache_entries, most_recently_used, least_recently_used, ent, entries, blocks, header,
                  contents, pc, key, held, found>>
  BY <1>0 DEF listVars, blockVars, clientVars
<1>2. least_recently_used \in entries \cup {NULL}
  BY DEF Inv, LruInv, LruOrder, IsList
<1>3. TypeInv'
  <2>1. max_cache_size' \in Nat
    BY <1>0, CacheAssumption
  <2> QED BY <1>0, <1>1, <2>1 DEF Inv, TypeInv
<1>4. Pruning'
  BY <1>0 DEF Pruning
<1>5. LockInv'
  BY <1>0, <1>1, <1>2, <1>4, CacheAssumption DEF Inv, LockInv
<1>6. LruInv'
  BY <1>0, PruneStarts DEF Inv
<1> QED BY <1>0, <1>3, <1>5, <1>6, PrunerStep

\* and ends when it has.
LEMMA SetSizeDoneInv == ASSUME Inv, SetSizeDone, UNCHANGED workload PROVE Inv'
<1>0. /\ lock = Application /\ lock' = NULL /\ prune_candidate' = NULL
      /\ UNCHANGED <<listVars, sizeVars, blockVars, clientVars>>
  BY DEF SetSizeDone
<1>1. UNCHANGED <<cache_entries, most_recently_used, least_recently_used, ent, entries, blocks, header,
                  contents, pc, key, held, found, max_cache_size, current_cache_size>>
  BY <1>0 DEF listVars, blockVars, clientVars, sizeVars
<1>2. TypeInv'
  BY <1>0, <1>1 DEF Inv, TypeInv, Pointers
<1>3. ~Pruning'
  BY <1>0, CacheAssumption DEF Pruning
<1>4. LockInv'
  BY <1>0, <1>1, CacheAssumption DEF Inv, LockInv
<1>5. LruInv'
  BY <1>1, <1>3, LruFrame DEF Inv
<1> QED BY <1>0, <1>2, <1>4, <1>5, PrunerStep

-----------------------------------------------------------------------------
(* Releases *)

\* A client that takes buffers of an entry, or gives one back.
TakesOrGives(c) ==
  /\ UNCHANGED <<cache_entries, entries, blocks, header, contents>>
  /\ \A e \in Entries : /\ ent'[e].next = ent[e].next /\ ent'[e].key = ent[e].key
                        /\ ent'[e].buf = ent[e].buf
  /\ \A e \in Entries \ entries : ent'[e].in_use_count = ent[e].in_use_count
  /\ \A d \in Clients \ {c} : /\ pc'[d] = pc[d] /\ key'[d] = key[d]
                              /\ held'[d] = held[d] /\ found'[d] = found[d]
  /\ \A i \in DOMAIN held[c] : header[held[c][i]] # NULL
  /\ \A i \in DOMAIN held'[c] : header[held'[c][i]] # NULL
  /\ pc'[c] # "storing"

\* Such a step keeps the invariant.
LEMMA EntryStep ==
  ASSUME Inv, TypeInv', LockInv', LruInv', UsersInv', NEW c \in Clients, HeldInv(c)', BuffersInv(c)',
         TakesOrGives(c)
  PROVE  Inv'
<1>1. UNCHANGED <<cache_entries, entries, blocks, header, contents>>
  BY DEF TakesOrGives
<1>2. \A e \in Entries : ent'[e].next = ent[e].next /\ ent'[e].key = ent[e].key /\ ent'[e].buf = ent[e].buf
  BY DEF TakesOrGives
<1>3. \A d \in Clients \ {c} : /\ pc'[d] = pc[d] /\ key'[d] = key[d]
                               /\ held'[d] = held[d] /\ found'[d] = found[d]
  BY DEF TakesOrGives
<1>4. /\ \A i \in DOMAIN held[c] : header[held[c][i]] # NULL
      /\ \A i \in DOMAIN held'[c] : header[held'[c][i]] # NULL
      /\ pc'[c] # "storing"
  BY DEF TakesOrGives
<1>5. HashInv'
  BY <1>1, <1>2, HashFrame DEF Inv
<1>6. ClientInv'
  <2>1. ASSUME NEW d \in Clients, d # c PROVE HeldInv(d)' /\ BuffersInv(d)'
    <3>1. held[d] \in Seq(Blocks) /\ HeldInv(d) /\ BuffersInv(d)
      BY DEF Inv, TypeInv, ClientInv
    <3>2. ASSUME NEW i \in DOMAIN held[d]
          PROVE  /\ held[d][i] \in blocks'
                 /\ header[held[d][i]] # NULL => ent'[header[held[d][i]]].key = ent[header[held[d][i]]].key
      <4>1. held[d][i] \in blocks /\ header[held[d][i]] \in Pointers
        BY <3>1 DEF HeldInv, Inv, TypeInv
      <4> QED BY <1>1, <1>2, <4>1 DEF Pointers
    <3>3. pc'[d] = pc[d] /\ key'[d] = key[d] /\ held'[d] = held[d] /\ found'[d] = found[d]
      BY <1>3, <2>1
    <3> QED BY <1>1, <3>1, <3>2, <3>3, ClientFrame
  <2> QED BY <2>1 DEF ClientInv
<1>7. PrivateInv'
  <2> SUFFICES ASSUME NEW d1 \in Clients, NEW d2 \in Clients,
                      NEW i \in DOMAIN held'[d1], NEW j \in DOMAIN held'[d2],
                      held'[d1][i] = held'[d2][j], header[held'[d1][i]] = NULL
               PROVE  d1 = d2
    BY <1>1 DEF PrivateInv
  <2>1. d1 # c /\ d2 # c
    BY <1>4
  <2> QED BY <1>3, <2>1 DEF Inv, PrivateInv
<1>8. EntryInv'
  <2>1. ASSUME NEW e \in entries PROVE StoredInv(e)'
    <3>1. StoredInv(e) /\ e \in Entries
      BY DEF Inv, EntryInv, TypeInv
    <3> QED BY <1>1, <1>2, <3>1 DEF StoredInv
  <2> QED BY <1>1, <2>1 DEF Inv, EntryInv, TakesOrGives
<1>9. BlockInv'
  <2>1. ASSUME NEW b \in blocks PROVE OwnedInv(b)'
    <3>1. OwnedInv(b) /\ entries \subseteq Entries
      BY DEF Inv, BlockInv, TypeInv
    <3>2. CASE header[b] \in entries
      BY <1>1, <1>2, <3>1, <3>2, CacheAssumption DEF OwnedInv
    <3>3. CASE header[b] = NULL
      <4>1. PICK d \in Clients : \E i \in DOMAIN held[d] : held[d][i] = b
        BY <3>1, <3>3, CacheAssumption DEF OwnedInv
      <4>2. d # c
        BY <1>4, <3>3, <4>1
      <4> QED BY <1>1, <1>3, <3>3, <4>1, <4>2 DEF OwnedInv
    <3> QED BY <3>1, <3>2, <3>3 DEF OwnedInv
  <2> QED BY <1>1, <2>1 DEF Inv, BlockInv
<1>10. KeyInv'
  <2>1. \A e \in entries : ent'[e].key = ent[e].key
    BY <1>2 DEF Inv, TypeInv
  <2>2. \A d \in Clients : pc'[d] = "storing" => pc[d] = "storing" /\ key'[d] = key[d]
    BY <1>3, <1>4
  <2>3. \A e, f \in entries : ent'[e].key = ent'[f].key => e = f
    BY <2>1 DEF Inv, KeyInv
  <2>4. \A d \in Clients : pc'[d] = "storing" => \A e \in entries : ent'[e].key # key'[d]
    BY <2>1, <2>2 DEF Inv, KeyInv
  <2> QED BY <1>1, <2>3, <2>4 DEF KeyInv
<1> QED BY <1>5, <1>6, <1>7, <1>8, <1>9, <1>10 DEF Inv

\* An entry with another use count.
LEMMA WithCount ==
  ASSUME NEW r \in CacheEntries, NEW m \in Int
  PROVE  LET q == [r EXCEPT !.in_use_count = m]
         IN /\ q \in CacheEntries /\ q.in_use_count = m /\ q.key = r.key /\ q.next = r.next
            /\ q.buf = r.buf /\ q.more_recent = r.more_recent /\ q.less_recent = r.less_recent
BY DEF CacheEntries

\* A client and as many places as a key has buffers.
LEMMA PairsCounted ==
  ASSUME NEW c, NEW n \in Nat
  PROVE  IsFiniteSet({c} \X (1..n)) /\ Cardinality({c} \X (1..n)) = n
<1>1. IsFiniteSet({c}) /\ Cardinality({c}) = 1
  BY FS_Singleton
<1>2. IsFiniteSet(1..n) /\ Cardinality(1..n) = n
  BY FS_Interval, SMTT(30)
<1>3. IsFiniteSet({c} \X (1..n)) /\ Cardinality({c} \X (1..n)) = 1 * n
  <2>1. \A T : IsFiniteSet(T) => /\ IsFiniteSet({c} \X T)
                                 /\ Cardinality({c} \X T) = Cardinality({c}) * Cardinality(T)
    BY <1>1, FS_Product
  <2> QED BY <1>1, <1>2, <2>1
<1> QED BY <1>3, SMTT(30)

\* A holder of an entry is a client and a place in what it holds.
LEMMA HoldersOf ==
  ASSUME NEW e, NEW x \in Holders(e)
  PROVE  \E d \in Clients : \E i \in DOMAIN held[d] : x = <<d, i>> /\ HoldsOne(d, i, e)
BY HoldersAre

\* One holder goes,
LEMMA HoldersLose ==
  ASSUME NEW e, NEW p, \A c \in Clients : \A i :
           i \in DOMAIN held'[c] /\ HoldsOne(c, i, e)'
             <=> i \in DOMAIN held[c] /\ HoldsOne(c, i, e) /\ <<c, i>> # p
  PROVE  Holders(e)' = Holders(e) \ {p}
<1>1. \A x : x \in Holders(e)' => x \in Holders(e) \ {p}
  BY HoldersAre, SMTT(30)
<1>2. \A x : x \in Holders(e) \ {p} => x \in Holders(e)'
  BY HoldersAre, SMTT(30)
<1> QED BY <1>1, <1>2

\* or some come.
LEMMA HoldersGain ==
  ASSUME NEW e, NEW P, \A x \in P : \E c \in Clients : \E i \in DOMAIN held'[c] : x = <<c, i>>,
         \A c \in Clients : \A i :
           i \in DOMAIN held'[c] /\ HoldsOne(c, i, e)'
             <=> \/ i \in DOMAIN held[c] /\ HoldsOne(c, i, e)
                 \/ <<c, i>> \in P
  PROVE  Holders(e)' = Holders(e) \cup P
<1>1. \A x : x \in Holders(e)' => x \in Holders(e) \cup P
  BY HoldersAre, SMTT(30)
<1>2. \A x : x \in Holders(e) => x \in Holders(e)'
  BY HoldersAre
<1>3. \A x : x \in P => x \in Holders(e)'
  BY HoldersAre, SMTT(30)
<1> QED BY <1>1, <1>2, <1>3

\* The release of a block of an entry counts one use less.
LEMMA ReleaseEntryInv == ASSUME Inv, NEW c \in Clients, ReleaseEntry(c), UNCHANGED workload PROVE Inv'
<1> DEFINE n == Len(held[c])
<1>e. PICK e : e = found[c]
  OBVIOUS
<1>0. /\ pc[c] = "releasing" /\ found[c] = e /\ e # NULL /\ lock = NULL
      /\ ent' = [ent EXCEPT ![e].in_use_count = @ - 1]
      /\ held' = [held EXCEPT ![c] = Tail(@)] /\ found' = [found EXCEPT ![c] = NULL] /\ AfterRelease(c)
      /\ UNCHANGED <<lock, cache_entries, most_recently_used, least_recently_used, entries,
                     sizeVars, blockVars, prune_candidate>>
  BY <1>e DEF ReleaseEntry
<1>1. /\ held[c] # <<>> /\ held[c] \in Seq(Blocks) /\ held'[c] = Tail(held[c])
      /\ pc'[c] \in {"idle", "using"}
      /\ pc' \in [Clients -> Labels] /\ key' \in [Clients -> Keys \cup {NULL}]
      /\ held' \in [Clients -> Seq(Blocks)]
      /\ \A d \in Clients \ {c} : pc'[d] = pc[d] /\ key'[d] = key[d] /\ held'[d] = held[d]
      /\ n = 1 => pc'[c] = "idle" /\ key'[c] = NULL /\ held'[c] = <<>>
      /\ n # 1 => pc'[c] = "using" /\ key'[c] = key[c] /\ held'[c] # <<>>
  BY <1>0, ReleaseFirst
<1>2. /\ 1 \in DOMAIN held[c] /\ n \in Nat /\ DOMAIN held[c] = 1..n /\ DOMAIN held'[c] = 1..(n - 1)
      /\ \A i \in DOMAIN held'[c] : i + 1 \in DOMAIN held[c] /\ held'[c][i] = held[c][i + 1]
      /\ n # 1 => 1 \in DOMAIN held'[c]
  BY <1>1, TailOf, SMTT(30)
<1>3. HeldInv(c) /\ BuffersInv(c)
  BY DEF Inv, ClientInv
<1>4. \A i \in DOMAIN held[c] : /\ header[held[c][i]] = e /\ held[c][i] \in blocks
                                /\ contents[held[c][i]] \in {NULL, key[c]} /\ ent[e].key = key[c]
  BY <1>0, <1>2, <1>3 DEF BuffersInv, HeldInv, Using
<1>5. e \in entries /\ e \in Entries
  <2>1. header[held[c][1]] = e /\ OwnedInv(held[c][1])
    BY <1>2, <1>4 DEF Inv, BlockInv
  <2>2. e # NULL /\ entries \subseteq Entries
    BY <1>0 DEF Inv, TypeInv
  <2> QED BY <2>1, <2>2 DEF OwnedInv
<1> HIDE DEF n
<1>6. UNCHANGED <<blocks, header, contents, max_cache_size, current_cache_size>>
  BY <1>0 DEF sizeVars, blockVars
<1>7. /\ ent' \in [Entries -> CacheEntries] /\ ent'[e].in_use_count = ent[e].in_use_count - 1
      /\ \A x \in Entries : /\ x # e => ent'[x] = ent[x]
                            /\ ent'[x].key = ent[x].key /\ ent'[x].next = ent[x].next
                            /\ ent'[x].buf = ent[x].buf /\ ent'[x].more_recent = ent[x].more_recent
                            /\ ent'[x].less_recent = ent[x].less_recent
  <2>1. ent \in [Entries -> CacheEntries] /\ ent[e] \in CacheEntries
    BY <1>5 DEF Inv, TypeInv
  <2>2. /\ ent'[e] = [ent[e] EXCEPT !.in_use_count = @ - 1] /\ DOMAIN ent' = Entries
        /\ ent' = [ent EXCEPT ![e] = [ent[e] EXCEPT !.in_use_count = @ - 1]]
        /\ \A x \in Entries : x # e => ent'[x] = ent[x]
    BY <1>0, <1>5, <2>1
  <2>3. /\ ent'[e] \in CacheEntries /\ ent'[e].in_use_count = ent[e].in_use_count - 1
        /\ ent'[e].key = ent[e].key /\ ent'[e].next = ent[e].next
        /\ ent'[e].buf = ent[e].buf /\ ent'[e].more_recent = ent[e].more_recent
        /\ ent'[e].less_recent = ent[e].less_recent
    <3>1. ent[e].in_use_count - 1 \in Int
      BY <2>1, SMTT(30) DEF CacheEntries
    <3> QED BY <2>1, <2>2, <3>1, WithCount, SMTT(30)
  <2> QED BY <2>1, <2>2, <2>3
<1>8. found' \in [Clients -> Pointers] /\ found'[c] = NULL /\ \A d \in Clients \ {c} : found'[d] = found[d]
  BY <1>0 DEF Inv, TypeInv, Pointers
<1>9. TypeInv'
  BY <1>0, <1>1, <1>6, <1>7, <1>8 DEF Inv, TypeInv
<1>10. LockInv' /\ LruInv'
  <2>1. NULL \notin Clients /\ NULL # Application
    BY CacheAssumption
  <2>2. ~Pruning'
    BY <1>0, <2>1 DEF Pruning
  <2>3. LockInv'
    <3>1. prune_candidate' = NULL
      BY <1>0, NoCandidate
    <3>2. \A d \in Clients : pc'[d] \notin {"allocating", "storing"}
      BY <1>0, <1>1, <2>1 DEF Inv, LockInv
    <3> QED BY <1>0, <2>1, <3>1, <3>2 DEF LockInv
  <2>4. LruInv'
    BY <1>0, <1>7, <2>2, LruFrame DEF Inv
  <2> QED BY <2>3, <2>4
<1>11. \A i \in DOMAIN held'[c] : /\ header[held'[c][i]] = e /\ held'[c][i] \in blocks
                                  /\ contents[held'[c][i]] \in {NULL, key[c]}
  BY <1>2, <1>4
<1>12. HeldInv(c)'
  <2>1. Distinct(held'[c])
    BY <1>2, <1>3, SMTT(30) DEF HeldInv, Distinct
  <2>2. key[c] \in Keys
    BY <1>0, <1>3 DEF HeldInv
  <2>3. CASE n = 1
    BY <1>1, <1>6, <1>11, <2>1, <2>3 DEF HeldInv, Private, Using, Distinct
  <2>4. CASE n # 1
    BY <1>1, <1>6, <1>11, <2>1, <2>2, <2>4 DEF HeldInv, Private, Using, Distinct
  <2> QED BY <2>3, <2>4
<1>13. BuffersInv(c)'
  <2>1. CASE n = 1
    BY <1>1, <1>8, <2>1 DEF BuffersInv, Private, Using
  <2>2. CASE n # 1
    <3>1. ent'[e].key = key[c]
      BY <1>2, <1>4, <1>5, <1>7
    <3>2. /\ pc'[c] = "using" /\ key'[c] = key[c] /\ 1 \in DOMAIN held'[c]
          /\ header' = header /\ contents' = contents /\ found'[c] = NULL
      BY <1>1, <1>2, <1>6, <1>8, <2>2
    <3>3. \A i \in DOMAIN held'[c] : /\ contents'[held'[c][i]] \in {NULL, key'[c]}
                                     /\ header'[held'[c][i]] = header'[held'[c][1]]
                                     /\ ent'[header'[held'[c][i]]].key = key'[c]
      BY <1>11, <3>1, <3>2
    <3> QED BY <3>2, <3>3 DEF BuffersInv, Private, Using
  <2> QED BY <2>1, <2>2
<1>14. TakesOrGives(c)
  BY <1>0, <1>1, <1>4, <1>5, <1>6, <1>7, <1>8, <1>11 DEF TakesOrGives
<1>15. UsersInv'
  <2>1. ASSUME NEW x \in entries, x # e PROVE Holders(x)' = Holders(x) /\ ent'[x] = ent[x]
    <3>1. ASSUME NEW d \in Clients, NEW i
          PROVE  i \in DOMAIN held'[d] /\ HoldsOne(d, i, x)' <=> i \in DOMAIN held[d] /\ HoldsOne(d, i, x)
      <4>1. CASE d = c
        BY <1>4, <1>6, <1>11, <2>1, <4>1 DEF HoldsOne
      <4>2. CASE d # c
        BY <1>1, <1>6, <4>2 DEF HoldsOne
      <4> QED BY <4>1, <4>2
    <3>2. Holders(x)' = Holders(x)
      BY <3>1, HoldersKept
    <3> QED BY <1>7, <2>1, <3>2 DEF Inv, TypeInv
  <2>2. IsFiniteSet(Holders(e)) /\ ent[e].in_use_count = Cardinality(Holders(e))
    BY <1>5 DEF Inv, UsersInv
  <2>3. <<c, n>> \in Holders(e)
    <3>1. n \in DOMAIN held[c] /\ HoldsOne(c, n, e)
      BY <1>0, <1>2, <1>4, SMTT(30) DEF HoldsOne, Using
    <3> QED BY <3>1, HoldersAre
  <2>4. Holders(e)' = Holders(e) \ {<<c, n>>}
    <3>1. ASSUME NEW d \in Clients, NEW i
          PROVE  i \in DOMAIN held'[d] /\ HoldsOne(d, i, e)'
                   <=> i \in DOMAIN held[d] /\ HoldsOne(d, i, e) /\ <<d, i>> # <<c, n>>
      <4>1. CASE d = c
        <5>1. i \in DOMAIN held[c] => HoldsOne(c, i, e)
          BY <1>0, <1>4 DEF HoldsOne, Using
        <5>2. i \in DOMAIN held'[c] => HoldsOne(c, i, e)'
          BY <1>1, <1>2, <1>6, <1>11, SMTT(30) DEF HoldsOne, Using
        <5>3. i \in DOMAIN held'[c] <=> i \in DOMAIN held[c] /\ i # n
          BY <1>2, SMTT(30)
        <5>4. <<c, i>> # <<c, n>> <=> i # n
          OBVIOUS
        <5> QED BY <4>1, <5>1, <5>2, <5>3, <5>4
      <4>2. CASE d # c
        <5>1. i \in DOMAIN held'[d] /\ HoldsOne(d, i, e)' <=> i \in DOMAIN held[d] /\ HoldsOne(d, i, e)
          BY <1>1, <1>6, <4>2 DEF HoldsOne
        <5>2. <<d, i>> # <<c, n>>
          BY <4>2
        <5> QED BY <5>1, <5>2
      <4> QED BY <4>1, <4>2
    <3> QED BY <3>1, HoldersLose
  <2>5. IsFiniteSet(Holders(e)') /\ ent'[e].in_use_count = Cardinality(Holders(e)')
    BY <1>7, <2>2, <2>3, <2>4, FS_RemoveElement, FS_CardinalityType, SMTT(30)
  <2>6. entries' = entries
    BY <1>0
  <2> QED BY <2>1, <2>5, <2>6 DEF Inv, UsersInv
<1> QED BY <1>9, <1>10, <1>12, <1>13, <1>14, <1>15, EntryStep

-----------------------------------------------------------------------------
(* The size *)

\* current_cache_size is the size of what is stored, and of what is about to be.
SizeInv == current_cache_size = SumOver(entries, EntryBytes) + SumOver(Storing, KeyBytes)

\* The sizes of the entries can be added up.
LEMMA EntryBytesType ==
  ASSUME Inv
  PROVE  /\ IsFiniteSet(entries)
         /\ \A e \in entries : EntryBytes[e] = Bytes[ent[e].key] /\ EntryBytes[e] \in Nat
<1>1. IsFiniteSet(entries)
  BY CacheAssumption, FS_Subset DEF Inv, TypeInv
<1>2. ASSUME NEW e \in entries PROVE EntryBytes[e] = Bytes[ent[e].key] /\ EntryBytes[e] \in Nat
  <2>1. e \in Entries /\ ent[e].key \in Keys
    BY DEF Inv, TypeInv, EntryInv, StoredInv
  <2>2. EntryBytes[e] = Bytes[ent[e].key]
    BY <2>1 DEF EntryBytes
  <2> QED BY <2>1, <2>2, CacheAssumption
<1> QED BY <1>1, <1>2

\* Only the holder of the lock stores.
LEMMA StoringIs ==
  ASSUME Inv
  PROVE  /\ lock \notin Clients => Storing = {}
         /\ \A c \in Clients : pc[c] = "storing" =>
              lock = c /\ Storing = {c} /\ SumOver(Storing, KeyBytes) = Bytes[key[c]]
<1>1. \A c \in Clients : pc[c] = "storing" => lock = c
  BY DEF Inv, LockInv
<1>2. lock \notin Clients => Storing = {}
  BY <1>1 DEF Storing
<1>3. ASSUME NEW c \in Clients, pc[c] = "storing"
      PROVE  lock = c /\ Storing = {c} /\ SumOver(Storing, KeyBytes) = Bytes[key[c]]
  <2>1. lock = c
    BY <1>1, <1>3
  <2>2. Storing = {c}
    BY <1>1, <1>3, <2>1 DEF Storing
  <2>3. HeldInv(c)
    BY DEF Inv, ClientInv
  <2>4. key[c] \in Keys
    BY <1>3, <2>3 DEF HeldInv
  <2>5. KeyBytes[c] = Bytes[key[c]] /\ Bytes[key[c]] \in Nat
    BY <2>4, CacheAssumption DEF KeyBytes
  <2>6. SumOver({c}, KeyBytes) = KeyBytes[c]
    BY <2>5, SumSmall
  <2> QED BY <2>1, <2>2, <2>5, <2>6
<1> QED BY <1>2, <1>3

\* What is about to be stored has a size.
LEMMA AddedType == ASSUME Inv PROVE SumOver(Storing, KeyBytes) \in Nat
<1>1. CASE Storing = {}
  <2>1. SumOver(Storing, KeyBytes) = 0
    BY <1>1, SumSmall
  <2> QED BY <2>1, SMTT(30)
<1>2. ASSUME NEW c \in Storing PROVE SumOver(Storing, KeyBytes) \in Nat
  <2>1. c \in Clients /\ pc[c] = "storing"
    BY <1>2 DEF Storing
  <2>2. SumOver(Storing, KeyBytes) = Bytes[key[c]] /\ HeldInv(c)
    BY <2>1, StoringIs DEF Inv, ClientInv
  <2>3. key[c] \in Keys
    BY <2>1, <2>2 DEF HeldInv
  <2>4. Bytes[key[c]] \in Nat
    BY <2>3, CacheAssumption
  <2> QED BY <2>2, <2>4
<1> QED BY <1>1, <1>2

\* What is stored has the same size if there are the same entries with the same keys.
LEMMA EntriesSame ==
  ASSUME NEW S, S \subseteq Entries, \A e \in S : ent'[e].key = ent[e].key
  PROVE  SumOver(S, EntryBytes') = SumOver(S, EntryBytes)
<1>1. \A e \in S : EntryBytes'[e] = EntryBytes[e]
  BY DEF EntryBytes
<1> QED BY <1>1, SumSame

\* A step that stores and frees no entry.
LEMMA SizeFrame ==
  ASSUME Inv, SizeInv, entries' = entries, current_cache_size' = current_cache_size,
         \A e \in entries : ent'[e].key = ent[e].key,
         \A c \in Clients : pc[c] = "storing" <=> pc'[c] = "storing",
         \A c \in Clients : pc[c] = "storing" => key'[c] = key[c]
  PROVE  SizeInv'
<1>1. SumOver(entries, EntryBytes') = SumOver(entries, EntryBytes)
  BY EntriesSame DEF Inv, TypeInv
<1>2. Storing' = Storing
  BY DEF Storing
<1>3. \A c \in Storing : KeyBytes'[c] = KeyBytes[c]
  BY DEF Storing, KeyBytes
<1>4. SumOver(Storing, KeyBytes') = SumOver(Storing, KeyBytes)
  BY <1>3, SumSame
<1> QED BY <1>1, <1>2, <1>4 DEF SizeInv

\* A step of a client that neither starts nor ends a store.
LEMMA SizeClient ==
  ASSUME Inv, SizeInv, NEW c \in Clients, NEW q, q # "storing", pc[c] # "storing",
         pc' = [pc EXCEPT ![c] = q], \A d \in Clients : d # c => key'[d] = key[d],
         entries' = entries, current_cache_size' = current_cache_size,
         \A e \in entries : ent'[e].key = ent[e].key
  PROVE  SizeInv'
<1>1. pc \in [Clients -> Labels]
  BY DEF Inv, TypeInv
<1>2. \A d \in Clients : pc'[d] = IF d = c THEN q ELSE pc[d]
  BY <1>1
<1>3. \A d \in Clients : pc[d] = "storing" <=> pc'[d] = "storing"
  BY <1>2
<1>4. \A d \in Clients : pc[d] = "storing" => key'[d] = key[d]
  OBVIOUS
<1> QED BY <1>3, <1>4, SizeFrame

\* The steps that leave the entries alone.
LEMMA SizeQuiet ==
  ASSUME Inv, SizeInv, NEW c \in Clients,
         \/ \E k \in Keys : LookupMiss(c, k)
         \/ AllocateBlock(c) \/ AllocateFails(c) \/ LookupDone(c) \/ Compute(c) \/ ComputeFails(c)
         \/ StoreKnown(c) \/ ReadHeader(c) \/ FreeBlock(c)
  PROVE  SizeInv'
<1>1. key \in [Clients -> Keys \cup {NULL}]
  BY DEF Inv, TypeInv
<1>2. UNCHANGED <<listVars, sizeVars>>
  BY DEF LookupMiss, AllocateBlock, AllocateFails, LookupDone, Compute, ComputeFails,
               StoreKnown, ReadHeader, FreeBlock
<1>3. entries' = entries /\ current_cache_size' = current_cache_size
      /\ \A e \in entries : ent'[e].key = ent[e].key
  BY <1>2 DEF listVars, sizeVars
<1>4. CASE AllocateBlock(c)
  <2>1. pc' = pc /\ key' = key
    BY <1>4 DEF AllocateBlock
  <2> QED BY <1>3, <2>1, SizeFrame
<1>5. ASSUME ~AllocateBlock(c)
      PROVE  pc[c] # "storing" /\ \E q : q # "storing" /\ pc' = [pc EXCEPT ![c] = q]
  <2>1. MayStart(c) => pc[c] = "idle"
    BY DEF MayStart
  <2> QED BY <1>5, <2>1 DEF LookupMiss, AllocateFails, LookupDone, Compute, ComputeFails, StoreKnown,
               ReadHeader, FreeBlock, AfterRelease, Return
<1>6. key' = key \/ \E k : key' = [key EXCEPT ![c] = k]
  BY DEF LookupMiss, AllocateBlock, AllocateFails, LookupDone, Compute, ComputeFails,
               StoreKnown, ReadHeader, FreeBlock, AfterRelease, Forget
<1>7. \A d \in Clients : d # c => key'[d] = key[d]
  BY <1>1, <1>6
<1>8. CASE ~AllocateBlock(c)
  <2>1. PICK q : q # "storing" /\ pc' = [pc EXCEPT ![c] = q]
    BY <1>5, <1>8
  <2> QED BY <1>3, <1>5, <1>7, <1>8, <2>1, SizeClient
<1> QED BY <1>4, <1>8

\* Setting a link or a count of an entry.
Relinked(q, r) ==
  \E m, l, n : \/ q = [r EXCEPT !.more_recent = m, !.less_recent = l, !.in_use_count = n]
              \/ q = [r EXCEPT !.in_use_count = n]
              \/ q = [r EXCEPT !.more_recent = m]
              \/ q = [r EXCEPT !.next = n, !.less_recent = l]

\* An entry of which a link or a count is set keeps its key.
LEMMA KeyKept == ASSUME NEW r \in CacheEntries, NEW q, q = r \/ Relinked(q, r) PROVE q.key = r.key
BY DEF CacheEntries, Relinked

\* A hit moves an entry and counts its users, a release counts one less.
LEMMA SizeUse ==
  ASSUME Inv, SizeInv, NEW c \in Clients, (\E k \in Keys : LookupHit(c, k)) \/ ReleaseEntry(c)
  PROVE  SizeInv'
<1>1. /\ key \in [Clients -> Keys \cup {NULL}] /\ ent \in [Entries -> CacheEntries]
      /\ entries \subseteq Entries
  BY DEF Inv, TypeInv
<1>2. ASSUME NEW k \in Keys, LookupHit(c, k) PROVE SizeInv'
  <2>0. PICK e : e = Lookup(k)
    OBVIOUS
  <2>1. /\ MayStart(c) /\ pc' = [pc EXCEPT ![c] = "using"] /\ key' = [key EXCEPT ![c] = k]
        /\ entries' = entries /\ UNCHANGED sizeVars
        /\ ent' = [ent EXCEPT ![e].in_use_count = UsedAgain(e)] \/ MoveToFront(e)
    BY <1>2, <2>0 DEF LookupHit, Return
  <2>4. ASSUME NEW x \in entries PROVE ent'[x].key = ent[x].key
    <3>1. x \in Entries /\ ent[x] \in CacheEntries
      BY <1>1
    <3>2. CASE ent' = [ent EXCEPT ![e].in_use_count = UsedAgain(e)]
      <4>1. ent'[x] = ent[x] \/ ent'[x] = [ent[x] EXCEPT !.in_use_count = UsedAgain(e)]
        BY <1>1, <3>1, <3>2
      <4>2. ent'[x] = ent[x] \/ Relinked(ent'[x], ent[x])
        BY <4>1 DEF Relinked
      <4> QED BY <3>1, <4>2, KeyKept
    <3>3. CASE MoveToFront(e)
      <4>1. Relinked(ent'[x], ent[x])
        BY <1>1, <3>1, <3>3 DEF MoveToFront, Relinked
      <4> QED BY <3>1, <4>1, KeyKept
    <3> QED BY <2>1, <3>2, <3>3
  <2>5. \A d \in Clients : d # c => key'[d] = key[d]
    BY <1>1, <2>1
  <2>6. pc[c] # "storing" /\ current_cache_size' = current_cache_size /\ "using" # "storing"
    BY <2>1 DEF MayStart, sizeVars
  <2> QED BY <2>1, <2>4, <2>5, <2>6, SizeClient
<1>3. CASE ReleaseEntry(c)
  <2>1. /\ pc[c] = "releasing" /\ entries' = entries /\ UNCHANGED sizeVars /\ AfterRelease(c)
        /\ ent' = [ent EXCEPT ![found[c]].in_use_count = @ - 1]
    BY <1>3 DEF ReleaseEntry
  <2>2. ASSUME NEW x \in entries PROVE ent'[x].key = ent[x].key
    <3>1. x \in Entries /\ ent[x] \in CacheEntries
      BY <1>1
    <3>2. ent'[x] = ent[x] \/ Relinked(ent'[x], ent[x])
      BY <1>1, <2>1, <3>1 DEF Relinked
    <3> QED BY <3>1, <3>2, KeyKept
  <2>3. PICK q : q # "storing" /\ pc' = [pc EXCEPT ![c] = q]
    BY <2>1 DEF AfterRelease, Return
  <2>4. key' = key \/ key' = [key EXCEPT ![c] = NULL]
    BY <2>1 DEF AfterRelease, Forget
  <2>5. \A d \in Clients : d # c => key'[d] = key[d]
    BY <1>1, <2>4
  <2>6. pc[c] # "storing" /\ current_cache_size' = current_cache_size
    BY <2>1 DEF sizeVars
  <2> QED BY <2>1, <2>2, <2>3, <2>5, <2>6, SizeClient
<1> QED BY <1>2, <1>3

\* A store adds the size of its key before anything else.
LEMMA SizeStoreNew == ASSUME Inv, SizeInv, NEW c \in Clients, StoreNew(c) PROVE SizeInv'
<1>1. /\ pc[c] = "computed" /\ lock = NULL /\ pc' = [pc EXCEPT ![c] = "storing"]
      /\ current_cache_size' = current_cache_size + Bytes[key[c]] /\ key' = key
      /\ entries' = entries /\ ent' = ent
  BY DEF StoreNew, Return, listVars
<1>2. Storing = {}
  BY <1>1, StoringIs, CacheAssumption
<1>3. Storing' = {c}
  <2>1. pc \in [Clients -> Labels]
    BY DEF Inv, TypeInv
  <2>2. \A d \in Clients : pc'[d] = IF d = c THEN "storing" ELSE pc[d]
    BY <1>1, <2>1
  <2> QED BY <1>2, <2>2 DEF Storing
<1>4. key[c] \in Keys
  <2>1. HeldInv(c)
    BY DEF Inv, ClientInv
  <2> QED BY <1>1, <2>1 DEF HeldInv
<1>5. KeyBytes'[c] = Bytes[key[c]] /\ Bytes[key[c]] \in Nat
  BY <1>1, <1>4, CacheAssumption DEF KeyBytes
<1>6. SumOver({c}, KeyBytes') = Bytes[key[c]]
  BY <1>5, SumSmall
<1>7. SumOver(entries, EntryBytes') = SumOver(entries, EntryBytes)
  BY <1>1, EntriesSame DEF Inv, TypeInv
<1>8. SumOver({}, KeyBytes) = 0 /\ SumOver(entries, EntryBytes) \in Nat
  BY SumSmall, SumFinite, EntryBytesType
<1>9. current_cache_size = SumOver(entries, EntryBytes) + SumOver({}, KeyBytes)
  BY <1>2 DEF SizeInv
<1>10. current_cache_size' = SumOver(entries, EntryBytes) + Bytes[key[c]]
  BY <1>1, <1>5, <1>8, <1>9, SMTT(30)
<1> QED BY <1>1, <1>3, <1>6, <1>7, <1>10 DEF SizeInv

\* After a store nobody stores.
LEMMA StoreEnds ==
  ASSUME Inv, NEW c \in Clients, pc[c] = "storing", pc' = [pc EXCEPT ![c] = "using"]
  PROVE  Storing' = {} /\ SumOver(Storing', KeyBytes') = 0
<1>1. pc \in [Clients -> Labels] /\ Storing = {c}
  BY StoringIs DEF Inv, TypeInv
<1>2. \A d \in Clients : pc'[d] = IF d = c THEN "using" ELSE pc[d]
  BY <1>1
<1>3. Storing' = {}
  BY <1>1, <1>2 DEF Storing
<1> QED BY <1>3, SumSmall

\* A store that fails takes the size back.
LEMMA SizeStoreFails == ASSUME Inv, SizeInv, NEW c \in Clients, StoreFails(c) PROVE SizeInv'
<1>1. /\ pc[c] = "storing" /\ pc' = [pc EXCEPT ![c] = "using"]
      /\ current_cache_size' = current_cache_size - Bytes[key[c]]
      /\ entries' = entries /\ ent' = ent
  BY DEF StoreFails, WithoutAdded, Return, listVars
<1>2. SumOver(entries, EntryBytes') = SumOver(entries, EntryBytes)
  BY <1>1, EntriesSame DEF Inv, TypeInv
<1>3. SumOver(Storing, KeyBytes) = Bytes[key[c]] /\ SumOver(Storing', KeyBytes') = 0
  BY <1>1, StoringIs, StoreEnds
<1>4. SumOver(entries, EntryBytes) \in Nat
  BY SumFinite, EntryBytesType
<1>5. Bytes[key[c]] \in Nat
  <2>1. HeldInv(c)
    BY DEF Inv, ClientInv
  <2>2. key[c] \in Keys
    BY <1>1, <2>1 DEF HeldInv
  <2> QED BY <2>2, CacheAssumption
<1>6. current_cache_size = SumOver(entries, EntryBytes) + Bytes[key[c]]
  BY <1>3 DEF SizeInv
<1>7. current_cache_size' = SumOver(entries, EntryBytes) + 0
  BY <1>1, <1>4, <1>5, <1>6, SMTT(30)
<1> QED BY <1>1, <1>2, <1>3, <1>7 DEF SizeInv

\* A store that succeeds leaves the size to the new entry.
LEMMA SizeStoreInsert == ASSUME Inv, SizeInv, NEW c \in Clients, StoreInsert(c) PROVE SizeInv'
<1>1. PICK e \in Entries \ entries :
        /\ entries' = entries \cup {e}
        /\ ent' = [x \in Entries |->
                    IF x = e THEN [key |-> key[c], next |-> cache_entries[Hash[key[c]]], more_recent |-> NULL,
                                   less_recent |-> most_recently_used, in_use_count |-> TupleCount[key[c]],
                                   buf |-> held[c]]
                    ELSE [ent[x] EXCEPT !.more_recent = IF x = most_recently_used THEN e ELSE @]]
        /\ pc[c] = "storing" /\ pc' = [pc EXCEPT ![c] = "using"] /\ current_cache_size' = current_cache_size
  BY DEF StoreInsert, Return, sizeVars
<1>2. ent \in [Entries -> CacheEntries] /\ entries \subseteq Entries
  BY DEF Inv, TypeInv
<1>3. ASSUME NEW x \in entries PROVE ent'[x].key = ent[x].key
  <2>1. x \in Entries /\ x # e /\ ent[x] \in CacheEntries
    BY <1>2
  <2>2. Relinked(ent'[x], ent[x])
    BY <1>1, <2>1 DEF Relinked
  <2> QED BY <2>1, <2>2, KeyKept
<1>4. ent'[e].key = key[c]
  BY <1>1
<1>5. SumOver(Storing, KeyBytes) = Bytes[key[c]] /\ SumOver(Storing', KeyBytes') = 0
  BY <1>1, StoringIs, StoreEnds
<1>6. SumOver(entries, EntryBytes') = SumOver(entries, EntryBytes)
  BY <1>2, <1>3, EntriesSame
<1>7. /\ EntryBytes'[e] = Bytes[key[c]] /\ Bytes[key[c]] \in Nat
      /\ \A x \in entries : EntryBytes'[x] \in Nat
  <2>1. HeldInv(c)
    BY DEF Inv, ClientInv
  <2>2. key[c] \in Keys
    BY <1>1, <2>1 DEF HeldInv
  <2>3. \A x \in entries : EntryBytes'[x] = EntryBytes[x]
    BY <1>2, <1>3 DEF EntryBytes
  <2>4. \A x \in entries : EntryBytes'[x] \in Nat
    BY <2>3, EntryBytesType
  <2>5. EntryBytes'[e] = Bytes[key[c]]
    BY <1>4 DEF EntryBytes
  <2> QED BY <2>2, <2>4, <2>5, CacheAssumption
<1>8. IsFiniteSet(entries) /\ SumOver(entries, EntryBytes) \in Nat
  BY SumFinite, EntryBytesType
<1>9. SumOver(entries \cup {e}, EntryBytes') = SumOver(entries, EntryBytes') + EntryBytes'[e]
  <2>1. e \notin entries /\ EntryBytes'[e] \in Nat
    BY <1>7
  <2> QED BY <1>7, <1>8, <2>1, SumAdd
<1>10. SumOver(entries', EntryBytes') = SumOver(entries, EntryBytes) + Bytes[key[c]]
  BY <1>1, <1>6, <1>7, <1>9
<1>11. current_cache_size' = SumOver(entries, EntryBytes) + Bytes[key[c]]
  BY <1>1, <1>5 DEF SizeInv
<1>12. current_cache_size' = SumOver(entries', EntryBytes') + 0
  BY <1>7, <1>8, <1>10, <1>11, SMTT(30)
<1> QED BY <1>5, <1>12 DEF SizeInv

\* prune_cache takes off the size of the entry it frees.
LEMMA SizePrune == ASSUME Inv, SizeInv, PruneEntry PROVE SizeInv'
<1>0. PICK e : e = prune_candidate
  OBVIOUS
<1>1. /\ entries' = entries \ {e} /\ UNCHANGED clientVars
      /\ current_cache_size' = current_cache_size - Bytes[ent[e].key]
      /\ \A x \in Entries : x # e => \E n, l : ent'[x] = [ent[x] EXCEPT !.next = n, !.less_recent = l]
  BY <1>0 DEF PruneEntry
<1>2. ent \in [Entries -> CacheEntries] /\ entries \subseteq Entries /\ e \in entries
  BY <1>0 DEF PruneEntry, MustPrune, Inv, TypeInv, LockInv
<1>3. ASSUME NEW x \in entries \ {e} PROVE ent'[x].key = ent[x].key
  <2>1. x \in Entries /\ x # e /\ ent[x] \in CacheEntries
    BY <1>2
  <2>2. Relinked(ent'[x], ent[x])
    BY <1>1, <2>1 DEF Relinked
  <2> QED BY <2>1, <2>2, KeyKept
<1>4. SumOver(entries \ {e}, EntryBytes') = SumOver(entries \ {e}, EntryBytes)
  BY <1>2, <1>3, EntriesSame
<1>5. SumOver(entries \ {e}, EntryBytes) = SumOver(entries, EntryBytes) - EntryBytes[e]
  BY <1>2, EntryBytesType, SumRemove
<1>6. EntryBytes[e] = Bytes[ent[e].key] /\ EntryBytes[e] \in Nat /\ SumOver(entries, EntryBytes) \in Nat
  BY <1>2, EntryBytesType, SumFinite
<1>7. UNCHANGED <<Storing, KeyBytes>>
  BY <1>1 DEF clientVars, Storing, KeyBytes
<1>8. SumOver(Storing, KeyBytes) \in Nat
  BY AddedType
<1>9. PICK s, b, t : s = SumOver(entries, EntryBytes) /\ b = EntryBytes[e] /\ t = SumOver(Storing, KeyBytes)
  OBVIOUS
<1>10. current_cache_size = s + t /\ current_cache_size' = current_cache_size - b
  BY <1>1, <1>6, <1>9 DEF SizeInv
<1>11. current_cache_size' = (s - b) + t
  BY <1>6, <1>8, <1>9, <1>10, SMTT(30)
<1>12. SumOver(entries', EntryBytes') = s - b /\ SumOver(Storing', KeyBytes') = t
  BY <1>1, <1>4, <1>5, <1>7, <1>9
<1> QED BY <1>11, <1>12 DEF SizeInv

\* Cleaning up leaves nothing.
LEMMA SizeCleanup == ASSUME Inv, halide_memoization_cache_cleanup PROVE SizeInv'
<1>1. /\ \A c \in Clients : pc[c] = "idle"
      /\ entries' = entries \ InTable /\ current_cache_size' = 0 /\ pc' = pc
  BY DEF halide_memoization_cache_cleanup, clientVars
<1>2. entries' = {}
  BY <1>1, TableHoldsEntries DEF Inv
<1>3. Storing' = {}
  BY <1>1 DEF Storing
<1>4. SumOver(entries', EntryBytes') = 0 /\ SumOver(Storing', KeyBytes') = 0
  BY <1>2, <1>3, SumSmall
<1>5. current_cache_size' = 0 + 0
  BY <1>1, SMTT(30)
<1> QED BY <1>4, <1>5 DEF SizeInv

\* At the start there is nothing.
LEMMA SizeInit == Init => SizeInv
<1> SUFFICES ASSUME Init PROVE SizeInv
  OBVIOUS
<1>1. entries = {} /\ Storing = {} /\ current_cache_size = 0
  BY DEF Init, Storing
<1>2. SumOver(entries, EntryBytes) = 0 /\ SumOver(Storing, KeyBytes) = 0
  BY <1>1, SumSmall
<1>3. current_cache_size = 0 + 0
  BY <1>1, SMTT(30)
<1> QED BY <1>2, <1>3 DEF SizeInv

\* Every step keeps count of the size.
LEMMA SizeStep == Inv /\ SizeInv /\ [Next]_vars => SizeInv'
<1> SUFFICES ASSUME Inv, SizeInv, [Next]_vars PROVE SizeInv'
  OBVIOUS
<1>1. ASSUME NEW c \in Clients, Realization(c) PROVE SizeInv'
  <2>1. workload.keys \subseteq Keys
    BY CacheAssumption DEF Inv, TypeInv
  <2>2. CASE StoreNew(c) \/ StoreInsert(c) \/ StoreFails(c)
    BY <2>2, SizeStoreNew, SizeStoreInsert, SizeStoreFails
  <2>3. CASE (\E k \in Keys : LookupHit(c, k)) \/ ReleaseEntry(c)
    BY <2>3, SizeUse
  <2>4. CASE \/ \E k \in Keys : LookupMiss(c, k)
             \/ AllocateBlock(c) \/ AllocateFails(c) \/ LookupDone(c) \/ Compute(c) \/ ComputeFails(c)
             \/ StoreKnown(c) \/ ReadHeader(c) \/ FreeBlock(c)
    BY <2>4, SizeQuiet
  <2> QED BY <1>1, <2>1, <2>2, <2>3, <2>4 DEF Realization
<1>2. ASSUME UNCHANGED <<listVars, clientVars, current_cache_size>> PROVE SizeInv'
  <2>1. UNCHANGED <<entries, ent, pc, key, current_cache_size>>
    BY <1>2 DEF listVars, clientVars
  <2> QED BY <2>1, SizeFrame
<1>3. CASE PruneSkip \/ SetSizeDone \/ UNCHANGED vars
  BY <1>2, <1>3 DEF PruneSkip, SetSizeDone, vars, sizeVars
<1>4. ASSUME NEW n, halide_memoization_cache_set_size(n) PROVE SizeInv'
  BY <1>2, <1>4 DEF halide_memoization_cache_set_size
<1> QED BY <1>1, <1>3, <1>4, SizePrune, SizeCleanup DEF Next

\* What prune_cache has passed is in use: it ends within max_cache_size, or with
\* nothing left to prune.
LEMMA SizeHolds == Inv /\ SizeInv => SizeAccounted
<1> SUFFICES ASSUME Inv, SizeInv PROVE SizeAccounted
  OBVIOUS
<1>1. ASSUME lock \in Storing \cup {Application}, ~MustPrune
      PROVE  current_cache_size <= max_cache_size \/ \A e \in entries : ~Prunable(e)
  <2>1. CASE prune_candidate # NULL
    <3>1. ~(current_cache_size > max_cache_size) /\ current_cache_size \in Int /\ max_cache_size \in Int
      BY <1>1, <2>1, SMTT(30) DEF MustPrune, Inv, TypeInv
    <3> QED BY <3>1, SMTT(30)
  <2>2. CASE prune_candidate = NULL
    <3>1. Pruning
      BY <1>1 DEF Pruning, Storing
    <3>2. PICK rank \in [Entries -> Int] : PruneOrder(rank)
      BY DEF Inv, LruInv
    <3> QED BY <2>2, <3>1, <3>2 DEF PruneOrder
  <2> QED BY <2>1, <2>2
<1> QED BY <1>1 DEF SizeAccounted, SizeInv

\* The types, and no count and no size below zero.
LEMMA TypesHold == Inv /\ SizeInv => TypeOK
<1> SUFFICES ASSUME Inv, SizeInv PROVE TypeOK
  OBVIOUS
<1>1. TypeInv
  BY DEF Inv
<1>2. current_cache_size \in Nat
  <2>1. SumOver(entries, EntryBytes) \in Nat
    BY EntryBytesType, SumFinite
  <2>2. SumOver(Storing, KeyBytes) \in Nat
    BY AddedType
  <2> QED BY <2>1, <2>2, SMTT(30) DEF SizeInv
<1>3. ASSUME NEW e \in Entries
      PROVE  /\ ent[e].key \in Keys \cup {NULL} /\ ent[e].in_use_count \in Nat
             /\ \A f \in Fields : ent[e][f] \in Entries \cup {NULL}
  <2>1. ent[e] \in CacheEntries
    BY <1>1 DEF TypeInv
  <2>2. ent[e].key \in Keys \cup {NULL} /\ ent[e].next \in Pointers
        /\ ent[e].more_recent \in Pointers /\ ent[e].less_recent \in Pointers
    BY <2>1 DEF CacheEntries
  <2>3. \A f \in Fields : ent[e][f] \in Entries \cup {NULL}
    BY <2>2 DEF Fields, Pointers
  <2>4. ASSUME e \in entries PROVE ent[e].in_use_count \in Nat
    BY <2>4, FS_CardinalityType DEF Inv, UsersInv
  <2>5. ASSUME e \notin entries PROVE ent[e].in_use_count \in Nat
    <3>1. ent[e].in_use_count = 0
      BY <2>5 DEF Inv, EntryInv
    <3> QED BY <3>1, SMTT(30)
  <2>6. ent[e].in_use_count \in Nat
    BY <2>4, <2>5
  <2> QED BY <2>2, <2>3, <2>6
<1> QED BY <1>1, <1>2, <1>3 DEF TypeInv, TypeOK, Pointers, Labels
=============================================================================
