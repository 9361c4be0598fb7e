----------------------------- MODULE CacheProofs ----------------------------
(***************************************************************************)
(* The steps that change the lists of the memoization cache keep the       *)
(* invariant of CacheLemmas, and what follows from it.                     *)
(*                                                                         *)
(* prune_cache frees the first entry from the old end on that nobody uses. *)
(* When an older one is in use, the entry it frees is in the middle of the *)
(* list, and the pointer more_recent of its older neighbour is left        *)
(* dangling. So the theorems assume that what is pruned is the oldest      *)
(* entry; the last ones show that this is so as long as no two memoized    *)
(* realizations are held at once, by two pipelines or by one.              *)
(***************************************************************************)
EXTENDS CacheLemmas

\* A leaf is for Zenon unless it says otherwise.
USE ZenonT(30)

-----------------------------------------------------------------------------
(* Look-ups that hit *)

\* An entry with other places in the recency list and another use count.
HasLinks(q, r, m, l, n) ==
  /\ q \in CacheEntries /\ q.in_use_count = n /\ q.key = r.key /\ q.next = r.next
  /\ q.buf = r.buf /\ q.more_recent = m /\ q.less_recent = l

\* Such an entry is made by setting the three fields.
LEMMA WithLinks ==
  ASSUME NEW r \in CacheEntries, NEW m \in Pointers, NEW l \in Pointers, NEW n \in Int, NEW q,
         q = [r EXCEPT !.more_recent = m, !.less_recent = l, !.in_use_count = n]
  PROVE  HasLinks(q, r, m, l, n)
BY DEF CacheEntries, HasLinks

\* What MoveToFront assigns.
LEMMA FrontLinks ==
  ASSUME TypeInv, NEW e \in entries, e \in Entries, UsedAgain(e) \in Int, MoveToFront(e)
  PROVE  /\ ent' \in [Entries -> CacheEntries]
         /\ \A x \in Entries :
              /\ ent'[x].key = ent[x].key /\ ent'[x].next = ent[x].next /\ ent'[x].buf = ent[x].buf
              /\ ent'[x].in_use_count = IF x = e THEN UsedAgain(e) ELSE ent[x].in_use_count
              /\ ent'[x].more_recent = IF x = e THEN NULL ELSE IF x = most_recently_used THEN e
                                       ELSE IF x = ent[e].less_recent THEN ent[e].more_recent
                                       ELSE ent[x].more_recent
              /\ ent'[x].less_recent = IF x = e THEN most_recently_used
                                       ELSE IF x = ent[e].more_recent THEN ent[e].less_recent
                                       ELSE ent[x].less_recent
<1> DEFINE M(x) == IF x = e THEN NULL ELSE IF x = most_recently_used THEN e
                   ELSE IF x = ent[e].less_recent THEN ent[e].more_recent ELSE ent[x].more_recent
           L(x) == IF x = e THEN most_recently_used
                   ELSE IF x = ent[e].more_recent THEN ent[e].less_recent ELSE ent[x].less_recent
           N(x) == IF x = e THEN UsedAgain(e) ELSE ent[x].in_use_count
<1>1. ent' = [x \in Entries |-> [ent[x] EXCEPT !.more_recent = M(x), !.less_recent = L(x), !.in_use_count = N(x)]]
  BY DEF MoveToFront
<1>2. ASSUME NEW x \in Entries
      PROVE  ent[x] \in CacheEntries /\ M(x) \in Pointers /\ L(x) \in Pointers /\ N(x) \in Int
  <2>1. ent[x] \in CacheEntries /\ ent[e] \in CacheEntries /\ most_recently_used \in Pointers
    BY DEF TypeInv
  <2>2. /\ ent[x].more_recent \in Pointers /\ ent[x].less_recent \in Pointers /\ ent[x].in_use_count \in Int
        /\ ent[e].more_recent \in Pointers /\ ent[e].less_recent \in Pointers
    BY <2>1 DEF CacheEntries
  <2>3. e \in Pointers /\ NULL \in Pointers
    BY DEF Pointers
  <2> QED BY <2>1, <2>2, <2>3
<1> HIDE DEF M, L, N
<1>3. ASSUME NEW x \in Entries
      PROVE  /\ ent'[x] \in CacheEntries
             /\ ent'[x].key = ent[x].key /\ ent'[x].next = ent[x].next /\ ent'[x].buf = ent[x].buf
             /\ ent'[x].in_use_count = N(x) /\ ent'[x].more_recent = M(x) /\ ent'[x].less_recent = L(x)
  <2>1. ent'[x] = [ent[x] EXCEPT !.more_recent = M(x), !.less_recent = L(x), !.in_use_count = N(x)]
    BY <1>1
  <2>2. ent[x] \in CacheEntries /\ M(x) \in Pointers /\ L(x) \in Pointers /\ N(x) \in Int
    BY <1>2
  <2>3. HasLinks(ent'[x], ent[x], M(x), L(x), N(x))
    BY <2>1, <2>2, WithLinks
  <2> QED BY <2>3 DEF HasLinks
<1>4. ent' \in [Entries -> CacheEntries]
  BY <1>1, <1>3
<1> QED BY <1>3, <1>4 DEF M, L, N

\* The recency list is doubly linked.
LEMMA LruLinked ==
  ASSUME TypeInv, NEW rank \in [Entries -> Int], LruOrder(rank)
  PROVE  DoublyLinked(entries, most_recently_used, least_recently_used, LessOf, MoreOf, rank,
                      Negated(rank), NULL)
<1>1. NULL \notin entries /\ \A x \in entries : rank[x] \in Int /\ Negated(rank)[x] = -rank[x]
  BY CacheAssumption DEF TypeInv, Negated
<1> QED BY <1>1 DEF DoublyLinked, LruOrder

\* A look-up that hits makes the entry the youngest.
LEMMA MovedToFront ==
  ASSUME TypeInv, LruInv, NEW e \in entries, e # most_recently_used, UsedAgain(e) \in Int, MoveToFront(e),
         entries' = entries, ~Pruning'
  PROVE  LruInv'
<1> DEFINE mru == most_recently_used
<1>0. entries \subseteq Entries /\ e \in Entries
  BY DEF TypeInv
<1>1. PICK rank \in [Entries -> Int] : LruOrder(rank)
  BY DEF LruInv
<1>2. mru \in entries /\ rank[mru] \in Int
  BY <1>0, <1>1, Ends
<1>3. PICK rank2 \in [Entries -> Int] : rank2 = [x \in Entries |-> IF x = e THEN rank[mru] + 1 ELSE rank[x]]
  <2> DEFINE r2 == [x \in Entries |-> IF x = e THEN rank[mru] + 1 ELSE rank[x]]
  <2>1. r2 \in [Entries -> Int]
    BY <1>2, SMTT(30)
  <2> QED BY <2>1
<1>4. /\ \A x \in Entries : MoreOf[x] = ent[x].more_recent /\ LessOf[x] = ent[x].less_recent
      /\ \A x \in Entries : MoreOf'[x] = ent'[x].more_recent /\ LessOf'[x] = ent'[x].less_recent
  BY DEF MoreOf, LessOf
<1>5. /\ MoreOf'[e] = NULL /\ LessOf'[e] = mru
      /\ \A x \in entries \ {e} :
           /\ MoreOf'[x] = IF x = mru THEN e ELSE IF x = LessOf[e] THEN MoreOf[e] ELSE MoreOf[x]
           /\ LessOf'[x] = IF x = MoreOf[e] THEN LessOf[e] ELSE LessOf[x]
  BY <1>0, <1>4, FrontLinks, SMTT(30)
<1>6. /\ rank2[e] = rank[mru] + 1 /\ Negated(rank2)[e] = -rank2[e]
      /\ \A x \in entries \ {e} : rank2[x] = rank[x] /\ Negated(rank2)[x] = Negated(rank)[x]
  BY <1>0, <1>3 DEF Negated
<1>7. ToFront(entries, mru, LessOf, MoreOf, rank, Negated(rank), NULL, e, LessOf', MoreOf', rank2,
              Negated(rank2))
  BY <1>5, <1>6 DEF ToFront
<1>8. DoublyLinked(entries, e, IF LessOf[e] = NULL THEN MoreOf[e] ELSE least_recently_used, LessOf', MoreOf',
                   rank2, Negated(rank2), NULL)
  BY <1>1, <1>7, LruLinked, DoublyLinkedToFront
<1>9. /\ most_recently_used' = e
      /\ least_recently_used' = IF LessOf[e] = NULL THEN MoreOf[e] ELSE least_recently_used
  BY <1>0, <1>4 DEF MoveToFront, LruWithout
<1>10. LruOrder(rank2)'
  BY <1>8, <1>9 DEF LruOrder, DoublyLinked, Negated
<1>11. PruneOrder(rank2)'
  BY DEF PruneOrder
<1> QED BY <1>10, <1>11 DEF LruInv

\* A look-up that hits keeps the invariant.
LEMMA LookupHitInv ==
  ASSUME Inv, NEW c \in Clients, NEW k \in Keys, LookupHit(c, k), UNCHANGED workload
  PROVE  Inv'
<1>e. PICK e : e = Lookup(k)
  OBVIOUS
<1>0. /\ pc[c] = "idle" /\ lock = NULL /\ e # NULL
      /\ held' = [held EXCEPT ![c] = ent[e].buf] /\ key' = [key EXCEPT ![c] = k]
      /\ pc' = [pc EXCEPT ![c] = "using"]
      /\ UNCHANGED <<lock, cache_entries, entries, sizeVars, blockVars, found, prune_candidate>>
      /\ IF e = most_recently_used
         THEN /\ ent' = [ent EXCEPT ![e].in_use_count = UsedAgain(e)]
              /\ UNCHANGED <<most_recently_used, least_recently_used>>
         ELSE MoveToFront(e)
  BY <1>e DEF LookupHit, MayStart, Return
<1>1. e \in entries /\ e \in Entries /\ ent[e].key = k
  <2>1. e \in entries /\ ent[e].key = k
    BY <1>e, <1>0, LookupFinds DEF Inv
  <2> QED BY <2>1 DEF Inv, TypeInv
<1>2. /\ StoredInv(e) /\ ent[e] \in CacheEntries /\ TupleCount[k] \in Nat \ {0}
      /\ UsedAgain(e) = ent[e].in_use_count + TupleCount[k] /\ UsedAgain(e) \in Int
  <2>1. StoredInv(e) /\ ent[e] \in CacheEntries /\ TupleCount[k] \in Nat \ {0}
    BY <1>1, CacheAssumption DEF Inv, EntryInv, TypeInv
  <2>2. ent[e].in_use_count \in Int
    BY <2>1 DEF CacheEntries
  <2> QED BY <1>1, <2>1, <2>2, SMTT(30) DEF UsedAgain
<1>3. UNCHANGED <<blocks, header, contents, max_cache_size, current_cache_size>>
  BY <1>0 DEF sizeVars, blockVars
<1>4. /\ ent' \in [Entries -> CacheEntries] /\ ent'[e].in_use_count = ent[e].in_use_count + TupleCount[k]
      /\ \A x \in Entries : /\ x # e => ent'[x].in_use_count = ent[x].in_use_count
                            /\ ent'[x].key = ent[x].key /\ ent'[x].next = ent[x].next
                            /\ ent'[x].buf = ent[x].buf
  <2>1. CASE e = most_recently_used
    <3>1. ent \in [Entries -> CacheEntries]
      BY DEF Inv, TypeInv
    <3>2. ent' = [ent EXCEPT ![e].in_use_count = UsedAgain(e)]
      BY <1>0, <2>1
    <3>3. /\ ent'[e] = [ent[e] EXCEPT !.in_use_count = UsedAgain(e)]
          /\ ent' = [ent EXCEPT ![e] = [ent[e] EXCEPT !.in_use_count = UsedAgain(e)]]
          /\ \A x \in Entries : x # e => ent'[x] = ent[x]
      BY <1>1, <3>1, <3>2
    <3>4. /\ ent'[e] \in CacheEntries /\ ent'[e].in_use_count = UsedAgain(e)
          /\ ent'[e].key = ent[e].key /\ ent'[e].next = ent[e].next /\ ent'[e].buf = ent[e].buf
      BY <1>2, <3>3, WithCount, SMTT(30)
    <3>5. ent' \in [Entries -> CacheEntries]
      BY <3>1, <3>3, <3>4
    <3> QED BY <1>2, <3>3, <3>4, <3>5
  <2>2. CASE e # most_recently_used
    <3>1. MoveToFront(e) /\ TypeInv
      BY <1>0, <2>2 DEF Inv
    <3> QED BY <1>1, <1>2, <3>1, FrontLinks, SMTT(30)
  <2> QED BY <2>1, <2>2
<1>5. NULL \notin Clients /\ NULL # Application /\ ~Pruning'
  BY <1>0, CacheAssumption DEF Pruning
<1>6. LruInv'
  <2>1. CASE e = most_recently_used
    <3>1. /\ UNCHANGED <<most_recently_used, least_recently_used, entries>>
          /\ ent' = [ent EXCEPT ![e].in_use_count = UsedAgain(e)] /\ ent \in [Entries -> CacheEntries]
      BY <1>0, <2>1 DEF Inv, TypeInv
    <3>2. \A x \in Entries : /\ ent'[x].more_recent = ent[x].more_recent
                             /\ ent'[x].less_recent = ent[x].less_recent
      <4>1. ent'[e] = [ent[e] EXCEPT !.in_use_count = UsedAgain(e)] /\ \A x \in Entries : x # e => ent'[x] = ent[x]
        BY <1>1, <3>1
      <4>2. ent'[e].more_recent = ent[e].more_recent /\ ent'[e].less_recent = ent[e].less_recent
        BY <1>2, <4>1, WithCount, SMTT(30)
      <4> QED BY <4>1, <4>2
    <3> QED BY <1>5, <3>1, <3>2, LruFrame DEF Inv
  <2>2. CASE e # most_recently_used
    <3>1. MoveToFront(e) /\ entries' = entries /\ TypeInv /\ LruInv
      BY <1>0, <2>2 DEF Inv
    <3> QED BY <1>1, <1>2, <1>5, <2>2, <3>1, MovedToFront
  <2> QED BY <2>1, <2>2
<1>7. /\ most_recently_used' \in Pointers /\ least_recently_used' \in Pointers
  <2>1. CASE e = most_recently_used
    BY <1>0, <2>1 DEF Inv, TypeInv
  <2>2. CASE e # most_recently_used
    <3>1. most_recently_used' = e /\ least_recently_used' \in {ent[e].more_recent, least_recently_used}
      BY <1>0, <2>2 DEF MoveToFront, LruWithout
    <3>2. ent[e].more_recent \in Pointers /\ e \in Pointers /\ least_recently_used \in Pointers
      BY <1>1, <1>2 DEF CacheEntries, Pointers, Inv, TypeInv
    <3> QED BY <3>1, <3>2
  <2> QED BY <2>1, <2>2
<1>8. ent[e].buf \in Seq(Blocks) /\ Len(ent[e].buf) = TupleCount[k] /\ Distinct(ent[e].buf)
  BY <1>1, <1>2 DEF StoredInv, CacheEntries
<1>9. /\ pc'[c] = "using" /\ key'[c] = k /\ held'[c] = ent[e].buf /\ held[c] = <<>> /\ found[c] = NULL
      /\ pc' \in [Clients -> Labels] /\ key' \in [Clients -> Keys \cup {NULL}]
      /\ held' \in [Clients -> Seq(Blocks)]
      /\ \A d \in Clients \ {c} : pc'[d] = pc[d] /\ key'[d] = key[d] /\ held'[d] = held[d]
  <2>1. pc'[c] = "using" /\ pc' \in [Clients -> Labels] /\ \A d \in Clients \ {c} : pc'[d] = pc[d]
    BY <1>0 DEF Inv, TypeInv, Labels
  <2>2. key'[c] = k /\ key' \in [Clients -> Keys \cup {NULL}] /\ \A d \in Clients \ {c} : key'[d] = key[d]
    BY <1>0 DEF Inv, TypeInv
  <2>3. held'[c] = ent[e].buf /\ held' \in [Clients -> Seq(Blocks)] /\ \A d \in Clients \ {c} : held'[d] = held[d]
    BY <1>0, <1>8 DEF Inv, TypeInv
  <2>4. held[c] = <<>> /\ found[c] = NULL
    BY <1>0 DEF Inv, ClientInv, HeldInv, BuffersInv
  <2> QED BY <2>1, <2>2, <2>3, <2>4
<1>10. TypeInv'
  <2>1. UNCHANGED <<lock, cache_entries, entries, found, prune_candidate, workload>>
    BY <1>0
  <2> QED BY <1>3, <1>4, <1>7, <1>9, <2>1 DEF Inv, TypeInv
<1>11. LockInv'
  <2>1. prune_candidate' = NULL
    BY <1>0, NoCandidate
  <2>2. \A d \in Clients : pc'[d] \notin {"allocating", "storing"}
    BY <1>0, <1>5, <1>9 DEF Inv, LockInv
  <2> QED BY <1>0, <1>5, <2>1, <2>2 DEF LockInv
<1>12. \A i \in DOMAIN held'[c] : /\ header[held'[c][i]] = e /\ held'[c][i] \in blocks
                                  /\ contents[held'[c][i]] = k
  BY <1>1, <1>2, <1>9 DEF StoredInv
<1>13. /\ Len(ent[e].buf) # 0 /\ DOMAIN held'[c] = 1..TupleCount[k] /\ 1 \in DOMAIN held'[c]
  BY <1>2, <1>8, <1>9, SMTT(30)
<1>14. HeldInv(c)'
  BY <1>3, <1>8, <1>9, <1>12, <1>13, SMTT(30) DEF HeldInv, Private, Using, Distinct
<1>15. BuffersInv(c)'
  <2>1. ent'[e].key = k /\ found'[c] = NULL
    BY <1>0, <1>1, <1>4, <1>9
  <2> QED BY <1>3, <1>9, <1>12, <1>13, <2>1 DEF BuffersInv, Private, Using
<1>16. TakesOrGives(c)
  <2>1. \A i \in DOMAIN held[c] : header[held[c][i]] # NULL
    BY <1>9, SMTT(30)
  <2>2. \A i \in DOMAIN held'[c] : header[held'[c][i]] # NULL
    BY <1>0, <1>12
  <2>3. \A x \in Entries \ entries : ent'[x].in_use_count = ent[x].in_use_count
    BY <1>1, <1>4
  <2>4. UNCHANGED <<cache_entries, entries, found>> /\ pc'[c] # "storing"
    BY <1>0, <1>9
  <2> QED BY <1>3, <1>4, <1>9, <2>1, <2>2, <2>3, <2>4 DEF TakesOrGives
<1>17. UsersInv'
  <2>1. ASSUME NEW x \in entries, x # e PROVE Holders(x)' = Holders(x) /\ ent'[x].in_use_count = ent[x].in_use_count
    <3>1. ASSUME NEW d \in Clients, NEW i
          PROVE  i \in DOMAIN held'[d] /\ HoldsOne(d, i, x)' <=> i \in DOMAIN held[d] /\ HoldsOne(d, i, x)
      <4>1. CASE d = c
        BY <1>3, <1>9, <1>12, <2>1, <4>1, SMTT(30) DEF HoldsOne
      <4>2. CASE d # c
        BY <1>3, <1>9, <4>2 DEF HoldsOne
      <4> QED BY <4>1, <4>2
    <3>2. Holders(x)' = Holders(x)
      BY <3>1, HoldersKept
    <3> QED BY <1>4, <2>1, <3>2 DEF Inv, TypeInv
  <2> DEFINE P == {c} \X (1..TupleCount[k])
  <2>2. IsFiniteSet(P) /\ Cardinality(P) = TupleCount[k]
    BY <1>2, PairsCounted
  <2>3. \A d, i : <<d, i>> \in P <=> d = c /\ i \in DOMAIN held'[c]
    BY <1>13
  <2>4. \A x \in P : \E d \in Clients : \E i \in DOMAIN held'[d] : x = <<d, i>>
    <3>1. \A x \in P : \E i \in 1..TupleCount[k] : x = <<c, i>>
      BY SMTT(30)
    <3> QED BY <1>13, <3>1
  <2> HIDE DEF P
  <2>5. \A x \in Holders(e) : x \notin P
    <3>1. \A i : ~(i \in DOMAIN held[c])
      BY <1>9, SMTT(30)
    <3>2. ASSUME NEW x \in Holders(e) PROVE x \notin P
      <4>1. PICK d \in Clients : \E i \in DOMAIN held[d] : x = <<d, i>>
        BY HoldersOf
      <4>2. d # c
        BY <3>1, <4>1
      <4> QED BY <2>3, <4>1, <4>2
    <3> QED BY <3>2
  <2>6. ASSUME NEW d \in Clients, NEW i
        PROVE  i \in DOMAIN held'[d] /\ HoldsOne(d, i, e)'
                 <=> \/ i \in DOMAIN held[d] /\ HoldsOne(d, i, e)
                     \/ <<d, i>> \in P
    <3>1. CASE d = c
      BY <1>3, <1>9, <1>12, <2>3, <3>1, SMTT(30) DEF HoldsOne, Using
    <3>2. CASE d # c
      BY <1>3, <1>9, <2>3, <3>2, SMTT(30) DEF HoldsOne
    <3> QED BY <3>1, <3>2
  <2>7. Holders(e)' = Holders(e) \cup P
    BY <2>4, <2>6, HoldersGain
  <2>8. IsFiniteSet(Holders(e)) /\ ent[e].in_use_count = Cardinality(Holders(e))
    BY <1>1 DEF Inv, UsersInv
  <2>9. Holders(e) \cap P = {}
    BY <2>5
  <2>10. IsFiniteSet(Holders(e)') /\ ent'[e].in_use_count = Cardinality(Holders(e)')
    <3>1. Cardinality(Holders(e) \cap P) = 0
      BY <2>9, FS_EmptySet
    <3>2. /\ IsFiniteSet(Holders(e) \cup P)
          /\ Cardinality(Holders(e) \cup P) = Cardinality(Holders(e)) + Cardinality(P) - Cardinality(Holders(e) \cap P)
      BY <2>2, <2>8, FS_Union
    <3>3. Cardinality(Holders(e)) \in Nat
      BY <2>8, FS_CardinalityType
    <3> QED BY <1>2, <1>4, <2>2, <2>7, <2>8, <3>1, <3>2, <3>3, SMTT(30)
  <2>11. entries' = entries
    BY <1>0
  <2> QED BY <2>1, <2>10, <2>11 DEF Inv, UsersInv
<1> QED BY <1>6, <1>10, <1>11, <1>14, <1>15, <1>16, <1>17, EntryStep

-----------------------------------------------------------------------------
(* Storing *)

\* The entry halide_memoization_cache_store makes.
NewEntry(k, h, mru, s) ==
  [key |-> k, next |-> h, more_recent |-> NULL, less_recent |-> mru, in_use_count |-> TupleCount[k], buf |-> s]

\* What the insertion assigns to the entries.
Inserted(e, k, h, s) ==
  /\ ent' \in [Entries -> CacheEntries]
  /\ ent'[e].key = k /\ ent'[e].next = h /\ ent'[e].more_recent = NULL
  /\ ent'[e].less_recent = most_recently_used /\ ent'[e].in_use_count = TupleCount[k] /\ ent'[e].buf = s
  /\ \A x \in Entries \ {e} :
       /\ ent'[x].key = ent[x].key /\ ent'[x].next = ent[x].next /\ ent'[x].less_recent = ent[x].less_recent
       /\ ent'[x].in_use_count = ent[x].in_use_count /\ ent'[x].buf = ent[x].buf
       /\ ent'[x].more_recent = IF x = most_recently_used THEN e ELSE ent[x].more_recent

\* Setting the more recent neighbour.
LEMMA WithMore ==
  ASSUME NEW r \in CacheEntries, NEW m \in Pointers, NEW q, q = [r EXCEPT !.more_recent = m]
  PROVE  HasLinks(q, r, m, r.less_recent, r.in_use_count)
BY DEF CacheEntries, HasLinks

\* The store assigns that.
LEMMA InsertLinks ==
  ASSUME TypeInv, NEW e \in Entries, NEW k \in Keys, NEW h \in Pointers, NEW s \in Seq(Blocks),
         TupleCount[k] \in Int,
         ent' = [x \in Entries |->
                  IF x = e THEN NewEntry(k, h, most_recently_used, s)
                  ELSE [ent[x] EXCEPT !.more_recent = IF x = most_recently_used THEN e ELSE @]]
  PROVE  Inserted(e, k, h, s)
<1>1. ent'[e] = NewEntry(k, h, most_recently_used, s)
  OBVIOUS
<1>2. /\ ent'[e] \in CacheEntries /\ ent'[e].key = k /\ ent'[e].next = h /\ ent'[e].more_recent = NULL
      /\ ent'[e].less_recent = most_recently_used /\ ent'[e].in_use_count = TupleCount[k] /\ ent'[e].buf = s
  <2>1. NULL \in Pointers /\ most_recently_used \in Pointers
    BY DEF Pointers, TypeInv
  <2> QED BY <1>1, <2>1 DEF NewEntry, CacheEntries
<1>3. ASSUME NEW x \in Entries, x # e
      PROVE  HasLinks(ent'[x], ent[x], IF x = most_recently_used THEN e ELSE ent[x].more_recent,
                      ent[x].less_recent, ent[x].in_use_count)
  <2>1. ent[x] \in CacheEntries
    BY DEF TypeInv
  <2>2. (IF x = most_recently_used THEN e ELSE ent[x].more_recent) \in Pointers
    BY <2>1 DEF CacheEntries, Pointers
  <2>3. ent'[x] = [ent[x] EXCEPT !.more_recent = IF x = most_recently_used THEN e ELSE ent[x].more_recent]
    BY <1>3
  <2> QED BY <2>1, <2>2, <2>3, WithMore
<1>4. ent' \in [Entries -> CacheEntries]
  <2>1. \A x \in Entries : ent'[x] \in CacheEntries
    BY <1>2, <1>3 DEF HasLinks
  <2>2. ent' = [x \in Entries |-> ent'[x]]
    OBVIOUS
  <2> QED BY <2>1, <2>2
<1> QED BY <1>2, <1>3, <1>4 DEF Inserted, HasLinks

\* The new entry is the youngest.
LEMMA InsertedLru ==
  ASSUME TypeInv, LruInv, NEW e \in Entries \ entries, NEW k, NEW h, NEW s, Inserted(e, k, h, s),
         most_recently_used' = e, entries' = entries \cup {e},
         least_recently_used' = IF least_recently_used = NULL THEN e ELSE least_recently_used, ~Pruning'
  PROVE  LruInv'
<1> DEFINE mru == most_recently_used
<1>0. entries \subseteq Entries /\ e # NULL
  BY CacheAssumption DEF TypeInv
<1>1. PICK rank \in [Entries -> Int] : LruOrder(rank)
  BY DEF LruInv
<1>2. PICK m \in Int : \A x \in entries : rank[x] < m
  <2>1. CASE entries = {}
    BY <2>1
  <2>2. CASE entries # {}
    <3>1. \A x \in entries : mru \in entries /\ rank[x] <= rank[mru]
      BY <1>1, Ends
    <3>2. rank[mru] \in Int
      BY <1>0, <2>2, <3>1
    <3>3. \A x \in entries : rank[x] < rank[mru] + 1
      BY <1>0, <3>1, <3>2, SMTT(30)
    <3> QED BY <3>2, <3>3, SMTT(30)
  <2> QED BY <2>1, <2>2
<1>3. PICK rank2 \in [Entries -> Int] : rank2 = [x \in Entries |-> IF x = e THEN m ELSE rank[x]]
  <2> DEFINE r2 == [x \in Entries |-> IF x = e THEN m ELSE rank[x]]
  <2>1. r2 \in [Entries -> Int]
    OBVIOUS
  <2> QED BY <2>1
<1>4. /\ \A x \in Entries : MoreOf[x] = ent[x].more_recent /\ LessOf[x] = ent[x].less_recent
      /\ \A x \in Entries : MoreOf'[x] = ent'[x].more_recent /\ LessOf'[x] = ent'[x].less_recent
  BY DEF MoreOf, LessOf
<1>5. /\ MoreOf'[e] = NULL /\ LessOf'[e] = mru
      /\ \A x \in entries : /\ MoreOf'[x] = IF x = mru THEN e ELSE MoreOf[x]
                            /\ LessOf'[x] = LessOf[x]
  BY <1>0, <1>4, SMTT(30) DEF Inserted
<1>6. /\ rank2[e] = m /\ Negated(rank2)[e] = -rank2[e]
      /\ \A x \in entries : rank2[x] = rank[x] /\ Negated(rank2)[x] = Negated(rank)[x]
  BY <1>0, <1>3 DEF Negated
<1>7. Pushed(entries, mru, LessOf, MoreOf, rank, Negated(rank), NULL, e, LessOf', MoreOf', rank2,
             Negated(rank2))
  <2>1. rank2[e] \in Int /\ e \notin entries /\ e # NULL
    BY <1>0
  <2> QED BY <1>2, <1>5, <1>6, <2>1 DEF Pushed
<1>8. DoublyLinked(entries \cup {e}, e, IF least_recently_used = NULL THEN e ELSE least_recently_used,
                   LessOf', MoreOf', rank2, Negated(rank2), NULL)
  BY <1>1, <1>7, LruLinked, DoublyLinkedPush
<1>9. LruOrder(rank2)'
  BY <1>8 DEF LruOrder, DoublyLinked, Negated
<1>10. PruneOrder(rank2)'
  BY DEF PruneOrder
<1> QED BY <1>9, <1>10 DEF LruInv

\* The new entry is the first of its chain.
LEMMA InsertedHash ==
  ASSUME TypeInv, HashInv, NEW e \in Entries \ entries, NEW k \in Keys, NEW i \in Buckets, i = Hash[k], NEW s,
         Inserted(e, k, cache_entries[i], s), entries' = entries \cup {e},
         cache_entries' = [cache_entries EXCEPT ![i] = e]
  PROVE  HashInv'
<1>0. /\ entries \subseteq Entries /\ e # NULL /\ e \notin entries /\ NULL \notin entries
      /\ cache_entries'[i] = e /\ \A j \in Buckets \ {i} : cache_entries'[j] = cache_entries[j]
  BY CacheAssumption DEF TypeInv
<1>1. PICK age \in [Entries -> Int] : HashOrder(age)
  BY DEF HashInv
<1>2. PICK m \in Int : \A x \in Bucket(i) : age[x] < m
  <2>1. CASE Bucket(i) = {}
    BY <2>1
  <2>2. CASE Bucket(i) # {}
    <3>1. cache_entries[i] \in Bucket(i) /\ \A x \in Bucket(i) : age[x] <= age[cache_entries[i]]
      BY <1>1, <2>2 DEF HashOrder, IsList
    <3>2. age[cache_entries[i]] \in Int /\ \A x \in Bucket(i) : age[x] \in Int
      BY <1>0, <3>1 DEF Bucket
    <3>3. \A x \in Bucket(i) : age[x] < age[cache_entries[i]] + 1
      BY <3>1, <3>2, SMTT(30)
    <3> QED BY <3>2, <3>3, SMTT(30)
  <2> QED BY <2>1, <2>2
<1>3. PICK age2 \in [Entries -> Int] : age2 = [x \in Entries |-> IF x = e THEN m ELSE age[x]]
  <2> DEFINE r2 == [x \in Entries |-> IF x = e THEN m ELSE age[x]]
  <2>1. r2 \in [Entries -> Int]
    OBVIOUS
  <2> QED BY <2>1
<1>4. /\ NextOf'[e] = cache_entries[i] /\ age2[e] = m
      /\ \A x \in entries : NextOf'[x] = NextOf[x] /\ age2[x] = age[x] /\ x # e /\ age[x] \in Int
      /\ \A x \in entries : ent'[x].key = ent[x].key
      /\ ent'[e].key = k
  <2>1. \A x \in Entries : NextOf[x] = ent[x].next /\ NextOf'[x] = ent'[x].next
    BY DEF NextOf
  <2> QED BY <1>0, <1>3, <2>1, SMTT(30) DEF Inserted
<1>5. Bucket(i)' = Bucket(i) \cup {e}
  BY <1>4 DEF Bucket
<1>6. \A j \in Buckets \ {i} : Bucket(j)' = Bucket(j)
  BY <1>4 DEF Bucket
<1>7. \A j : Bucket(j) \subseteq entries
  BY DEF Bucket
<1>8. \A j \in Buckets : IsList(Bucket(j), cache_entries[j], NextOf, age, NULL)
  BY <1>1 DEF HashOrder
<1>9. IsList(Bucket(i)', cache_entries'[i], NextOf', age2, NULL)
  <2> DEFINE B == Bucket(i)
  <2>1. /\ e \notin B /\ NULL \notin B /\ age2[e] \in Int /\ NextOf'[e] = cache_entries[i]
        /\ \A x \in B : age[x] \in Int
        /\ \A x \in B : age2[x] = age[x] /\ age[x] < age2[e] /\ NextOf'[x] = NextOf[x]
    BY <1>0, <1>2, <1>4, <1>7
  <2>2. IsList(B, cache_entries[i], NextOf, age, NULL)
    BY <1>8
  <2> HIDE DEF B
  <2>3. IsList(B \cup {e}, e, NextOf', age2, NULL)
    BY <1>0, <2>1, <2>2, ListPush, SMTT(30)
  <2> QED BY <1>0, <1>5, <2>3 DEF B
<1>10. ASSUME NEW j \in Buckets, j # i PROVE IsList(Bucket(j)', cache_entries'[j], NextOf', age2, NULL)
  <2> DEFINE B == Bucket(j)
  <2>1. \A x \in B : NextOf'[x] = NextOf[x] /\ age2[x] = age[x]
    BY <1>4, <1>7
  <2>2. IsList(B, cache_entries[j], NextOf, age, NULL) /\ Bucket(j)' = B /\ cache_entries'[j] = cache_entries[j]
    BY <1>0, <1>6, <1>8, <1>10
  <2> HIDE DEF B
  <2> QED BY <2>1, <2>2, ListFrame
<1>11. HashOrder(age2)'
  BY <1>9, <1>10 DEF HashOrder
<1> QED BY <1>11 DEF HashInv

\* A store that inserts its entry keeps the invariant.
LEMMA StoreInsertInv == ASSUME Inv, NEW c \in Clients, StoreInsert(c), UNCHANGED workload PROVE Inv'
<1> DEFINE k == key[c]
           mine == Range(held[c])
<1>0. PICK e \in Entries \ entries :
        /\ pc[c] = "storing" /\ entries' = entries \cup {e} /\ most_recently_used' = e
        /\ ent' = [x \in Entries |->
                    IF x = e THEN NewEntry(k, cache_entries[Hash[k]], most_recently_used, held[c])
                    ELSE [ent[x] EXCEPT !.more_recent = IF x = most_recently_used THEN e ELSE @]]
        /\ least_recently_used' = (IF least_recently_used = NULL THEN e ELSE least_recently_used)
        /\ cache_entries' = [cache_entries EXCEPT ![Hash[k]] = e]
        /\ header' = [b \in Blocks |-> IF b \in mine THEN e ELSE header[b]]
        /\ lock' = NULL /\ prune_candidate' = NULL /\ pc' = [pc EXCEPT ![c] = "using"]
        /\ UNCHANGED <<sizeVars, blocks, contents, key, held, found>>
  BY DEF StoreInsert, Return, NewEntry
<1>1. /\ HeldInv(c) /\ BuffersInv(c) /\ held[c] \in Seq(Blocks) /\ k \in Keys /\ Hash[k] \in Buckets
      /\ TupleCount[k] \in Nat \ {0} /\ cache_entries[Hash[k]] \in Pointers /\ TypeInv
      /\ entries \subseteq Entries /\ e # NULL /\ NULL \notin entries
  BY <1>0, CacheAssumption DEF Inv, ClientInv, TypeInv, HeldInv
<1>2. /\ Len(held[c]) = TupleCount[k] /\ DOMAIN held[c] = 1..TupleCount[k] /\ 1 \in DOMAIN held[c]
      /\ held[c] # <<>> /\ Distinct(held[c])
      /\ \A i \in DOMAIN held[c] : /\ held[c][i] \in blocks /\ held[c][i] \in Blocks
                                   /\ header[held[c][i]] = NULL /\ contents[held[c][i]] = k
      /\ found[c] = NULL
  <2>1. Len(held[c]) = TupleCount[k] /\ Distinct(held[c])
    BY <1>0, <1>1 DEF HeldInv, Private
  <2>2. \A i \in DOMAIN held[c] : /\ held[c][i] \in blocks /\ held[c][i] \in Blocks
                                  /\ header[held[c][i]] = NULL /\ contents[held[c][i]] = k
    BY <1>0, <1>1, SMTT(30) DEF HeldInv, BuffersInv, Private
  <2>3. found[c] = NULL
    BY <1>0, <1>1 DEF BuffersInv
  <2> QED BY <1>1, <2>1, <2>2, <2>3, SMTT(30)
<1>3. Inserted(e, k, cache_entries[Hash[k]], held[c])
  <2>1. TupleCount[k] \in Int
    BY <1>1, SMTT(30)
  <2>2. ent' = [x \in Entries |->
                 IF x = e THEN NewEntry(k, cache_entries[Hash[k]], most_recently_used, held[c])
                 ELSE [ent[x] EXCEPT !.more_recent = IF x = most_recently_used THEN e ELSE @]]
    BY <1>0
  <2> HIDE DEF k, mine
  <2> QED BY <1>1, <2>1, <2>2, InsertLinks
<1>4. /\ ent' \in [Entries -> CacheEntries]
      /\ ent'[e].key = k /\ ent'[e].in_use_count = TupleCount[k] /\ ent'[e].buf = held[c]
      /\ \A x \in Entries : x # e => /\ ent'[x].key = ent[x].key
                                     /\ ent'[x].in_use_count = ent[x].in_use_count /\ ent'[x].buf = ent[x].buf
  BY <1>3 DEF Inserted
<1>5. /\ pc'[c] = "using" /\ pc' \in [Clients -> Labels] /\ \A d \in Clients \ {c} : pc'[d] = pc[d]
  BY <1>0 DEF Inv, TypeInv, Labels
<1>6. UNCHANGED <<blocks, contents, key, held, found, max_cache_size, current_cache_size>>
  BY <1>0 DEF sizeVars
<1>7. NULL \notin Clients /\ NULL # Application /\ ~Pruning'
  BY <1>0, CacheAssumption DEF Pruning
<1>8. /\ \A b \in Blocks : header'[b] = IF b \in mine THEN e ELSE header[b]
      /\ header' \in [Blocks -> Pointers]
      /\ \A b : b \in mine <=> \E i \in DOMAIN held[c] : held[c][i] = b
  <2>1. e \in Pointers /\ header \in [Blocks -> Pointers]
    BY DEF Pointers, Inv, TypeInv
  <2> QED BY <1>0, <2>1 DEF Range
<1> HIDE DEF mine
<1>9. \A b \in mine : b \in blocks /\ b \in Blocks /\ header[b] = NULL /\ contents[b] = k
  BY <1>2, <1>8, SMTT(30)
<1>10. LruInv'
  <2>1. LruInv
    BY DEF Inv
  <2> QED BY <1>0, <1>1, <1>3, <1>7, <2>1, InsertedLru
<1>11. HashInv'
  <2>1. HashInv
    BY DEF Inv
  <2> QED BY <1>0, <1>1, <1>3, <2>1, InsertedHash
<1>12. TypeInv'
  <2>1. /\ cache_entries' \in [Buckets -> Pointers] /\ entries' \subseteq Entries
        /\ most_recently_used' \in Pointers /\ least_recently_used' \in Pointers
        /\ lock' \in Clients \cup {Application, NULL} /\ prune_candidate' \in Pointers
    BY <1>0, <1>1 DEF TypeInv, Pointers
  <2> QED BY <1>1, <1>4, <1>5, <1>6, <1>8, <2>1 DEF TypeInv
<1>13. \A d \in Clients : pc'[d] \notin {"allocating", "storing"}
  BY <1>0, <1>5, SMTT(30) DEF Inv, LockInv
<1>14. LockInv'
  BY <1>0, <1>7, <1>13 DEF LockInv
<1>15. ASSUME NEW d \in Clients, d # c, NEW i \in DOMAIN held[d]
       PROVE  held[d][i] \notin mine /\ held[d][i] \in blocks /\ held[d][i] \in Blocks
  <2>1. held[d][i] \in blocks
    BY DEF Inv, ClientInv, HeldInv
  <2>2. ~(\E j \in DOMAIN held[c] : held[c][j] = held[d][i])
    BY <1>2, <1>15 DEF Inv, PrivateInv
  <2> QED BY <1>8, <2>1, <2>2 DEF Inv, TypeInv
<1>16. \A b \in blocks : header[b] \in entries \cup {NULL} /\ header[b] # e
  BY <1>0, <1>1 DEF Inv, BlockInv, OwnedInv
<1>17. \A i \in DOMAIN held[c] : header'[held[c][i]] = e
  BY <1>2, <1>8
<1>18. ClientInv'
  <2>1. ASSUME NEW d \in Clients, d # c PROVE HeldInv(d)' /\ BuffersInv(d)'
    <3>1. held[d] \in Seq(Blocks) /\ HeldInv(d) /\ BuffersInv(d)
      BY DEF Inv, TypeInv, ClientInv
    <3>2. ASSUME NEW i \in DOMAIN held[d]
          PROVE  /\ held[d][i] \in blocks' /\ header'[held[d][i]] = header[held[d][i]]
                 /\ contents'[held[d][i]] = contents[held[d][i]]
                 /\ header[held[d][i]] # NULL => ent'[header[held[d][i]]].key = ent[header[held[d][i]]].key
      <4>1. held[d][i] \notin mine /\ held[d][i] \in blocks /\ held[d][i] \in Blocks
        BY <1>15, <2>1
      <4>2. header[held[d][i]] # NULL => header[held[d][i]] \in Entries /\ header[held[d][i]] # e
        BY <1>1, <1>16, <4>1
      <4> QED BY <1>4, <1>6, <1>8, <4>1, <4>2
    <3>3. pc'[d] = pc[d] /\ key'[d] = key[d] /\ held'[d] = held[d] /\ found'[d] = found[d]
      BY <1>5, <1>6, <2>1
    <3> QED BY <3>1, <3>2, <3>3, ClientFrame
  <2>2. HeldInv(c)'
    BY <1>1, <1>2, <1>5, <1>6 DEF HeldInv, Private, Using, Distinct
  <2>3. BuffersInv(c)'
    BY <1>2, <1>4, <1>5, <1>6, <1>17 DEF BuffersInv, Private, Using
  <2> QED BY <2>1, <2>2, <2>3 DEF ClientInv
<1>19. PrivateInv'
  <2> SUFFICES ASSUME NEW d1 \in Clients, NEW d2 \in Clients, NEW i \in DOMAIN held[d1], NEW j \in DOMAIN held[d2],
                      held[d1][i] = held[d2][j], header'[held[d1][i]] = NULL
               PROVE  d1 = d2
    BY <1>6 DEF PrivateInv
  <2>1. held[d1][i] \in Blocks
    BY SMTT(30) DEF Inv, TypeInv
  <2>2. header[held[d1][i]] = NULL
    BY <1>1, <1>8, <2>1
  <2> QED BY <2>2 DEF Inv, PrivateInv
<1>20. EntryInv'
  <2>1. StoredInv(e)'
    BY <1>1, <1>2, <1>4, <1>6, <1>17 DEF StoredInv, Distinct
  <2>2. ASSUME NEW x \in entries PROVE StoredInv(x)'
    <3>1. StoredInv(x) /\ x \in Entries /\ x # e /\ x # NULL /\ ent[x].buf \in Seq(Blocks)
      BY <1>0, <1>1 DEF Inv, EntryInv, TypeInv, CacheEntries
    <3>2. \A i \in DOMAIN ent[x].buf : header'[ent[x].buf[i]] = header[ent[x].buf[i]]
      <4>1. \A i \in DOMAIN ent[x].buf : ent[x].buf[i] \in Blocks /\ header[ent[x].buf[i]] = x
        BY <3>1, SMTT(30) DEF StoredInv
      <4> QED BY <1>8, <1>9, <3>1, <4>1, SMTT(30)
    <3>3. ent'[x].key = ent[x].key /\ ent'[x].buf = ent[x].buf
      BY <1>4, <3>1
    <3> QED BY <1>6, <3>1, <3>2, <3>3 DEF StoredInv
  <2>3. \A x \in Entries \ entries' : ent'[x].in_use_count = 0
    BY <1>0, <1>4, SMTT(30) DEF Inv, EntryInv
  <2> QED BY <1>0, <2>1, <2>2, <2>3 DEF EntryInv
<1>21. BlockInv'
  <2>1. ASSUME NEW b \in blocks PROVE OwnedInv(b)'
    <3>0. OwnedInv(b) /\ b \in Blocks /\ e \in entries' /\ entries \subseteq entries'
      BY <1>0 DEF Inv, BlockInv, TypeInv
    <3>1. CASE b \in mine
      <4>1. header'[b] = e /\ \E i \in DOMAIN ent'[e].buf : ent'[e].buf[i] = b
        BY <1>4, <1>8, <3>0, <3>1, SMTT(30)
      <4> QED BY <3>0, <4>1 DEF OwnedInv
    <3>2. CASE b \notin mine
      <4>1. header'[b] = header[b]
        BY <1>8, <3>0, <3>2
      <4>2. CASE header[b] \in entries
        <5>1. header[b] \in entries' /\ ent'[header[b]].buf = ent[header[b]].buf /\ header[b] # NULL
          BY <1>0, <1>1, <1>4, <4>2
        <5> QED BY <3>0, <4>1, <5>1 DEF OwnedInv
      <4>3. CASE header[b] = NULL /\ \E d \in Clients : \E i \in DOMAIN held[d] : held[d][i] = b
        BY <1>6, <4>1, <4>3 DEF OwnedInv
      <4> QED BY <3>0, <4>2, <4>3 DEF OwnedInv
    <3> QED BY <3>1, <3>2
  <2>2. \A b \in Blocks \ blocks : header'[b] = NULL /\ contents'[b] = NULL
    BY <1>6, <1>8, <1>9 DEF Inv, BlockInv
  <2> QED BY <1>6, <2>1, <2>2 DEF BlockInv
<1>22. KeyInv'
  <2>1. \A x \in entries : ent[x].key # k /\ ent'[x].key = ent[x].key /\ x # e
    BY <1>0, <1>1, <1>4 DEF Inv, KeyInv
  <2>2. \A x, y \in entries' : ent'[x].key = ent'[y].key => x = y
    <3>1. \A x, y \in entries : ent[x].key = ent[y].key => x = y
      BY DEF Inv, KeyInv
    <3>2. \A x \in entries' : x \in entries \/ x = e
      BY <1>0
    <3>3. ent'[e].key = k
      BY <1>4
    <3> HIDE DEF k
    <3>4. ASSUME NEW x \in entries', NEW y \in entries', ent'[x].key = ent'[y].key PROVE x = y
      <4>1. CASE x \in entries /\ y \in entries
        BY <2>1, <3>1, <3>4, <4>1
      <4>2. CASE x \in entries /\ y = e
        BY <2>1, <3>3, <3>4, <4>2
      <4>3. CASE x = e /\ y \in entries
        BY <2>1, <3>3, <3>4, <4>3
      <4> QED BY <3>2, <4>1, <4>2, <4>3
    <3> QED BY <3>4
  <2>3. \A d \in Clients : pc'[d] # "storing"
    BY <1>13
  <2> QED BY <2>2, <2>3 DEF KeyInv
<1>23. UsersInv'
  <2>1. ASSUME NEW x \in entries PROVE Holders(x)' = Holders(x) /\ ent'[x].in_use_count = ent[x].in_use_count
    <3>0. x # e /\ x # NULL
      BY <1>0, <1>1
    <3>1. ASSUME NEW d \in Clients, NEW i
          PROVE  i \in DOMAIN held'[d] /\ HoldsOne(d, i, x)' <=> i \in DOMAIN held[d] /\ HoldsOne(d, i, x)
      <4>1. CASE d = c
        BY <1>2, <1>6, <1>17, <3>0, <4>1 DEF HoldsOne
      <4>2. CASE d # c
        BY <1>5, <1>6, <1>8, <1>15, <4>2 DEF HoldsOne
      <4> QED BY <4>1, <4>2
    <3>2. Holders(x)' = Holders(x)
      BY <3>1, HoldersKept
    <3> QED BY <1>1, <1>4, <3>0, <3>2
  <2> DEFINE P == {c} \X (1..TupleCount[k])
  <2>2. IsFiniteSet(P) /\ Cardinality(P) = TupleCount[k]
    BY <1>1, PairsCounted
  <2>3. Holders(e)' = P
    <3>1. \A d, i : <<d, i>> \in P <=> d = c /\ i \in DOMAIN held[c]
      BY <1>2
    <3>2. \A x \in P : \E d \in Clients : \E i \in DOMAIN held'[d] : x = <<d, i>>
      <4>1. \A x \in P : \E i \in 1..TupleCount[k] : x = <<c, i>>
        BY SMTT(30)
      <4> QED BY <1>2, <1>6, <4>1
    <3> HIDE DEF P
    <3>3. Holders(e) = {}
      <4>1. \A x \in Holders(e) : FALSE
        <5> SUFFICES ASSUME NEW x \in Holders(e) PROVE FALSE
          OBVIOUS
        <5>1. PICK d \in Clients : \E i \in DOMAIN held[d] : x = <<d, i>> /\ HoldsOne(d, i, e)
          BY HoldersOf
        <5>2. PICK i \in DOMAIN held[d] : header[held[d][i]] = e
          BY <5>1 DEF HoldsOne
        <5>3. held[d][i] \in blocks
          BY DEF Inv, ClientInv, HeldInv
        <5> QED BY <1>16, <5>2, <5>3
      <4> QED BY <4>1
    <3>4. ASSUME NEW d \in Clients, NEW i
          PROVE  i \in DOMAIN held'[d] /\ HoldsOne(d, i, e)'
                   <=> \/ i \in DOMAIN held[d] /\ HoldsOne(d, i, e)
                       \/ <<d, i>> \in P
      <4>1. CASE d = c
        BY <1>2, <1>1, <1>5, <1>6, <1>17, <3>1, <4>1 DEF HoldsOne, Using
      <4>2. CASE d # c
        BY <1>5, <1>6, <1>8, <1>15, <3>1, <4>2, SMTT(30) DEF HoldsOne
      <4> QED BY <4>1, <4>2
    <3>5. Holders(e)' = Holders(e) \cup P
      BY <3>2, <3>4, HoldersGain
    <3> QED BY <3>3, <3>5
  <2>4. IsFiniteSet(Holders(e)') /\ ent'[e].in_use_count = Cardinality(Holders(e)')
    BY <1>4, <2>2, <2>3
  <2> HIDE DEF P
  <2>5. \A x \in entries' : x = e \/ x \in entries
    BY <1>0
  <2> QED BY <2>1, <2>4, <2>5 DEF Inv, UsersInv
<1> QED BY <1>10, <1>11, <1>12, <1>14, <1>18, <1>19, <1>20, <1>21, <1>22, <1>23 DEF Inv

-----------------------------------------------------------------------------
(* prune_cache, from the old end of the recency list *)

\* What the removal of e assigns to the entries.
Pruned(e) ==
  /\ ent' \in [Entries -> CacheEntries] /\ ent'[e].in_use_count = 0
  /\ \A x \in Entries \ {e} :
       /\ ent'[x].key = ent[x].key /\ ent'[x].buf = ent[x].buf /\ ent'[x].in_use_count = ent[x].in_use_count
       /\ ent'[x].more_recent = ent[x].more_recent
       /\ ent'[x].less_recent = IF x = ent[e].more_recent THEN ent[e].less_recent ELSE ent[x].less_recent
       /\ ent'[x].next = IF ent[x].next = e /\ x \in Bucket(Hash[ent[e].key]) THEN ent[e].next ELSE ent[x].next

\* An entry with another successor in its chain and another older neighbour.
HasNext(q, r, n, l) ==
  /\ q \in CacheEntries /\ q.in_use_count = r.in_use_count /\ q.key = r.key /\ q.next = n
  /\ q.buf = r.buf /\ q.more_recent = r.more_recent /\ q.less_recent = l

\* Such an entry is made by setting the two fields.
LEMMA WithNext ==
  ASSUME NEW r \in CacheEntries, NEW n \in Pointers, NEW l \in Pointers, NEW q,
         q = [r EXCEPT !.next = n, !.less_recent = l]
  PROVE  HasNext(q, r, n, l)
BY DEF CacheEntries, HasNext

\* The assignments of prune_cache, with B the bucket of e.
Unlinks(e, B) ==
  ent' = [x \in Entries |->
           IF x = e THEN Blank
           ELSE [ent[x] EXCEPT
                  !.next = IF @ = e /\ x \in B THEN ent[e].next ELSE @,
                  !.less_recent = IF x = ent[e].more_recent THEN ent[e].less_recent ELSE @]]

\* They amount to the removal of e.
LEMMA PrunedLinks ==
  ASSUME TypeInv, NEW e \in entries, NEW B, B = Bucket(Hash[ent[e].key]), Unlinks(e, B)
  PROVE  Pruned(e)
<1> DEFINE N(x) == IF ent[x].next = e /\ x \in B THEN ent[e].next ELSE ent[x].next
           L(x) == IF x = ent[e].more_recent THEN ent[e].less_recent ELSE ent[x].less_recent
<1>0. e \in Entries
  BY DEF TypeInv
<1>1. ent'[e] = Blank
  BY <1>0 DEF Unlinks
<1>2. ent'[e] \in CacheEntries /\ ent'[e].in_use_count = 0
  <2>1. NULL \in Pointers /\ <<>> \in Seq(Blocks)
    BY SMTT(30) DEF Pointers
  <2> QED BY <1>1, <2>1, SMTT(30) DEF Blank, CacheEntries
<1>3. ASSUME NEW x \in Entries, x # e PROVE HasNext(ent'[x], ent[x], N(x), L(x))
  <2>1. ent[x] \in CacheEntries /\ ent[e] \in CacheEntries
    BY <1>0 DEF TypeInv
  <2>2. N(x) \in Pointers /\ L(x) \in Pointers
    BY <2>1 DEF CacheEntries
  <2>3. ent'[x] = [ent[x] EXCEPT !.next = N(x), !.less_recent = L(x)]
    BY <1>3 DEF Unlinks
  <2> HIDE DEF N, L
  <2> QED BY <2>1, <2>2, <2>3, WithNext
<1>4. ent' \in [Entries -> CacheEntries]
  <2>1. \A x \in Entries : ent'[x] \in CacheEntries
    BY <1>2, <1>3 DEF HasNext
  <2>2. ent' = [x \in Entries |-> ent'[x]]
    BY DEF Unlinks
  <2> QED BY <2>1, <2>2
<1>5. ASSUME NEW x \in Entries, x # e
      PROVE  /\ ent'[x].key = ent[x].key /\ ent'[x].buf = ent[x].buf /\ ent'[x].in_use_count = ent[x].in_use_count
             /\ ent'[x].more_recent = ent[x].more_recent
             /\ ent'[x].less_recent = L(x) /\ ent'[x].next = N(x)
  BY <1>3, <1>5 DEF HasNext
<1> QED BY <1>2, <1>4, <1>5 DEF Pruned

\* The oldest entry leaves the recency list, and the loop goes on with the next one.
LEMMA PrunedLru ==
  ASSUME TypeInv, NEW rank \in [Entries -> Int], LruOrder(rank), PruneOrder(rank),
         NEW e \in entries, e = least_recently_used, Pruned(e), entries' = entries \ {e},
         Pruning, e = prune_candidate,
         least_recently_used' = IF least_recently_used = e THEN ent[e].more_recent ELSE least_recently_used,
         most_recently_used' = IF most_recently_used = e THEN ent[e].less_recent ELSE most_recently_used,
         prune_candidate' = ent[e].more_recent
  PROVE  LruInv' /\ prune_candidate' \in entries' \cup {NULL}
<1>0. entries \subseteq Entries /\ e \in Entries /\ NULL \notin entries
  BY CacheAssumption DEF TypeInv
<1>1. /\ \A x \in Entries : MoreOf[x] = ent[x].more_recent /\ LessOf[x] = ent[x].less_recent
      /\ \A x \in Entries : MoreOf'[x] = ent'[x].more_recent /\ LessOf'[x] = ent'[x].less_recent
  BY DEF MoreOf, LessOf
<1>2. LessOf[e] = NULL /\ MoreOf[e] \in entries \cup {NULL} /\ MoreOf[e] # e
  BY Ends
<1>3. Removed(entries, LessOf, MoreOf, e, LessOf', MoreOf')
  <2>1. \A x \in entries \ {e} : /\ LessOf'[x] = IF x = MoreOf[e] THEN LessOf[e] ELSE LessOf[x]
                                 /\ MoreOf'[x] = IF x = LessOf[e] THEN MoreOf[e] ELSE MoreOf[x]
    BY <1>0, <1>1, <1>2, SMTT(30) DEF Pruned
  <2> QED BY <2>1 DEF Removed
<1>4. DoublyLinked(entries \ {e}, IF most_recently_used = e THEN LessOf[e] ELSE most_recently_used,
                   IF least_recently_used = e THEN MoreOf[e] ELSE least_recently_used,
                   LessOf', MoreOf', rank, Negated(rank), NULL)
  BY <1>3, LruLinked, DoublyLinkedRemove
<1>5. /\ most_recently_used' = IF most_recently_used = e THEN LessOf[e] ELSE most_recently_used
      /\ least_recently_used' = IF least_recently_used = e THEN MoreOf[e] ELSE least_recently_used
      /\ prune_candidate' = MoreOf[e]
  BY <1>0, <1>1
<1>6. LruOrder(rank)'
  BY <1>4, <1>5 DEF LruOrder, DoublyLinked, Negated
<1>7. PruneOrder(rank)'
  <2> SUFFICES ASSUME NEW x \in entries', Prunable(x)'
               PROVE  prune_candidate' # NULL /\ rank[prune_candidate'] <= rank[x]
    BY DEF PruneOrder
  <2>1. x \in entries /\ x # e /\ Prunable(x)
    BY <1>0 DEF Prunable, Pruned
  <2>2. rank[e] <= rank[x]
    BY <2>1 DEF PruneOrder
  <2>3. ent[e].more_recent \in entries /\ rank[ent[e].more_recent] <= rank[x]
    BY <2>1, <2>2, Younger
  <2> QED BY <1>0, <2>3
<1>8. prune_candidate' \in entries' \cup {NULL}
  BY <1>2, <1>5
<1> QED BY <1>6, <1>7, <1>8 DEF LruInv

\* The entry leaves its chain.
LEMMA PrunedHash ==
  ASSUME TypeInv, HashInv, NEW e \in entries, NEW i \in Buckets, i = Hash[ent[e].key], Pruned(e),
         entries' = entries \ {e},
         cache_entries'[i] = IF cache_entries[i] = e THEN ent[e].next ELSE cache_entries[i],
         \A j \in Buckets \ {i} : cache_entries'[j] = cache_entries[j]
  PROVE  HashInv'
<1>0. entries \subseteq Entries /\ e \in Entries /\ NULL \notin entries
  BY CacheAssumption DEF TypeInv
<1>1. PICK age \in [Entries -> Int] : HashOrder(age)
  BY DEF HashInv
<1>2. /\ \A x \in Entries : NextOf[x] = ent[x].next
      /\ \A x \in Entries \ {e} : NextOf'[x] = IF NextOf[x] = e /\ x \in Bucket(i) THEN NextOf[e] ELSE NextOf[x]
      /\ \A x \in Entries \ {e} : ent'[x].key = ent[x].key
  <2>1. \A x \in Entries : NextOf[x] = ent[x].next /\ NextOf'[x] = ent'[x].next
    BY DEF NextOf
  <2> QED BY <1>0, <2>1, SMTT(30) DEF Pruned
<1>3. /\ \A j : Bucket(j) \subseteq entries
      /\ \A j : \A x \in Bucket(j) : age[x] \in Int
      /\ e \in Bucket(i) /\ \A j \in Buckets \ {i} : e \notin Bucket(j)
      /\ \A j \in Buckets \ {i} : \A x \in Bucket(j) : x \notin Bucket(i)
  BY <1>0 DEF Bucket
<1>4. Bucket(i)' = Bucket(i) \ {e}
  BY <1>0, <1>2, SMTT(30) DEF Bucket
<1>5. \A j \in Buckets \ {i} : Bucket(j)' = Bucket(j)
  BY <1>0, <1>2, SMTT(30) DEF Bucket
<1>6. \A j \in Buckets : IsList(Bucket(j), cache_entries[j], NextOf, age, NULL)
  BY <1>1 DEF HashOrder
<1>7. IsList(Bucket(i)', cache_entries'[i], NextOf', age, NULL)
  <2> DEFINE B == Bucket(i)
  <2>1. /\ e \in B /\ NULL \notin B /\ \A x \in B : age[x] \in Int
        /\ \A x \in B \ {e} : NextOf'[x] = IF NextOf[x] = e THEN NextOf[e] ELSE NextOf[x]
    BY <1>0, <1>2, <1>3
  <2>2. IsList(B, cache_entries[i], NextOf, age, NULL)
    BY <1>6
  <2> HIDE DEF B
  <2>3. IsList(B \ {e}, IF cache_entries[i] = e THEN NextOf[e] ELSE cache_entries[i], NextOf', age, NULL)
    BY <2>1, <2>2, ListRemove
  <2>4. cache_entries'[i] = IF cache_entries[i] = e THEN NextOf[e] ELSE cache_entries[i]
    BY <1>0, <1>2
  <2> QED BY <1>4, <2>3, <2>4 DEF B
<1>8. ASSUME NEW j \in Buckets, j # i PROVE IsList(Bucket(j)', cache_entries'[j], NextOf', age, NULL)
  <2> DEFINE B == Bucket(j)
  <2>1. \A x \in B : NextOf'[x] = NextOf[x]
    BY <1>0, <1>2, <1>3, <1>8, SMTT(30)
  <2>2. IsList(B, cache_entries[j], NextOf, age, NULL) /\ Bucket(j)' = B /\ cache_entries'[j] = cache_entries[j]
    BY <1>5, <1>6, <1>8
  <2> HIDE DEF B
  <2> QED BY <2>1, <2>2, ListFrame
<1>9. HashOrder(age)'
  BY <1>7, <1>8 DEF HashOrder
<1> QED BY <1>9 DEF HashInv

\* Nobody holds a buffer of an entry whose use count is zero.
LEMMA NotHeld ==
  ASSUME Inv, NEW e \in entries, Prunable(e), NEW d \in Clients, NEW j \in DOMAIN held[d]
  PROVE  header[held[d][j]] # e /\ held[d][j] \in blocks /\ held[d][j] \in Blocks
<1>1. held[d][j] \in blocks /\ held[d][j] \in Blocks /\ e # NULL
  BY CacheAssumption DEF Inv, ClientInv, HeldInv, TypeInv
<1>2. Holders(e) = {}
  <2>1. IsFiniteSet(Holders(e)) /\ Cardinality(Holders(e)) = 0
    BY DEF Inv, UsersInv, Prunable
  <2> QED BY <2>1, FS_EmptySet
<1>3. ASSUME header[held[d][j]] = e PROVE FALSE
  <2>1. pc[d] \in Using
    <3>1. HeldInv(d) /\ BuffersInv(d) /\ pc[d] \in Labels /\ held[d] # <<>>
      BY SMTT(30) DEF Inv, ClientInv, TypeInv
    <3> QED BY <1>1, <1>3, <3>1 DEF HeldInv, BuffersInv, Private, Using, Labels
  <2>2. HoldsOne(d, j, e)
    BY <1>3, <2>1 DEF HoldsOne
  <2>3. <<d, j>> \in Holders(e)
    BY <2>2, HoldersAre
  <2> QED BY <1>2, <2>3
<1> QED BY <1>1, <1>3

\* The pruning of the oldest entry keeps the invariant.
LEMMA PruneEntryInv ==
  ASSUME Inv, PruneEntry, prune_candidate = least_recently_used, UNCHANGED workload
  PROVE  Inv'
<1> DEFINE freed(e) == Range(ent[e].buf)
<1>0. PICK e : e = prune_candidate
  OBVIOUS
<1>1. /\ lock # NULL /\ e # NULL /\ Prunable(e)
      /\ cache_entries' = IF cache_entries[Hash[ent[e].key]] = e
                          THEN [cache_entries EXCEPT ![Hash[ent[e].key]] = ent[e].next]
                          ELSE cache_entries
      /\ Unlinks(e, Chain(cache_entries[Hash[ent[e].key]], "next"))
      /\ least_recently_used' = (IF least_recently_used = e THEN ent[e].more_recent ELSE least_recently_used)
      /\ most_recently_used' = (IF most_recently_used = e THEN ent[e].less_recent ELSE most_recently_used)
      /\ current_cache_size' = current_cache_size - Bytes[ent[e].key]
      /\ Wipe(freed(e)) /\ entries' = entries \ {e} /\ prune_candidate' = ent[e].more_recent
      /\ UNCHANGED <<lock, max_cache_size, clientVars>>
  BY <1>0 DEF PruneEntry, MustPrune, Unlinks
<1>2. /\ e \in entries /\ e \in Entries /\ Pruning /\ TypeInv /\ StoredInv(e) /\ entries \subseteq Entries
      /\ NULL \notin entries
  BY <1>0, <1>1, CacheAssumption DEF Inv, LockInv, TypeInv, EntryInv
<1>3. PICK i \in Buckets : i = Hash[ent[e].key]
  BY <1>2, CacheAssumption DEF StoredInv
<1>4. Pruned(e)
  <2>1. Chain(cache_entries[i], "next") = Bucket(i)
    BY <1>2, TableHoldsEntries DEF Inv
  <2> QED BY <1>1, <1>2, <1>3, <2>1, PrunedLinks
<1>5. UNCHANGED <<lock, max_cache_size, pc, key, held, found>>
  BY <1>1 DEF clientVars
<1>6. /\ ent' \in [Entries -> CacheEntries] /\ ent'[e].in_use_count = 0
      /\ \A x \in Entries : x # e => /\ ent'[x].key = ent[x].key /\ ent'[x].buf = ent[x].buf
                                     /\ ent'[x].in_use_count = ent[x].in_use_count
  BY <1>4 DEF Pruned
<1>7. /\ cache_entries'[i] = IF cache_entries[i] = e THEN ent[e].next ELSE cache_entries[i]
      /\ \A j \in Buckets \ {i} : cache_entries'[j] = cache_entries[j]
      /\ cache_entries' \in [Buckets -> Pointers]
  <2>1. ent[e].next \in Pointers /\ ent[e].more_recent \in Pointers /\ cache_entries \in [Buckets -> Pointers]
    BY <1>2 DEF TypeInv, CacheEntries
  <2>2. cache_entries' = IF cache_entries[i] = e THEN [cache_entries EXCEPT ![i] = ent[e].next] ELSE cache_entries
    BY <1>1, <1>3
  <2> QED BY <1>3, <2>1, <2>2
<1>8. HashInv'
  <2>1. HashInv /\ entries' = entries \ {e}
    BY <1>1 DEF Inv
  <2> QED BY <1>2, <1>3, <1>4, <1>7, <2>1, PrunedHash
<1>9. PICK rank \in [Entries -> Int] : LruOrder(rank) /\ PruneOrder(rank)
  BY DEF Inv, LruInv
<1>10. LruInv' /\ prune_candidate' \in entries' \cup {NULL}
  <2>1. e = least_recently_used /\ e = prune_candidate
    BY <1>0
  <2> QED BY <1>1, <1>2, <1>4, <1>9, <2>1, PrunedLru
<1>11. PICK old \in SUBSET Blocks : old = freed(e)
  <2>1. freed(e) \subseteq Blocks
    BY <1>2, SMTT(30) DEF StoredInv, TypeInv, Range
  <2> QED BY <2>1
<1>12. /\ \A b \in Blocks : b \in old <=> \E n \in DOMAIN ent[e].buf : ent[e].buf[n] = b
       /\ \A b \in old : header[b] = e
  BY <1>2, <1>11 DEF StoredInv, Range
<1>13. /\ blocks' = blocks \ old
       /\ header' = [b \in Blocks |-> IF b \in old THEN NULL ELSE header[b]]
       /\ contents' = [b \in Blocks |-> IF b \in old THEN NULL ELSE contents[b]]
  BY <1>1, <1>11 DEF Wipe
<1>14. /\ \A b \in Blocks : b \notin old => header'[b] = header[b] /\ contents'[b] = contents[b]
       /\ \A b \in old : header'[b] = NULL /\ contents'[b] = NULL
  BY <1>13
<1>15. TypeInv'
  <2>1. /\ entries' \subseteq Entries /\ blocks' \subseteq Blocks
        /\ header' \in [Blocks -> Pointers] /\ contents' \in [Blocks -> Keys \cup {NULL}]
    BY <1>1, <1>2, <1>13 DEF TypeInv, Pointers
  <2>2. /\ ent[e].more_recent \in Pointers /\ ent[e].less_recent \in Pointers
        /\ most_recently_used \in Pointers /\ least_recently_used \in Pointers
    BY <1>2 DEF TypeInv, CacheEntries
  <2>3. most_recently_used' \in Pointers /\ least_recently_used' \in Pointers /\ prune_candidate' \in Pointers
    BY <1>1, <2>2
  <2>4. current_cache_size' \in Int
    <3>1. Bytes[ent[e].key] \in Int /\ current_cache_size \in Int
      BY <1>2, CacheAssumption, SMTT(30) DEF StoredInv, TypeInv
    <3> QED BY <1>1, <3>1, SMTT(30)
  <2>5. workload' = workload
    OBVIOUS
  <2> QED BY <1>2, <1>5, <1>6, <1>7, <2>1, <2>3, <2>4, <2>5 DEF TypeInv
<1>16. LockInv'
  <2>1. Pruning'
    BY <1>2, <1>5 DEF Pruning
  <2> QED BY <1>5, <1>10, <2>1 DEF Inv, LockInv
<1>17. ASSUME NEW d \in Clients, NEW j \in DOMAIN held[d]
       PROVE  /\ held[d][j] \in Blocks /\ held[d][j] \in blocks /\ held[d][j] \notin old
              /\ header'[held[d][j]] = header[held[d][j]] /\ contents'[held[d][j]] = contents[held[d][j]]
              /\ header[held[d][j]] # e
  <2>1. header[held[d][j]] # e /\ held[d][j] \in blocks /\ held[d][j] \in Blocks
    BY <1>1, <1>2, NotHeld
  <2> QED BY <1>12, <1>14, <2>1
<1>18. ClientInv'
  <2>1. ASSUME NEW d \in Clients PROVE HeldInv(d)' /\ BuffersInv(d)'
    <3>1. held[d] \in Seq(Blocks) /\ HeldInv(d) /\ BuffersInv(d)
      BY DEF Inv, TypeInv, ClientInv
    <3>2. ASSUME NEW j \in DOMAIN held[d]
          PROVE  /\ held[d][j] \in blocks' /\ header'[held[d][j]] = header[held[d][j]]
                 /\ contents'[held[d][j]] = contents[held[d][j]]
                 /\ header[held[d][j]] # NULL => ent'[header[held[d][j]]].key = ent[header[held[d][j]]].key
      <4>1. header[held[d][j]] \in Pointers
        BY <1>2, <1>17 DEF TypeInv
      <4> QED BY <1>6, <1>13, <1>17, <4>1 DEF Pointers
    <3> QED BY <1>5, <3>1, <3>2, ClientFrame
  <2> QED BY <2>1 DEF ClientInv
<1>19. PrivateInv'
  <2> SUFFICES ASSUME NEW d1 \in Clients, NEW d2 \in Clients, NEW m \in DOMAIN held[d1], NEW n \in DOMAIN held[d2],
                      held[d1][m] = held[d2][n], header'[held[d1][m]] = NULL
               PROVE  d1 = d2
    BY <1>5 DEF PrivateInv
  <2>1. header[held[d1][m]] = NULL
    BY <1>17
  <2> QED BY <2>1 DEF Inv, PrivateInv
<1>20. EntryInv'
  <2>1. ASSUME NEW x \in entries, x # e PROVE StoredInv(x)'
    <3>1. StoredInv(x) /\ x \in Entries
      BY <1>2 DEF Inv, EntryInv
    <3>2. ASSUME NEW n \in DOMAIN ent[x].buf
          PROVE  /\ ent[x].buf[n] \in blocks' /\ header'[ent[x].buf[n]] = header[ent[x].buf[n]]
                 /\ contents'[ent[x].buf[n]] = contents[ent[x].buf[n]]
      <4>1. ent[x].buf[n] \in blocks /\ header[ent[x].buf[n]] = x /\ ent[x].buf[n] \in Blocks
        BY <1>2, <3>1 DEF StoredInv, TypeInv
      <4>2. ent[x].buf[n] \notin old
        BY <1>12, <2>1, <4>1
      <4> QED BY <1>13, <1>14, <4>1, <4>2
    <3>3. ent'[x].key = ent[x].key /\ ent'[x].buf = ent[x].buf
      BY <1>6, <2>1, <3>1
    <3> QED BY <3>1, <3>2, <3>3 DEF StoredInv
  <2>2. \A x \in Entries \ entries' : ent'[x].in_use_count = 0
    BY <1>1, <1>6 DEF Inv, EntryInv
  <2> QED BY <1>1, <2>1, <2>2 DEF EntryInv
<1>21. BlockInv'
  <2>1. ASSUME NEW b \in blocks' PROVE OwnedInv(b)'
    <3>0. OwnedInv(b) /\ b \in Blocks /\ b \in blocks /\ b \notin old
      BY <1>2, <1>13 DEF Inv, BlockInv, TypeInv
    <3>1. header'[b] = header[b]
      BY <1>14, <3>0
    <3>2. CASE header[b] \in entries
      <4>1. \E n \in DOMAIN ent[header[b]].buf : ent[header[b]].buf[n] = b
        BY <1>2, <3>0, <3>2 DEF OwnedInv
      <4>2. header[b] # e
        BY <1>12, <3>0, <4>1
      <4>3. header[b] \in entries' /\ ent'[header[b]].buf = ent[header[b]].buf
        BY <1>1, <1>2, <1>6, <3>2, <4>2
      <4> QED BY <3>1, <4>1, <4>3 DEF OwnedInv
    <3>3. CASE header[b] = NULL /\ \E d \in Clients : \E n \in DOMAIN held[d] : held[d][n] = b
      BY <1>5, <3>1, <3>3 DEF OwnedInv
    <3> QED BY <3>0, <3>2, <3>3 DEF OwnedInv
  <2>2. \A b \in Blocks \ blocks' : header'[b] = NULL /\ contents'[b] = NULL
    BY <1>13, <1>14 DEF Inv, BlockInv
  <2> QED BY <2>1, <2>2 DEF BlockInv
<1>22. KeyInv'
  <2>1. \A x \in entries' : x \in entries /\ ent'[x].key = ent[x].key
    BY <1>1, <1>2, <1>6
  <2> QED BY <1>5, <2>1 DEF Inv, KeyInv
<1>23. UsersInv'
  <2>1. ASSUME NEW x \in entries' PROVE Holders(x)' = Holders(x) /\ ent'[x].in_use_count = ent[x].in_use_count
    <3>1. \A d \in Clients : \A n : n \in DOMAIN held'[d] /\ HoldsOne(d, n, x)'
                                     <=> n \in DOMAIN held[d] /\ HoldsOne(d, n, x)
      BY <1>5, <1>17 DEF HoldsOne
    <3>2. Holders(x)' = Holders(x)
      BY <3>1, HoldersKept
    <3>3. ent'[x].in_use_count = ent[x].in_use_count
      BY <1>1, <1>2, <1>6
    <3> QED BY <3>2, <3>3
  <2>2. \A x \in entries' : x \in entries
    BY <1>1
  <2> QED BY <2>1, <2>2 DEF Inv, UsersInv
<1> QED BY <1>8, <1>10, <1>15, <1>16, <1>18, <1>19, <1>20, <1>21, <1>22, <1>23 DEF Inv

-----------------------------------------------------------------------------
(* Start and exit *)

\* No entry, no block, and no realization that is held.
Empty ==
  /\ entries = {} /\ blocks = {}
  /\ \A i \in Buckets : cache_entries[i] = NULL
  /\ most_recently_used = NULL /\ least_recently_used = NULL /\ lock = NULL /\ prune_candidate = NULL
  /\ \A e \in Entries : ent[e].in_use_count = 0
  /\ \A b \in Blocks : header[b] = NULL /\ contents[b] = NULL
  /\ \A c \in Clients : pc[c] = "idle" /\ key[c] = NULL /\ held[c] = <<>> /\ found[c] = NULL

\* Then the invariant holds.
LEMMA EmptyInv == TypeInv /\ Empty => Inv
<1> SUFFICES ASSUME TypeInv, Empty PROVE Inv
  OBVIOUS
<1>0. PICK rank \in [Entries -> Int] : rank = [e \in Entries |-> 0]
  <2>1. [e \in Entries |-> 0] \in [Entries -> Int]
    BY SMTT(30)
  <2> QED BY <2>1
<1>1. entries = {} /\ lock = NULL /\ NULL # Application /\ NULL \notin Clients
  BY CacheAssumption DEF Empty
<1>2. ~Pruning
  BY <1>1 DEF Pruning
<1>3. LruInv
  <2>1. LruOrder(rank)
    BY DEF Empty, LruOrder, IsList
  <2>2. PruneOrder(rank)
    BY <1>2 DEF PruneOrder
  <2> QED BY <2>1, <2>2 DEF LruInv
<1>4. HashInv
  <2>1. \A i \in Buckets : Bucket(i) = {} /\ cache_entries[i] = NULL
    BY <1>1 DEF Bucket, Empty
  <2>2. HashOrder(rank)
    BY <2>1 DEF HashOrder, IsList
  <2> QED BY <2>2 DEF HashInv
<1>5. ClientInv
  <2> SUFFICES ASSUME NEW c \in Clients PROVE HeldInv(c) /\ BuffersInv(c)
    BY DEF ClientInv
  <2>1. pc[c] = "idle" /\ key[c] = NULL /\ held[c] = <<>> /\ found[c] = NULL
    BY DEF Empty
  <2>2. DOMAIN held[c] = {}
    BY <2>1, SMTT(30)
  <2> QED BY <2>1, <2>2 DEF HeldInv, BuffersInv, Private, Using, Distinct
<1>6. PrivateInv
  BY SMTT(30) DEF Empty, PrivateInv
<1>7. EntryInv
  BY DEF Empty, EntryInv
<1>8. BlockInv
  BY DEF Empty, BlockInv
<1>9. KeyInv
  BY <1>1 DEF Empty, KeyInv
<1>10. LockInv
  BY <1>1 DEF Empty, LockInv
<1>11. UsersInv
  BY <1>1 DEF UsersInv
<1> QED BY <1>3, <1>4, <1>5, <1>6, <1>7, <1>8, <1>9, <1>10, <1>11 DEF Inv

\* The same of the next state.
LEMMA EmptyInvNext == TypeInv' /\ Empty' => Inv'
BY EmptyInv, PTL

\* The cache starts in the invariant.
LEMMA InitInv == Init => Inv
<1> SUFFICES ASSUME Init PROVE Inv
  OBVIOUS
<1>1. Blank \in CacheEntries /\ Blank.in_use_count = 0
  BY SMTT(30) DEF Blank, CacheEntries, Pointers
<1>2. TypeInv
  BY <1>1, CacheAssumption, SMTT(30) DEF Init, TypeInv, Pointers, Labels
<1>3. Empty
  BY <1>1 DEF Init, Empty
<1> QED BY <1>2, <1>3, EmptyInv

\* halide_memoization_cache_cleanup keeps the invariant.
LEMMA CleanupInv ==
  ASSUME Inv, halide_memoization_cache_cleanup, UNCHANGED workload
  PROVE  Inv'
<1> DEFINE freed == UNION {Range(ent[e].buf) : e \in InTable}
<1>0. /\ \A c \in Clients : pc[c] = "idle"
      /\ lock = NULL /\ cache_entries' = [i \in Buckets |-> NULL]
      /\ Wipe(freed) /\ entries' = entries \ InTable
      /\ ent' = [e \in Entries |-> IF e \in InTable THEN Blank ELSE ent[e]]
      /\ current_cache_size' = 0 /\ most_recently_used' = NULL /\ least_recently_used' = NULL
      /\ UNCHANGED <<lock, max_cache_size, clientVars, prune_candidate>>
  BY DEF halide_memoization_cache_cleanup
<1>1. InTable = entries /\ TypeInv
  BY TableHoldsEntries DEF Inv
<1>2. UNCHANGED <<lock, max_cache_size, pc, key, held, found, prune_candidate>>
  BY <1>0 DEF clientVars
<1>3. \A c \in Clients : pc[c] = "idle" /\ key[c] = NULL /\ held[c] = <<>> /\ found[c] = NULL
  <2> SUFFICES ASSUME NEW c \in Clients
               PROVE  pc[c] = "idle" /\ key[c] = NULL /\ held[c] = <<>> /\ found[c] = NULL
    OBVIOUS
  <2>1. pc[c] = "idle" /\ HeldInv(c) /\ BuffersInv(c)
    BY <1>0 DEF Inv, ClientInv
  <2> QED BY <2>1 DEF HeldInv, BuffersInv
<1>4. prune_candidate = NULL
  <2>1. ~Pruning
    BY <1>0, CacheAssumption DEF Pruning
  <2> QED BY <2>1 DEF Inv, LockInv
<1>5. PICK old : old = freed
  OBVIOUS
<1> HIDE DEF freed
<1>6. \A b \in blocks : b \in old
  <2> SUFFICES ASSUME NEW b \in blocks PROVE b \in old
    OBVIOUS
  <2>1. OwnedInv(b)
    BY DEF Inv, BlockInv
  <2>2. header[b] \in entries /\ \E i \in DOMAIN ent[header[b]].buf : ent[header[b]].buf[i] = b
    BY <1>3, <2>1, SMTT(30) DEF OwnedInv
  <2>3. b \in Range(ent[header[b]].buf)
    BY <2>2 DEF Range
  <2> QED BY <1>1, <1>5, <2>2, <2>3 DEF freed
<1>7. /\ blocks' = blocks \ old
      /\ header' = [b \in Blocks |-> IF b \in old THEN NULL ELSE header[b]]
      /\ contents' = [b \in Blocks |-> IF b \in old THEN NULL ELSE contents[b]]
  BY <1>0, <1>5 DEF Wipe
<1>8. \A b \in Blocks : header'[b] = NULL /\ contents'[b] = NULL
  BY <1>6, <1>7 DEF Inv, BlockInv
<1>9. entries' = {} /\ blocks' = {}
  BY <1>0, <1>1, <1>6, <1>7
<1>10. Blank \in CacheEntries /\ Blank.in_use_count = 0
  BY SMTT(30) DEF Blank, CacheEntries, Pointers
<1>11. ent' = [e \in Entries |-> IF e \in entries THEN Blank ELSE ent[e]]
  BY <1>0, <1>1
<1>12. /\ ent' \in [Entries -> CacheEntries]
       /\ \A e \in Entries : ent'[e].in_use_count = 0
  <2>1. \A e \in Entries : ent'[e] = IF e \in entries THEN Blank ELSE ent[e]
    BY <1>11
  <2>2. \A e \in Entries : ent'[e] \in CacheEntries
    BY <1>1, <1>10, <2>1 DEF TypeInv
  <2>3. ent' \in [Entries -> CacheEntries]
    BY <1>11, <2>1, <2>2
  <2>4. \A e \in Entries : ent'[e].in_use_count = 0
    BY <1>10, <2>1 DEF Inv, EntryInv
  <2> QED BY <2>3, <2>4
<1>13. TypeInv'
  <2>1. /\ header' \in [Blocks -> Pointers] /\ contents' \in [Blocks -> Keys \cup {NULL}]
        /\ cache_entries' \in [Buckets -> Pointers] /\ most_recently_used' \in Pointers
        /\ least_recently_used' \in Pointers /\ current_cache_size' \in Int
    BY <1>0, <1>1, <1>7, SMTT(30) DEF TypeInv, Pointers
  <2>2. entries' \subseteq Entries /\ blocks' \subseteq Blocks /\ workload' = workload
    BY <1>9
  <2> QED BY <1>1, <1>2, <1>12, <2>1, <2>2 DEF TypeInv
<1>14. Empty'
  <2>1. \A i \in Buckets : cache_entries'[i] = NULL
    BY <1>0
  <2> QED BY <1>0, <1>2, <1>3, <1>4, <1>8, <1>9, <1>12, <2>1 DEF Empty
<1> QED BY <1>13, <1>14, EmptyInvNext

-----------------------------------------------------------------------------
(* The theorems *)

\* prune_cache only frees entries at the old end of the list.
PrunesOldest == PruneEntry => prune_candidate = least_recently_used

\* A step of a client keeps the invariant.
LEMMA RealizationInv ==
  ASSUME Inv, NEW c \in Clients, Realization(c), UNCHANGED workload
  PROVE  Inv'
<1>1. CASE \E k \in workload.keys : LookupHit(c, k) \/ LookupMiss(c, k)
  <2>1. PICK k \in workload.keys : LookupHit(c, k) \/ LookupMiss(c, k)
    BY <1>1
  <2>2. k \in Keys
    BY CacheAssumption DEF Inv, TypeInv
  <2>3. CASE LookupHit(c, k)
    BY <2>2, <2>3, LookupHitInv
  <2>4. CASE LookupMiss(c, k)
    BY <2>2, <2>4, LookupMissInv
  <2> QED BY <2>1, <2>3, <2>4
<1>2. CASE AllocateBlock(c)
  BY <1>2, AllocateBlockInv
<1>3. CASE AllocateFails(c)
  BY <1>3, AllocateFailsInv
<1>4. CASE LookupDone(c)
  BY <1>4, LookupDoneInv
<1>5. CASE Compute(c)
  BY <1>5, ComputeInv
<1>6. CASE ComputeFails(c)
  BY <1>6, ComputeFailsInv
<1>7. CASE StoreKnown(c)
  BY <1>7, StoreKnownInv
<1>8. CASE StoreNew(c)
  BY <1>8, StoreNewInv
<1>9. CASE StoreInsert(c)
  BY <1>9, StoreInsertInv
<1>10. CASE StoreFails(c)
  BY <1>10, StoreFailsInv
<1>11. CASE ReadHeader(c)
  BY <1>11, ReadHeaderInv
<1>12. CASE FreeBlock(c)
  BY <1>12, FreeBlockInv
<1>13. CASE ReleaseEntry(c)
  BY <1>13, ReleaseEntryInv
<1> QED BY <1>1, <1>2, <1>3, <1>4, <1>5, <1>6, <1>7, <1>8, <1>9, <1>10, <1>11, <1>12, <1>13
        DEF Realization

\* Every step that prunes nothing but the oldest entry keeps the invariant.
LEMMA InvStep == Inv /\ [Next]_vars /\ [PrunesOldest]_vars => Inv'
<1> SUFFICES ASSUME Inv, [Next]_vars, [PrunesOldest]_vars PROVE Inv'
  OBVIOUS
<1>1. CASE UNCHANGED vars
  <2>1. UNCHANGED <<workload, lock, cache_entries, most_recently_used, least_recently_used, ent, entries,
                    max_cache_size, current_cache_size, prune_candidate>>
        /\ UNCHANGED <<listVars, blockVars, clientVars>>
    BY <1>1 DEF vars, listVars, sizeVars
  <2>2. UNCHANGED <<blocks, header, contents, pc, key, held, found>>
    BY <2>1 DEF blockVars, clientVars
  <2>3. TypeInv'
    BY <2>1, <2>2 DEF Inv, TypeInv
  <2>4. Pruning' <=> Pruning
    BY <2>1, <2>2 DEF Pruning
  <2>5. LockInv'
    BY <2>1, <2>2, <2>4 DEF Inv, LockInv
  <2>6. LruInv'
    BY <2>1, <2>4, LruFrame DEF Inv, Prunable
  <2> QED BY <2>1, <2>3, <2>5, <2>6, PrunerStep
<1>2. CASE Next /\ ~UNCHANGED vars
  <2>1. UNCHANGED workload /\ PrunesOldest
    BY <1>2 DEF Next
  <2>2. CASE \E c \in Clients : Realization(c)
    BY <2>1, <2>2, RealizationInv
  <2>3. CASE PruneEntry
    BY <2>1, <2>3, PruneEntryInv DEF PrunesOldest
  <2>4. CASE PruneSkip
    BY <2>1, <2>4, PruneSkipInv
  <2>5. CASE \E n \in workload.sizes : halide_memoization_cache_set_size(n)
    <3>1. PICK n \in workload.sizes : halide_memoization_cache_set_size(n)
      BY <2>5
    <3>2. n \in Nat
      BY CacheAssumption DEF Inv, TypeInv
    <3> QED BY <2>1, <3>1, <3>2, SetSizeInv
  <2>6. CASE SetSizeDone
    BY <2>1, <2>6, SetSizeDoneInv
  <2>7. CASE halide_memoization_cache_cleanup
    BY <2>1, <2>7, CleanupInv
  <2> QED BY <1>2, <2>2, <2>3, <2>4, <2>5, <2>6, <2>7 DEF Next
<1> QED BY <1>1, <1>2

\* The invariant makes the cache valid, as validate_cache checks it,
LEMMA ListsHold == Inv => ValidCache
<1> SUFFICES ASSUME Inv PROVE ValidCache
  OBVIOUS
<1>0. TypeInv /\ entries \subseteq Entries
  BY DEF Inv, TypeInv
<1>1. InTable = entries
  BY TableHoldsEntries DEF Inv
<1>2. PICK rank \in [Entries -> Int] : LruOrder(rank)
  BY DEF Inv, LruInv
<1>3. \A x \in entries : /\ LessOf[x] = ent[x]["less_recent"] /\ MoreOf[x] = ent[x]["more_recent"]
                         /\ LessOf[x] = ent[x].less_recent /\ MoreOf[x] = ent[x].more_recent
  BY <1>0 DEF LessOf, MoreOf
<1>4. /\ IsList(entries, most_recently_used, LessOf, rank, NULL)
      /\ IsList(entries, least_recently_used, MoreOf, Negated(rank), NULL)
  BY <1>2 DEF LruOrder
<1>5. Negated(rank) \in [Entries -> Int]
  BY SMTT(30) DEF Negated
<1>6. WalkMeets(most_recently_used, "less_recent", entries)
  BY <1>0, <1>3, <1>4, WalkList
<1>7. WalkMeets(least_recently_used, "more_recent", entries)
  BY <1>0, <1>3, <1>4, <1>5, WalkList
<1>8. \A x \in entries : /\ MoreOf[x] = NULL => x = most_recently_used
                         /\ LessOf[x] = NULL => x = least_recently_used
  BY <1>0, <1>2, Ends
<1>9. Chain(most_recently_used, "less_recent") = entries /\ Chain(least_recently_used, "more_recent") = entries
  BY <1>6, <1>7 DEF WalkMeets
<1>10. \A x \in entries : /\ ent[x].more_recent = NULL => x = most_recently_used
                          /\ ent[x].less_recent = NULL => x = least_recently_used
  BY <1>3, <1>8
<1> QED BY <1>1, <1>9, <1>10 DEF ValidCache

\* counts its users,
LEMMA UsesHold == Inv => UsersCounted
<1> SUFFICES ASSUME Inv PROVE UsersCounted
  OBVIOUS
<1>1. \A e \in entries : ent[e].in_use_count = Cardinality(Holders(e))
  BY DEF Inv, UsersInv
<1>2. \A c \in Clients : Range(held[c]) \subseteq blocks
  BY DEF Inv, ClientInv, HeldInv, Range
<1> QED BY <1>1, <1>2 DEF UsersCounted

\* gives every client the result of its key,
LEMMA ResultsHold == Inv => ResultsBelongToKey
<1> SUFFICES ASSUME Inv PROVE ResultsBelongToKey
  OBVIOUS
<1>1. \A e \in entries : \A b \in Range(ent[e].buf) : contents[b] = ent[e].key /\ header[b] = e
  BY SMTT(30) DEF Inv, EntryInv, StoredInv, Range
<1>2. \A e, f \in entries : ent[e].key = ent[f].key => e = f
  BY DEF Inv, KeyInv
<1>3. ASSUME NEW c \in Clients, NEW b \in Range(held[c]) PROVE contents[b] \in {NULL, key[c]}
  <2>1. PICK i \in DOMAIN held[c] : held[c][i] = b
    BY DEF Range
  <2>2. HeldInv(c) /\ BuffersInv(c) /\ pc[c] \in Labels
    BY DEF Inv, ClientInv, TypeInv
  <2>3. pc[c] # "idle"
    BY <2>1, <2>2, SMTT(30) DEF HeldInv
  <2> QED BY <2>1, <2>2, <2>3 DEF BuffersInv, Using, Labels
<1> QED BY <1>1, <1>2, <1>3 DEF ResultsBelongToKey

\* and loses no block.
LEMMA BlocksHold == Inv => NoBlockLost
<1> SUFFICES ASSUME Inv PROVE NoBlockLost
  OBVIOUS
<1> DEFINE E == UNION {Range(ent[e].buf) : e \in entries}
           C == UNION {Range(held[c]) : c \in Clients}
<1>1. \A b \in blocks : b \in E \/ b \in C
  <2> SUFFICES ASSUME NEW b \in blocks PROVE b \in E \/ b \in C
    OBVIOUS
  <2>1. OwnedInv(b)
    BY DEF Inv, BlockInv
  <2>2. CASE header[b] \in entries /\ \E i \in DOMAIN ent[header[b]].buf : ent[header[b]].buf[i] = b
    BY <2>2, SMTT(30) DEF Range
  <2>3. CASE header[b] = NULL /\ \E c \in Clients : \E i \in DOMAIN held[c] : held[c][i] = b
    BY <2>3, SMTT(30) DEF Range
  <2> QED BY <2>1, <2>2, <2>3 DEF OwnedInv
<1>2. \A b \in E : b \in blocks
  BY SMTT(30) DEF Inv, EntryInv, StoredInv, Range
<1>3. \A b \in C : b \in blocks
  BY SMTT(30) DEF Inv, ClientInv, HeldInv, Range
<1>4. blocks = E \cup C
  <2> HIDE DEF E, C
  <2> QED BY <1>1, <1>2, <1>3
<1> QED BY <1>4 DEF NoBlockLost

\* The invariant holds as long as prune_cache frees oldest entries.
LEMMA InvHolds == Spec /\ [][PrunesOldest]_vars => []Inv
BY InitInv, InvStep, PTL DEF Spec

\* As long as prune_cache frees oldest entries, the hash chains and the recency list
\* of memoization_cache hold the same entries, and are linked both ways.
THEOREM CacheStaysValid == Spec /\ [][PrunesOldest]_vars => []ValidCache
BY InvHolds, ListsHold, PTL

\* Under the same condition, the in_use_count of an entry is the number of its
\* buffers that clients hold, so no entry in use is freed and none is kept for ever.
THEOREM UsersStayCounted == Spec /\ [][PrunesOldest]_vars => []UsersCounted
BY InvHolds, UsesHold, PTL

\* Under the same condition, a client uses buffers with the result of its own key.
THEOREM ResultsStayWithKey == Spec /\ [][PrunesOldest]_vars => []ResultsBelongToKey
BY InvHolds, ResultsHold, PTL

\* Under the same condition, every allocated block is that of an entry or of a
\* client that will release it.
THEOREM BlocksNeverLost == Spec /\ [][PrunesOldest]_vars => []NoBlockLost
BY InvHolds, BlocksHold, PTL

\* Under the same condition, current_cache_size is the size of what is stored or about
\* to be, and prune_cache ends within max_cache_size unless what is left is in use.
THEOREM SizeStaysAccounted == Spec /\ [][PrunesOldest]_vars => []SizeAccounted
BY InvHolds, SizeInit, SizeStep, SizeHolds, PTL DEF Spec

\* Under the same condition, no in_use_count and no size falls below zero, and the rest
\* of the state has its types.
THEOREM TypesStayCorrect == Spec /\ [][PrunesOldest]_vars => []TypeOK
BY InvHolds, SizeInit, SizeStep, TypesHold, PTL DEF Spec

-----------------------------------------------------------------------------
(* One realization at a time *)

\* Applications that hold one memoized realization at a time, in all their pipelines.
OneRealization == \A w \in Workloads : w.realizations <= 1
\* At most one client runs, and only the youngest entry is in use.
Solo ==
  /\ \A c, d \in Clients : pc[c] # "idle" /\ pc[d] # "idle" => c = d
  /\ \A e \in entries : Prunable(e) \/ e = most_recently_used

\* While nobody uses a buffer every entry may be pruned.
LEMMA NobodyUses ==
  ASSUME Inv, \A c \in Clients : pc[c] \notin Using
  PROVE  \A e \in entries : Prunable(e)
<1> SUFFICES ASSUME NEW e \in entries PROVE Prunable(e)
  OBVIOUS
<1>1. Holders(e) = {}
  <2>1. \A x : x \notin Holders(e)
    BY HoldersAre DEF HoldsOne
  <2> QED BY <2>1
<1>2. Cardinality(Holders(e)) = 0
  BY <1>1, FS_EmptySet
<1> QED BY <1>2 DEF Inv, UsersInv, Prunable

\* Then the candidate that can be pruned is the oldest entry.
LEMMA SoloPrunes == ASSUME Inv, Solo, PruneEntry PROVE prune_candidate = least_recently_used
<1>0. prune_candidate \in entries /\ Prunable(prune_candidate) /\ Pruning /\ TypeInv
  BY DEF Inv, LockInv, PruneEntry, MustPrune
<1>1. PICK rank \in [Entries -> Int] : LruOrder(rank) /\ PruneOrder(rank)
  BY DEF Inv, LruInv
<1>2. /\ least_recently_used \in entries /\ LessOf[least_recently_used] = NULL
      /\ MoreOf[most_recently_used] = NULL
      /\ \A x \in entries : rank[x] <= rank[most_recently_used]
  BY <1>0, <1>1, Ends
<1>3. /\ \A x, y \in entries : rank[x] = rank[y] => x = y
      /\ \A x \in entries : rank[least_recently_used] <= rank[x] /\ rank[x] \in Int
  <2>1. DoublyLinked(entries, most_recently_used, least_recently_used, LessOf, MoreOf, rank, Negated(rank), NULL)
    BY <1>0, <1>1, LruLinked
  <2>2. Linked(entries, most_recently_used, least_recently_used, LessOf, MoreOf, rank, Negated(rank), NULL)
    BY <2>1, DoublyLinkedEnds
  <2> QED BY <2>2 DEF Linked
<1>4. CASE Prunable(least_recently_used)
  <2>1. rank[prune_candidate] <= rank[least_recently_used]
    BY <1>0, <1>1, <1>2, <1>4 DEF PruneOrder
  <2> QED BY <1>0, <1>2, <1>3, <2>1, SMTT(30)
<1>5. CASE ~Prunable(least_recently_used)
  <2>1. least_recently_used = most_recently_used
    BY <1>2, <1>5 DEF Solo
  <2> QED BY <1>0, <1>2, <1>3, <2>1, SMTT(30)
<1> QED BY <1>4, <1>5

\* A client starts only when no other runs.
LEMMA StartsAlone ==
  ASSUME Inv, Solo, OneRealization, NEW c \in Clients, MayStart(c)
  PROVE  \A d \in Clients : pc[d] = "idle"
<1> DEFINE S == {d \in Clients : pc[d] # "idle"}
<1>1. workload.realizations \in Nat /\ workload.realizations <= 1
  BY CacheAssumption DEF Inv, TypeInv, OneRealization
<1>2. Cardinality(S) < workload.realizations
  BY DEF MayStart
<1>3. ASSUME NEW d \in Clients, pc[d] # "idle" PROVE FALSE
  <2>1. S = {d}
    BY <1>3 DEF Solo
  <2>2. Cardinality(S) = 1
    BY <2>1, FS_Singleton
  <2> HIDE DEF S
  <2> QED BY <1>1, <1>2, <2>2, SMTT(30)
<1> QED BY <1>3

\* A step that starts no client, takes no buffer of an entry and leaves the
\* youngest entry where it is.
LEMMA SoloKept ==
  ASSUME Solo, \A c \in Clients : pc'[c] # "idle" => pc[c] # "idle",
         \A e \in entries' : e \in entries /\ (Prunable(e) => Prunable(e)'),
         \A e \in entries' : ~Prunable(e)' /\ e = most_recently_used => e = most_recently_used'
  PROVE  Solo'
<1>1. \A c, d \in Clients : pc'[c] # "idle" /\ pc'[d] # "idle" => c = d
  BY DEF Solo
<1>2. \A e \in entries' : Prunable(e)' \/ e = most_recently_used'
  BY DEF Solo
<1> QED BY <1>1, <1>2 DEF Solo

\* The steps of a client.
LEMMA SoloRealization ==
  ASSUME Inv, Solo, OneRealization, NEW c \in Clients, Realization(c)
  PROVE  Solo'
<1>0. pc \in [Clients -> Labels]
  BY DEF Inv, TypeInv
<1>1. ASSUME NEW k \in Keys, LookupHit(c, k) PROVE Solo'
  <2>0. PICK e : e = Lookup(k)
    OBVIOUS
  <2>1. /\ MayStart(c) /\ e # NULL /\ pc' = [pc EXCEPT ![c] = "using"] /\ entries' = entries
        /\ IF e = most_recently_used
           THEN /\ ent' = [ent EXCEPT ![e].in_use_count = UsedAgain(e)]
                /\ UNCHANGED <<most_recently_used, least_recently_used>>
           ELSE MoveToFront(e)
    BY <1>1, <2>0 DEF LookupHit, Return
  <2>2. \A d \in Clients : pc[d] = "idle"
    BY <2>1, StartsAlone
  <2>3. \A x \in entries : Prunable(x)
    BY <2>2, NobodyUses DEF Using
  <2>4. most_recently_used' = e
    BY <2>1 DEF MoveToFront
  <2>5. e \in entries /\ e \in Entries /\ entries \subseteq Entries /\ ent[e].key \in Keys /\ UsedAgain(e) \in Int
    <3>1. e \in entries /\ ent[e].key = k
      BY <2>0, <2>1, LookupFinds DEF Inv
    <3>2. entries \subseteq Entries /\ ent[e] \in CacheEntries
      BY <3>1 DEF Inv, TypeInv
    <3>3. ent[e].in_use_count \in Int /\ TupleCount[k] \in Int
      BY <3>2, CacheAssumption, SMTT(30) DEF CacheEntries
    <3> QED BY <3>1, <3>2, <3>3, SMTT(30) DEF UsedAgain
  <2>6. \A x \in entries : x # e => ent'[x].in_use_count = ent[x].in_use_count
    <3>1. CASE e = most_recently_used
      BY <2>1, <2>5, <3>1 DEF Inv, TypeInv
    <3>2. CASE e # most_recently_used
      BY <2>1, <2>5, <3>2, FrontLinks, SMTT(30) DEF Inv
    <3> QED BY <3>1, <3>2
  <2>7. \A d \in Clients : pc'[d] # "idle" => d = c
    BY <1>0, <2>1, <2>2
  <2> QED BY <2>1, <2>3, <2>4, <2>6, <2>7 DEF Solo, Prunable
<1>2. ASSUME NEW k \in Keys, LookupMiss(c, k) PROVE Solo'
  <2>1. MayStart(c) /\ pc' = [pc EXCEPT ![c] = "allocating"] /\ UNCHANGED listVars
    BY <1>2 DEF LookupMiss, Return
  <2>2. \A d \in Clients : pc[d] = "idle"
    BY <2>1, StartsAlone
  <2>3. \A d \in Clients : pc'[d] # "idle" => d = c
    BY <1>0, <2>1, <2>2
  <2>4. UNCHANGED <<entries, ent, most_recently_used>>
    BY <2>1 DEF listVars
  <2> QED BY <2>3, <2>4 DEF Solo, Prunable
<1>3. CASE StoreInsert(c)
  <2>1. PICK e \in Entries \ entries :
          /\ entries' = entries \cup {e} /\ most_recently_used' = e
          /\ ent' = [x \in Entries |->
                      IF x = e THEN NewEntry(key[c], cache_entries[Hash[key[c]]], most_recently_used, held[c])
                      ELSE [ent[x] EXCEPT !.more_recent = IF x = most_recently_used THEN e ELSE @]]
          /\ pc[c] = "storing" /\ pc' = [pc EXCEPT ![c] = "using"]
    BY <1>3 DEF StoreInsert, Return, NewEntry
  <2>2. \A d \in Clients : d # c => pc[d] = "idle"
    BY <2>1 DEF Solo
  <2>3. \A x \in entries : Prunable(x)
    BY <2>1, <2>2, NobodyUses DEF Using
  <2>4. \A x \in entries : ent'[x].in_use_count = ent[x].in_use_count
    <3> SUFFICES ASSUME NEW x \in entries PROVE ent'[x].in_use_count = ent[x].in_use_count
      OBVIOUS
    <3>1. x \in Entries /\ x # e /\ ent[x] \in CacheEntries
      BY DEF Inv, TypeInv
    <3>2. PICK m : ent'[x] = [ent[x] EXCEPT !.more_recent = m]
      BY <2>1, <3>1
    <3> QED BY <3>1, <3>2 DEF CacheEntries
  <2>5. \A d \in Clients : pc'[d] # "idle" => d = c
    BY <1>0, <2>1, <2>2
  <2> QED BY <2>1, <2>3, <2>4, <2>5 DEF Solo, Prunable
<1>4. CASE ReleaseEntry(c)
  <2>1. /\ pc[c] = "releasing" /\ ent' = [ent EXCEPT ![found[c]].in_use_count = @ - 1]
        /\ UNCHANGED <<entries, most_recently_used>> /\ AfterRelease(c)
    BY <1>4 DEF ReleaseEntry
  <2>2. PICK e : e = found[c]
    OBVIOUS
  <2>3. \A d \in Clients : pc'[d] # "idle" => pc[d] # "idle"
    BY <1>0, <2>1 DEF AfterRelease, Return
  <2>4. \A x \in entries : x # e => ent'[x].in_use_count = ent[x].in_use_count
    BY <2>1, <2>2 DEF Inv, TypeInv
  <2>5. e \in entries => ~Prunable(e)
    <3>1. HeldInv(c) /\ BuffersInv(c) /\ held[c] \in Seq(Blocks)
      BY DEF Inv, ClientInv, TypeInv
    <3>2. 1 \in DOMAIN held[c] /\ header[held[c][1]] = e
      BY <2>1, <2>2, <3>1, SMTT(30) DEF HeldInv, BuffersInv, Using
    <3> QED BY <3>2, NotHeld
  <2>6. \A x \in entries' : x \in entries /\ (Prunable(x) => Prunable(x)')
    BY <2>1, <2>4, <2>5 DEF Prunable
  <2> QED BY <2>1, <2>3, <2>6, SoloKept
<1>5. ASSUME UNCHANGED listVars, \E q \in Labels : pc' = [pc EXCEPT ![c] = q], pc[c] # "idle" PROVE Solo'
  <2>1. UNCHANGED <<entries, ent, most_recently_used>>
    BY <1>5 DEF listVars
  <2>2. \A d \in Clients : pc'[d] # "idle" => pc[d] # "idle"
    BY <1>0, <1>5
  <2> QED BY <2>1, <2>2, SoloKept DEF Prunable
<1>6. CASE AllocateBlock(c)
  <2>1. pc' = pc /\ UNCHANGED listVars
    BY <1>6 DEF AllocateBlock
  <2> QED BY <2>1, SoloKept DEF listVars, Prunable
<1>7. CASE AllocateFails(c) \/ LookupDone(c) \/ Compute(c) \/ ComputeFails(c)
  BY <1>5, <1>7 DEF AllocateFails, LookupDone, Compute, ComputeFails, Return, Labels
<1>8. CASE StoreKnown(c) \/ StoreNew(c) \/ StoreFails(c) \/ ReadHeader(c)
  BY <1>5, <1>8 DEF StoreKnown, StoreNew, StoreFails, ReadHeader, Return, Labels
<1>9. CASE FreeBlock(c)
  BY <1>5, <1>9 DEF FreeBlock, AfterRelease, Return, Labels
<1>10. workload.keys \subseteq Keys
  BY CacheAssumption DEF Inv, TypeInv
<1> QED BY <1>1, <1>2, <1>3, <1>4, <1>6, <1>7, <1>8, <1>9, <1>10 DEF Realization

\* Every step keeps it so.
LEMMA SoloStep == Inv /\ Solo /\ OneRealization /\ [Next]_vars => Solo'
<1> SUFFICES ASSUME Inv, Solo, OneRealization, [Next]_vars PROVE Solo'
  OBVIOUS
<1>1. CASE \E c \in Clients : Realization(c)
  BY <1>1, SoloRealization
<1>2. CASE PruneEntry
  <2>0. PICK e : e = prune_candidate
    OBVIOUS
  <2>1. /\ entries' = entries \ {e} /\ pc' = pc
        /\ Unlinks(e, Chain(cache_entries[Hash[ent[e].key]], "next"))
        /\ most_recently_used' = (IF most_recently_used = e THEN ent[e].less_recent ELSE most_recently_used)
    BY <1>2, <2>0 DEF PruneEntry, Unlinks, clientVars
  <2>2. e \in entries /\ TypeInv
    BY <1>2, <2>0 DEF PruneEntry, MustPrune, Inv, LockInv
  <2>3. Hash[ent[e].key] \in Buckets
    BY <2>2, CacheAssumption DEF Inv, EntryInv, StoredInv
  <2>4. Pruned(e)
    <3>1. Chain(cache_entries[Hash[ent[e].key]], "next") = Bucket(Hash[ent[e].key])
      BY <2>2, <2>3, TableHoldsEntries DEF Inv
    <3> QED BY <2>1, <2>2, <3>1, PrunedLinks
  <2>5. \A x \in entries' : x \in entries /\ x # e /\ (Prunable(x) => Prunable(x)')
    BY <2>1, <2>2, <2>4 DEF Pruned, Prunable, TypeInv
  <2> QED BY <2>1, <2>5, SoloKept
<1>3. ASSUME UNCHANGED <<listVars, clientVars>> PROVE Solo'
  <2>1. UNCHANGED <<entries, ent, most_recently_used, pc>>
    BY <1>3 DEF listVars, clientVars
  <2> QED BY <2>1, SoloKept DEF Prunable
<1>4. CASE PruneSkip
  BY <1>3, <1>4 DEF PruneSkip
<1>5. CASE \E n \in workload.sizes : halide_memoization_cache_set_size(n)
  BY <1>3, <1>5 DEF halide_memoization_cache_set_size
<1>6. CASE SetSizeDone
  BY <1>3, <1>6 DEF SetSizeDone
<1>7. CASE halide_memoization_cache_cleanup
  <2>1. entries' = entries \ InTable /\ pc' = pc
    BY <1>7 DEF halide_memoization_cache_cleanup, clientVars
  <2>2. entries' = {}
    BY <2>1, TableHoldsEntries DEF Inv
  <2> QED BY <2>1, <2>2 DEF Solo
<1>8. CASE UNCHANGED vars
  BY <1>3, <1>8 DEF vars
<1> QED BY <1>1, <1>2, <1>4, <1>5, <1>6, <1>7, <1>8 DEF Next

\* With one realization at a time both invariants hold.
LEMMA SoloHolds ==
  ASSUME OneRealization
  PROVE  Spec => [](Inv /\ Solo)
<1>1. Init => Solo
  BY DEF Init, Solo
<1>2. Inv /\ Solo /\ [Next]_vars => [PrunesOldest]_vars
  BY SoloPrunes DEF PrunesOldest
<1>3. Inv /\ Solo /\ [Next]_vars => Inv' /\ Solo'
  BY <1>2, InvStep, SoloStep
<1> QED BY <1>1, <1>3, InitInv, PTL DEF Spec

\* If one realization is held at a time, prune_cache frees only oldest entries: the entry
\* in use, if there is one, is the youngest.
THEOREM OneRealizationPrunesOldest ==
  ASSUME OneRealization
  PROVE  Spec => [][PrunesOldest]_vars
<1>1. Inv /\ Solo /\ [Next]_vars => [PrunesOldest]_vars
  BY SoloPrunes DEF PrunesOldest
<1> QED BY <1>1, SoloHolds, PTL DEF Spec

\* If one realization is held at a time, the cache stays valid, counts its users and its size,
\* results belong to their keys and no block is lost, for all sizes, keys, hashes and limits.
THEOREM OneRealizationKeepsCache ==
  ASSUME OneRealization
  PROVE  Spec => [](TypeOK /\ ValidCache /\ UsersCounted /\ ResultsBelongToKey /\ NoBlockLost /\ SizeAccounted)
<1>1. Spec => []SizeInv
  BY SoloHolds, SizeInit, SizeStep, PTL DEF Spec
<1> QED BY <1>1, SoloHolds, TypesHold, ListsHold, UsesHold, ResultsHold, BlocksHold, SizeHolds, PTL
=============================================================================
