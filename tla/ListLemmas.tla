----------------------------- MODULE ListLemmas -----------------------------
(***************************************************************************)
(* Facts about natural numbers, sums and linked lists that the proofs of   *)
(* the components share: least elements and induction, a sum with one more *)
(* term, and what the insertions and removals of the code do to a list.    *)
(***************************************************************************)
EXTENDS Integers, FiniteSets, Sums, FiniteSetTheorems, WellFoundedInduction, TLAPS

\* A set of naturals that is not empty has a least element.
LEMMA LeastNat ==
  ASSUME NEW T, T \subseteq Nat, T # {}
  PROVE  \E x \in T : \A y \in T : x <= y
<1> DEFINE R == OpToRel(<, Nat)
<1>1. IsWellFoundedOn(R, Nat)
  BY NatLessThanWellFounded
<1>2. \A x, y \in Nat : <<x, y>> \in R <=> x < y
  BY DEF OpToRel
<1> HIDE DEF R
<1>3. PICK x \in T : \A y \in T : ~(<<y, x>> \in R)
  BY <1>1, WFMin, Zenon
<1>4. ASSUME NEW y \in T PROVE x <= y
  <2>1. x \in Nat /\ y \in Nat
    OBVIOUS
  <2>2. ~(y < x)
    BY <1>2, <1>3, <2>1, Zenon
  <2> QED BY <2>1, <2>2
<1> QED BY <1>4

\* Induction, for a property given as the set of the numbers that have it.
LEMMA SetInduction ==
  ASSUME NEW T, T \subseteq Nat, 0 \in T, \A n \in T : n + 1 \in T
  PROVE  T = Nat
<1> SUFFICES ASSUME Nat \ T # {} PROVE FALSE
  BY Zenon
<1>1. PICK x \in Nat \ T : \A y \in Nat \ T : x <= y
  BY LeastNat, Zenon
<1> QED BY <1>1

\* The pairs that a sum over a finite set counts are finitely many.
LEMMA SumFinite ==
  ASSUME NEW S, IsFiniteSet(S), NEW w, \A x \in S : w[x] \in Nat
  PROVE  IsFiniteSet(Pairs(S, w)) /\ SumOver(S, w) \in Nat
<1> DEFINE g == [x \in S |-> {x} \X (1..w[x])]
           T == {{x} \X (1..w[x]) : x \in S}
<1>1. g \in Surjection(S, T)
  BY Zenon DEF Surjection
<1>2. IsFiniteSet(T)
  BY <1>1, FS_Surjection, Zenon
<1>3. \A t \in T : IsFiniteSet(t)
  <2> SUFFICES ASSUME NEW x \in S PROVE IsFiniteSet({x} \X (1..w[x]))
    BY Zenon
  <2>1. IsFiniteSet(1..w[x])
    BY FS_Interval, SMT
  <2> QED BY <2>1, FS_Singleton, FS_Product, Zenon
<1>4. IsFiniteSet(Pairs(S, w))
  BY <1>2, <1>3, FS_UNION, Zenon DEF Pairs
<1> QED BY <1>4, FS_CardinalityType, Zenon DEF SumOver

\* A sum with one more term.
LEMMA SumAdd ==
  ASSUME NEW S, IsFiniteSet(S), NEW w, \A y \in S : w[y] \in Nat,
         NEW x, x \notin S, w[x] \in Nat
  PROVE  SumOver(S \cup {x}, w) = SumOver(S, w) + w[x]
<1> DEFINE P == Pairs(S, w)
           Q == {x} \X (1..w[x])
<1>1. Pairs(S \cup {x}, w) = P \cup Q
  BY SMT DEF Pairs
<1>2. P \cap Q = {}
  BY SMT DEF Pairs
<1>3. IsFiniteSet(P)
  BY SumFinite, SMT
<1>4. IsFiniteSet(Q) /\ Cardinality(Q) = w[x]
  <2>1. IsFiniteSet(1..w[x]) /\ Cardinality(1..w[x]) = w[x]
    BY FS_Interval, SMTT(30)
  <2>2. IsFiniteSet({x}) /\ Cardinality({x}) = 1
    BY FS_Singleton, Zenon
  <2> DEFINE A == {x}
             B == 1..w[x]
  <2> HIDE DEF A, B
  <2>3. IsFiniteSet(A \X B) /\ Cardinality(A \X B) = Cardinality(A) * Cardinality(B)
    BY <2>1, <2>2, FS_Product, Zenon DEF A, B
  <2>4. Cardinality(A) * Cardinality(B) = w[x]
    BY <2>1, <2>2, SMT DEF A, B
  <2> QED BY <2>3, <2>4, Zenon DEF A, B
<1> HIDE DEF P, Q
<1>5. Cardinality(P \cup Q) = Cardinality(P) + Cardinality(Q) - Cardinality({})
  BY <1>2, <1>3, <1>4, FS_Union, SMT
<1>6. Cardinality({}) = 0 /\ Cardinality(P) \in Nat
  BY <1>3, FS_EmptySet, FS_CardinalityType, Zenon
<1>7. SumOver(S \cup {x}, w) = Cardinality(P \cup Q) /\ SumOver(S, w) = Cardinality(P)
  BY <1>1, Zenon DEF SumOver, P
<1> QED BY <1>4, <1>5, <1>6, <1>7, SMT

\* A sum depends on its terms only.
LEMMA SumSame ==
  ASSUME NEW S, NEW v, NEW w, \A x \in S : v[x] = w[x]
  PROVE  SumOver(S, v) = SumOver(S, w)
<1>1. {{x} \X (1..v[x]) : x \in S} = {{x} \X (1..w[x]) : x \in S}
  BY Zenon
<1> QED BY <1>1, Zenon DEF SumOver, Pairs

\* Sums of no term and of one,
LEMMA SumSmall ==
  ASSUME NEW w
  PROVE  /\ SumOver({}, w) = 0
         /\ \A x : w[x] \in Nat => SumOver({x}, w) = w[x]
<1>1. SumOver({}, w) = 0
  <2>1. Pairs({}, w) = {}
    BY SMT DEF Pairs
  <2> QED BY <2>1, FS_EmptySet, Zenon DEF SumOver
<1>2. ASSUME NEW x, w[x] \in Nat PROVE SumOver({x}, w) = w[x]
  <2>1. IsFiniteSet({}) /\ x \notin {} /\ \A y \in {} : w[y] \in Nat
    BY FS_EmptySet, Zenon
  <2>2. SumOver({} \cup {x}, w) = SumOver({}, w) + w[x]
    BY <1>2, <2>1, SumAdd, Zenon
  <2>3. {} \cup {x} = {x}
    BY Zenon
  <2>4. SumOver({x}, w) = SumOver({}, w) + w[x]
    BY <2>2, <2>3, Zenon
  <2> QED BY <1>1, <1>2, <2>4
<1> QED BY <1>1, <1>2, Zenon

\* and a sum with one term less.
LEMMA SumRemove ==
  ASSUME NEW S, IsFiniteSet(S), NEW w, \A y \in S : w[y] \in Nat, NEW x \in S
  PROVE  SumOver(S \ {x}, w) = SumOver(S, w) - w[x] /\ w[x] <= SumOver(S, w)
<1> DEFINE R == S \ {x}
<1>1. IsFiniteSet(R) /\ x \notin R /\ R \cup {x} = S /\ \A y \in R : w[y] \in Nat
  BY FS_RemoveElement, Zenon
<1> HIDE DEF R
<1>2. SumOver(R \cup {x}, w) = SumOver(R, w) + w[x]
  BY <1>1, SumAdd, Zenon
<1>3. SumOver(S, w) = SumOver(R, w) + w[x]
  BY <1>1, <1>2, Zenon
<1>4. SumOver(R, w) \in Nat
  BY <1>1, SumFinite, Zenon
<1>5. SumOver(R, w) = SumOver(S, w) - w[x] /\ w[x] <= SumOver(S, w)
  BY <1>3, <1>4, SMT
<1> QED BY <1>5, Zenon DEF R

\* A sum of some of the terms is no greater.
LEMMA SumSubset ==
  ASSUME NEW S, IsFiniteSet(S), NEW w, \A y \in S : w[y] \in Nat, NEW T, T \subseteq S
  PROVE  IsFiniteSet(T) /\ SumOver(T, w) \in Nat /\ SumOver(T, w) <= SumOver(S, w)
<1>1. IsFiniteSet(T) /\ \A y \in T : w[y] \in Nat
  BY FS_Subset, Zenon
<1>2. SumOver(T, w) \in Nat
  BY <1>1, SumFinite, Zenon
<1>3. Pairs(T, w) \subseteq Pairs(S, w)
  BY SMT DEF Pairs
<1>4. IsFiniteSet(Pairs(S, w))
  BY SumFinite, Zenon
<1>5. SumOver(T, w) <= SumOver(S, w)
  BY <1>3, <1>4, FS_Subset, Zenon DEF SumOver
<1> QED BY <1>1, <1>2, <1>5, Zenon

-----------------------------------------------------------------------------
(* A list is given by its elements S, its head h, the pointer nxt of each  *)
(* element, and a rank that falls along the list.                          *)

\* The element x has the lowest rank.
IsLast(S, x, rank) == \A y \in S : rank[x] <= rank[y]

\* The element y has the highest rank below that of x.
IsNext(S, x, y, rank) ==
  y \in S /\ rank[y] < rank[x] /\ \A z \in S : rank[z] < rank[x] => rank[z] <= rank[y]

\* The head has the highest rank, every pointer leads to the next one, and the last
\* pointer is null.
IsList(S, h, nxt, rank, null) ==
  /\ S = {} => h = null
  /\ S # {} => h \in S /\ \A x \in S : rank[x] <= rank[h]
  /\ \A x \in S : \/ nxt[x] = null /\ IsLast(S, x, rank)
                  \/ nxt[x] # null /\ IsNext(S, x, nxt[x], rank)
  /\ \A x, y \in S : rank[x] = rank[y] => x = y

\* The sequence at of the elements met from h on, as a recursive function gives it.
Follows(at, N, h, rec, field, null) ==
  at = [n \in 0..N |-> IF n = 0 THEN h
                       ELSE IF at[n - 1] = null THEN null ELSE rec[at[n - 1]][field]]

\* The recursive definition of a walk along a field has a solution.
LEMMA WalkExists ==
  ASSUME NEW N \in Nat, NEW h, NEW rec, NEW field, NEW null
  PROVE  \E at : Follows(at, N, h, rec, field, null)
<1> DEFINE T == {m \in Nat : \E at : Follows(at, m, h, rec, field, null)}
           After(x) == IF x = null THEN null ELSE rec[x][field]
<1>1. 0 \in T
  <2>1. Follows([n \in 0..0 |-> h], 0, h, rec, field, null)
    BY DEF Follows
  <2> QED BY <2>1
<1>2. ASSUME NEW m \in T PROVE m + 1 \in T
  <2>1. PICK g : Follows(g, m, h, rec, field, null)
    OBVIOUS
  <2>2. g[0] = h /\ \A n \in 1..m : g[n] = After(g[n - 1])
    BY <2>1 DEF Follows
  <2> DEFINE k == [n \in 0..m + 1 |-> IF n = m + 1 THEN After(g[m]) ELSE g[n]]
  <2> HIDE DEF After
  <2>3. k[m + 1] = After(k[m]) /\ \A n \in 0..m : k[n] = g[n]
    OBVIOUS
  <2>4. k = [n \in 0..m + 1 |-> k[n]]
    OBVIOUS
  <2> HIDE DEF k
  <2>5. \A n \in 0..m + 1 : k[n] = IF n = 0 THEN h ELSE After(k[n - 1])
    BY <2>2, <2>3
  <2>6. k = [n \in 0..m + 1 |-> IF n = 0 THEN h ELSE After(k[n - 1])]
    BY <2>4, <2>5, Zenon
  <2>7. Follows(k, m + 1, h, rec, field, null)
    BY <2>6, Zenon DEF Follows, After
  <2> QED BY <2>7
<1> HIDE DEF T
<1>3. T = Nat
  BY <1>1, <1>2, SetInduction, Zenon DEF T
<1> QED BY <1>3 DEF T

\* A walk of N steps, with N at least the number of elements, meets exactly them.
LEMMA WalkMeetsList ==
  ASSUME NEW S, NEW h, NEW nxt, NEW null, NEW rank, \A x \in S : rank[x] \in Int,
         null \notin S, IsList(S, h, nxt, rank, null),
         IsFiniteSet(S), NEW N \in Nat, Cardinality(S) <= N,
         NEW at, at[0] = h, \A n \in 1..N : at[n - 1] = null => at[n] = null,
         \A n \in 1..N : at[n - 1] \in S => at[n] = nxt[at[n - 1]]
  PROVE  /\ \A n \in 0..N : at[n] \in S \cup {null}
         /\ \A x \in S : \E n \in 0..N : at[n] = x
<1>1. \A n \in 0..N : at[n] \in S \cup {null}
  <2> DEFINE T == {n \in Nat : n <= N => at[n] \in S \cup {null}}
  <2>1. 0 \in T
    BY DEF IsList
  <2>2. ASSUME NEW n \in T PROVE n + 1 \in T
    <3>1. ASSUME n + 1 <= N PROVE at[n + 1] \in S \cup {null}
      <4>1. at[n] \in S \cup {null} /\ (at[n] = null => at[n + 1] = null)
            /\ (at[n] \in S => at[n + 1] = nxt[at[n]])
        BY <3>1
      <4> QED BY <4>1 DEF IsList, IsNext
    <3> QED BY <3>1
  <2> HIDE DEF T
  <2>3. T = Nat
    BY <2>1, <2>2, SetInduction, Zenon DEF T
  <2> QED BY <2>3 DEF T
<1>2. ASSUME NEW x \in S, \A n \in 0..N : at[n] # x PROVE FALSE
  <2> DEFINE Before(n) == at[n] \in S /\ rank[x] < rank[at[n]]
             T == {n \in Nat : n <= N => /\ Before(n)
                                         /\ \A i \in 0..n - 1 : at[i] \in S /\ rank[at[n]] < rank[at[i]]}
  <2>1. 0 \in T
    BY <1>2 DEF IsList
  <2>2. ASSUME NEW n \in T PROVE n + 1 \in T
    <3> SUFFICES ASSUME n + 1 <= N
                 PROVE  /\ Before(n + 1)
                        /\ \A i \in 0..n : at[i] \in S /\ rank[at[n + 1]] < rank[at[i]]
      OBVIOUS
    <3>1. /\ at[n] \in S /\ rank[x] < rank[at[n]]
          /\ \A i \in 0..n - 1 : at[i] \in S /\ rank[at[n]] < rank[at[i]]
      OBVIOUS
    <3>2. at[n + 1] = nxt[at[n]]
      BY <3>1
    <3>3. IsNext(S, at[n], at[n + 1], rank)
      BY <3>1, <3>2 DEF IsList, IsLast
    <3>4. at[n + 1] \in S /\ rank[at[n + 1]] < rank[at[n]] /\ rank[x] <= rank[at[n + 1]]
      BY <3>1, <3>3 DEF IsNext
    <3>5. rank[x] # rank[at[n + 1]]
      BY <1>2, <3>4 DEF IsList
    <3>6. ASSUME NEW i \in 0..n PROVE at[i] \in S /\ rank[at[n + 1]] < rank[at[i]]
      <4>1. CASE i = n
        BY <3>1, <3>4, <4>1
      <4>2. CASE i < n
        <5>1. rank[at[n]] < rank[at[i]] /\ at[i] \in S
          BY <3>1, <4>2
        <5> QED BY <3>1, <3>4, <5>1
      <4> QED BY <4>1, <4>2
    <3> QED BY <3>4, <3>5, <3>6
  <2> HIDE DEF T
  <2>3. T = Nat
    BY <2>1, <2>2, SetInduction, Zenon DEF T
  <2>4. \A n \in 0..N : at[n] \in S /\ \A i \in 0..n - 1 : rank[at[n]] < rank[at[i]]
    BY <2>3 DEF T
  <2> DEFINE f == [n \in 0..N |-> at[n]]
  <2>5. f \in [0..N -> S]
    BY <2>4
  <2>6. IsFiniteSet(0..N) /\ Cardinality(0..N) = N + 1 /\ Cardinality(S) \in Nat
    BY FS_Interval, FS_CardinalityType
  <2>7. PICK i \in 0..N, j \in 0..N : i # j /\ f[i] = f[j]
    <3> HIDE DEF f
    <3> QED BY <2>5, <2>6, FS_PigeonHole
  <2>8. i < j \/ j < i
    BY <2>7
  <2> QED BY <2>4, <2>7, <2>8
<1> QED BY <1>1, <1>2

\* A walk is at its end after as many steps as the list has elements.
LEMMA WalkEnds ==
  ASSUME NEW S, NEW h, NEW nxt, NEW null, NEW rank, \A x \in S : rank[x] \in Int,
         null \notin S, IsList(S, h, nxt, rank, null),
         IsFiniteSet(S), NEW N \in Nat, Cardinality(S) <= N,
         NEW at, at[0] = h, \A n \in 1..N : at[n - 1] = null => at[n] = null,
         \A n \in 1..N : at[n - 1] \in S => at[n] = nxt[at[n - 1]]
  PROVE  at[Cardinality(S)] = null
<1>1. \A n \in 0..N : at[n] \in S \cup {null}
  BY WalkMeetsList
<1> DEFINE c == Cardinality(S)
<1>2. c \in Nat
  BY FS_CardinalityType
<1> HIDE DEF c
<1> DEFINE T == {n \in Nat : n <= N /\ at[n] \in S =>
                   \A i \in 0..n - 1 : at[i] \in S /\ rank[at[n]] < rank[at[i]]}
<1>3. 0 \in T
  OBVIOUS
<1>4. ASSUME NEW n \in T PROVE n + 1 \in T
  <2> SUFFICES ASSUME n + 1 <= N, at[n + 1] \in S
               PROVE  \A i \in 0..n : at[i] \in S /\ rank[at[n + 1]] < rank[at[i]]
    OBVIOUS
  <2>1. n + 1 \in 1..N /\ (n + 1) - 1 = n /\ n \in 0..N
    OBVIOUS
  <2>2. at[n] \in S /\ at[n + 1] = nxt[at[n]]
    BY <1>1, <2>1
  <2>3. rank[at[n + 1]] < rank[at[n]]
    BY <2>2 DEF IsList, IsNext
  <2>4. \A i \in 0..n - 1 : at[i] \in S /\ rank[at[n]] < rank[at[i]]
    BY <2>2
  <2> QED BY <2>2, <2>3, <2>4
<1> HIDE DEF T
<1>5. T = Nat
  BY <1>3, <1>4, SetInduction, Zenon DEF T
<1>6. ASSUME at[c] \in S PROVE FALSE
  <2>1. \A i \in 0..c - 1 : at[i] \in S /\ rank[at[c]] < rank[at[i]]
    BY <1>2, <1>5, <1>6 DEF T, c
  <2>2. \A i, j \in 0..c : i < j => at[i] \in S /\ at[j] \in S /\ rank[at[j]] < rank[at[i]]
    <3> TAKE i, j \in 0..c
    <3> HAVE i < j
    <3>1. at[i] \in S /\ at[j] \in S
      BY <1>2, <1>6, <2>1
    <3>2. j \in T /\ j <= N
      BY <1>2, <1>5 DEF c
    <3> QED BY <1>2, <3>1, <3>2 DEF T
  <2> DEFINE f == [n \in 0..c |-> at[n]]
  <2>3. f \in [0..c -> S]
    BY <1>2, <1>6, <2>1
  <2>4. IsFiniteSet(0..c) /\ Cardinality(0..c) = c + 1
    BY <1>2, FS_Interval
  <2>5. PICK i \in 0..c, j \in 0..c : i # j /\ f[i] = f[j]
    <3> HIDE DEF f
    <3> DEFINE D == 0..c
    <3>1. Cardinality(S) < Cardinality(D) /\ IsFiniteSet(D) /\ f \in [D -> S]
      BY <1>2, <2>3, <2>4 DEF c
    <3> HIDE DEF D
    <3>2. \E i, j \in D : i # j /\ f[i] = f[j]
      BY <3>1, FS_PigeonHole
    <3> QED BY <3>2, Zenon DEF D
  <2>6. i < j \/ j < i
    BY <1>2, <2>5
  <2> QED BY <1>2, <2>2, <2>5, <2>6
<1>7. c \in 0..N
  BY <1>2 DEF c
<1> QED BY <1>1, <1>6, <1>7 DEF c

-----------------------------------------------------------------------------
\* A new element put in front of the list.
LEMMA ListPush ==
  ASSUME NEW S, NEW h, NEW nxt, NEW rank, NEW null, null \notin S, \A x \in S : rank[x] \in Int,
         IsList(S, h, nxt, rank, null),
         NEW e, e # null, e \notin S, NEW nxt2, NEW rank2, rank2[e] \in Int,
         \A x \in S : rank2[x] = rank[x] /\ rank[x] < rank2[e] /\ nxt2[x] = nxt[x],
         nxt2[e] = h
  PROVE  IsList(S \cup {e}, e, nxt2, rank2, null)
<1>1. \A x \in S : IsLast(S, x, rank) => IsLast(S \cup {e}, x, rank2)
  BY DEF IsLast
<1>2. \A x, y \in S : IsNext(S, x, y, rank) => IsNext(S \cup {e}, x, y, rank2)
  BY DEF IsNext
<1>3. CASE S = {}
  BY <1>3 DEF IsList, IsLast
<1>4. CASE S # {}
  <2>1. h \in S /\ h # null /\ IsNext(S \cup {e}, e, h, rank2)
    BY <1>4 DEF IsList, IsNext
  <2>2. \A x \in S : \/ nxt2[x] = null /\ IsLast(S \cup {e}, x, rank2)
                     \/ nxt2[x] # null /\ IsNext(S \cup {e}, x, nxt2[x], rank2)
    BY <1>1, <1>2 DEF IsList, IsNext
  <2>3. \A x, y \in S \cup {e} : rank2[x] = rank2[y] => x = y
    BY DEF IsList
  <2>4. \A x \in S \cup {e} : rank2[x] <= rank2[e]
    OBVIOUS
  <2> QED BY <2>1, <2>2, <2>3, <2>4 DEF IsList
<1> QED BY <1>3, <1>4

\* A new element put behind the last one.
LEMMA ListAppend ==
  ASSUME NEW S, NEW h, NEW nxt, NEW rank, NEW null, null \notin S, \A x \in S : rank[x] \in Int,
         IsList(S, h, nxt, rank, null),
         NEW e, e # null, e \notin S, NEW nxt2, NEW rank2, rank2[e] \in Int,
         \A x \in S : rank2[x] = rank[x] /\ rank2[e] < rank[x],
         \A x \in S : nxt2[x] = IF nxt[x] = null THEN e ELSE nxt[x],
         nxt2[e] = null
  PROVE  IsList(S \cup {e}, IF S = {} THEN e ELSE h, nxt2, rank2, null)
<1>1. \A x \in S : IsLast(S, x, rank) => IsNext(S \cup {e}, x, e, rank2)
  BY DEF IsLast, IsNext
<1>2. \A x, y \in S : IsNext(S, x, y, rank) => IsNext(S \cup {e}, x, y, rank2)
  BY DEF IsNext
<1>3. IsLast(S \cup {e}, e, rank2)
  BY DEF IsLast
<1>4. CASE S = {}
  BY <1>3, <1>4 DEF IsList
<1>5. CASE S # {}
  <2>1. h \in S /\ \A x \in S \cup {e} : rank2[x] <= rank2[h]
    BY <1>5 DEF IsList
  <2>2. \A x \in S : nxt2[x] # null /\ IsNext(S \cup {e}, x, nxt2[x], rank2)
    BY <1>1, <1>2 DEF IsList, IsNext
  <2>3. \A x, y \in S \cup {e} : rank2[x] = rank2[y] => x = y
    BY DEF IsList
  <2> QED BY <1>3, <1>5, <2>1, <2>2, <2>3 DEF IsList
<1> QED BY <1>4, <1>5

\* An element taken out of the list.
LEMMA ListRemove ==
  ASSUME NEW S, NEW h, NEW nxt, NEW rank, NEW null, null \notin S, \A x \in S : rank[x] \in Int,
         IsList(S, h, nxt, rank, null), NEW e \in S, NEW nxt2,
         \A x \in S \ {e} : nxt2[x] = IF nxt[x] = e THEN nxt[e] ELSE nxt[x]
  PROVE  IsList(S \ {e}, IF h = e THEN nxt[e] ELSE h, nxt2, rank, null)
<1>1. ASSUME NEW x \in S \ {e}
      PROVE  \/ nxt2[x] = null /\ IsLast(S \ {e}, x, rank)
             \/ nxt2[x] # null /\ IsNext(S \ {e}, x, nxt2[x], rank)
  <2>1. CASE nxt[x] # e
    BY <2>1 DEF IsList, IsLast, IsNext
  <2>2. CASE nxt[x] = e
    <3>1. IsNext(S, x, e, rank) /\ nxt2[x] = nxt[e]
      BY <2>2 DEF IsList
    <3>2. CASE nxt[e] = null
      <4>1. IsLast(S, e, rank)
        BY <3>2 DEF IsList
      <4>2. IsLast(S \ {e}, x, rank)
        BY <3>1, <4>1 DEF IsLast, IsNext, IsList
      <4> QED BY <3>1, <3>2, <4>2
    <3>3. CASE nxt[e] # null
      <4>1. IsNext(S, e, nxt[e], rank)
        BY <3>3 DEF IsList
      <4>2. IsNext(S \ {e}, x, nxt[e], rank)
        BY <3>1, <4>1 DEF IsNext, IsList
      <4> QED BY <3>1, <3>3, <4>2
    <3> QED BY <3>2, <3>3
  <2> QED BY <2>1, <2>2
<1>2. \A x, y \in S \ {e} : rank[x] = rank[y] => x = y
  BY DEF IsList
<1> DEFINE h2 == IF h = e THEN nxt[e] ELSE h
<1>3. S \ {e} = {} => h2 = null
  BY DEF IsList, IsNext
<1>4. S \ {e} # {} => h2 \in S \ {e} /\ \A x \in S \ {e} : rank[x] <= rank[h2]
  BY DEF IsList, IsNext, IsLast
<1> QED BY <1>1, <1>2, <1>3, <1>4 DEF IsList

\* An element has one predecessor.
LEMMA OnePredecessor ==
  ASSUME NEW S, NEW h, NEW nxt, NEW rank, NEW null, null \notin S, \A x \in S : rank[x] \in Int,
         IsList(S, h, nxt, rank, null), NEW e \in S, NEW x \in S, NEW y \in S, nxt[x] = e, nxt[y] = e
  PROVE  x = y
<1>1. IsNext(S, x, e, rank) /\ IsNext(S, y, e, rank)
  BY DEF IsList
<1>2. rank[x] \in Int /\ rank[y] \in Int /\ rank[e] \in Int
  OBVIOUS
<1>3. rank[x] = rank[y]
  BY <1>1, <1>2 DEF IsNext
<1> QED BY <1>3 DEF IsList

\* Two lists with opposite ranks are each other's reverse.
LEMMA ListReverse ==
  ASSUME NEW S, NEW h, NEW nxt, NEW rank, NEW l, NEW prv, NEW knar, NEW null, null \notin S,
         \A x \in S : rank[x] \in Int /\ knar[x] = -rank[x],
         IsList(S, h, nxt, rank, null), IsList(S, l, prv, knar, null)
  PROVE  /\ \A x, y \in S : nxt[x] = y <=> prv[y] = x
         /\ \A x \in S : (prv[x] = null <=> x = h) /\ (nxt[x] = null <=> x = l)
<1>1. ASSUME NEW x \in S, NEW y \in S PROVE nxt[x] = y <=> prv[y] = x
  <2>1. ASSUME nxt[x] = y PROVE prv[y] = x
    <3>1. IsNext(S, x, y, rank)
      BY <2>1 DEF IsList
    <3>2. prv[y] # null
      BY <3>1 DEF IsList, IsLast, IsNext
    <3>3. IsNext(S, y, prv[y], knar)
      BY <3>2 DEF IsList
    <3>4. rank[prv[y]] = rank[x]
      BY <3>1, <3>3 DEF IsNext
    <3> QED BY <3>3, <3>4 DEF IsList, IsNext
  <2>2. ASSUME prv[y] = x PROVE nxt[x] = y
    <3>1. IsNext(S, y, x, knar)
      BY <2>2 DEF IsList
    <3>2. nxt[x] # null
      BY <3>1 DEF IsList, IsLast, IsNext
    <3>3. IsNext(S, x, nxt[x], rank)
      BY <3>2 DEF IsList
    <3>4. rank[nxt[x]] = rank[y]
      BY <3>1, <3>3 DEF IsNext
    <3> QED BY <3>3, <3>4 DEF IsList, IsNext
  <2> QED BY <2>1, <2>2
<1>2. ASSUME NEW x \in S PROVE prv[x] = null <=> x = h
  <2>1. h \in S /\ \A y \in S : rank[y] <= rank[h]
    BY DEF IsList
  <2>2. ASSUME prv[x] = null PROVE x = h
    <3>1. knar[x] <= knar[h] /\ knar[x] = -rank[x] /\ knar[h] = -rank[h]
      BY <2>1, <2>2 DEF IsList, IsLast, IsNext
    <3>2. rank[x] = rank[h]
      BY <2>1, <3>1
    <3> QED BY <2>1, <3>2 DEF IsList
  <2>3. ASSUME prv[x] # null PROVE x # h
    BY <2>1, <2>3 DEF IsList, IsNext
  <2> QED BY <2>2, <2>3
<1>3. ASSUME NEW x \in S PROVE nxt[x] = null <=> x = l
  <2>1. l \in S /\ \A y \in S : knar[y] <= knar[l]
    BY DEF IsList
  <2>2. ASSUME nxt[x] = null PROVE x = l
    <3>1. rank[x] <= rank[l] /\ knar[x] = -rank[x] /\ knar[l] = -rank[l]
      BY <2>1, <2>2 DEF IsList, IsLast, IsNext
    <3>2. rank[x] = rank[l]
      BY <2>1, <3>1
    <3> QED BY <2>1, <3>2 DEF IsList
  <2>3. ASSUME nxt[x] # null PROVE x # l
    BY <2>1, <2>3 DEF IsList, IsNext
  <2> QED BY <2>2, <2>3
<1> QED BY <1>1, <1>2, <1>3

\* Whether a set is a list depends on the ranks and pointers of its elements only.
LEMMA ListFrame ==
  ASSUME NEW S, NEW h, NEW nxt, NEW rank, NEW null, IsList(S, h, nxt, rank, null), NEW nxt2, NEW rank2,
         \A x \in S : nxt2[x] = nxt[x] /\ rank2[x] = rank[x]
  PROVE  IsList(S, h, nxt2, rank2, null)
<1>1. \A x \in S : IsLast(S, x, rank) => IsLast(S, x, rank2)
  BY DEF IsLast
<1>2. \A x, y \in S : IsNext(S, x, y, rank) => IsNext(S, x, y, rank2)
  BY DEF IsNext
<1>3. \A x, y : IsNext(S, x, y, rank) => y \in S
  BY DEF IsNext
<1> QED BY <1>1, <1>2, <1>3 DEF IsList

\* The head of a list has the highest rank, and the next element of x is the
\* highest below x.
LEMMA ListNext ==
  ASSUME NEW S, NEW h, NEW nxt, NEW rank, NEW null, null \notin S, \A x \in S : rank[x] \in Int,
         IsList(S, h, nxt, rank, null), NEW x \in S
  PROVE  /\ h \in S /\ rank[x] <= rank[h]
         /\ nxt[x] \in S \cup {null} /\ nxt[x] # x
         /\ \A y \in S : rank[y] < rank[x] => nxt[x] \in S /\ rank[y] <= rank[nxt[x]]
BY DEF IsList, IsNext, IsLast

-----------------------------------------------------------------------------
(* Doubly linked lists: nxt leads from h down to l, prv from l up to h.    *)

\* The ranks of the one direction are the negated ranks of the other.
DoublyLinked(S, h, l, nxt, prv, rank, knar, null) ==
  /\ null \notin S /\ \A x \in S : rank[x] \in Int /\ knar[x] = -rank[x]
  /\ IsList(S, h, nxt, rank, null) /\ IsList(S, l, prv, knar, null)

\* The pointers of a doubly linked list undo each other, and end at its ends.
Linked(S, h, l, nxt, prv, rank, knar, null) ==
  /\ null \notin S /\ \A x \in S : rank[x] \in Int /\ knar[x] \in Int /\ knar[x] = -rank[x]
  /\ \A x, y \in S : nxt[x] = y <=> prv[y] = x
  /\ \A x \in S : /\ prv[x] = null <=> x = h
                  /\ nxt[x] = null <=> x = l
                  /\ nxt[x] \in S \cup {null} /\ nxt[x] # x
                  /\ prv[x] \in S \cup {null} /\ prv[x] # x
                  /\ h \in S /\ l \in S /\ rank[x] <= rank[h] /\ rank[l] <= rank[x]
  /\ S = {} => h = null /\ l = null
  /\ \A x, y \in S : rank[x] = rank[y] => x = y

\* A doubly linked list has these pointers.
LEMMA DoublyLinkedEnds ==
  ASSUME NEW S, NEW h, NEW l, NEW nxt, NEW prv, NEW rank, NEW knar, NEW null,
         DoublyLinked(S, h, l, nxt, prv, rank, knar, null)
  PROVE  Linked(S, h, l, nxt, prv, rank, knar, null)
<1>1. /\ null \notin S /\ \A x \in S : rank[x] \in Int /\ knar[x] = -rank[x]
      /\ IsList(S, h, nxt, rank, null) /\ IsList(S, l, prv, knar, null)
  BY Zenon DEF DoublyLinked
<1>2. \A x \in S : knar[x] \in Int
  BY <1>1
<1>3. /\ \A x, y \in S : nxt[x] = y <=> prv[y] = x
      /\ \A x \in S : (prv[x] = null <=> x = h) /\ (nxt[x] = null <=> x = l)
  BY <1>1, ListReverse
<1>4. \A x \in S : h \in S /\ rank[x] <= rank[h] /\ nxt[x] \in S \cup {null} /\ nxt[x] # x
  BY <1>1, ListNext
<1>5. \A x \in S : l \in S /\ knar[x] <= knar[l] /\ prv[x] \in S \cup {null} /\ prv[x] # x
  BY <1>1, <1>2, ListNext
<1>6. \A x \in S : rank[l] <= rank[x]
  BY <1>1, <1>5
<1>7. /\ S = {} => h = null /\ l = null
      /\ \A x, y \in S : rank[x] = rank[y] => x = y
  BY <1>1 DEF IsList
<1> QED BY <1>1, <1>2, <1>3, <1>4, <1>5, <1>6, <1>7, Zenon DEF Linked

\* A new element before the head.
Pushed(S, h, nxt, prv, rank, knar, null, e, nxt2, prv2, rank2, knar2) ==
  /\ e \notin S /\ e # null /\ nxt2[e] = h /\ prv2[e] = null /\ rank2[e] \in Int /\ knar2[e] = -rank2[e]
  /\ \A x \in S : /\ nxt2[x] = nxt[x] /\ rank2[x] = rank[x] /\ knar2[x] = knar[x]
                  /\ prv2[x] = IF x = h THEN e ELSE prv[x]
                  /\ rank[x] < rank2[e]

\* A new element in front of a doubly linked list.
LEMMA DoublyLinkedPush ==
  ASSUME NEW S, NEW h, NEW l, NEW nxt, NEW prv, NEW rank, NEW knar, NEW null,
         NEW e, NEW nxt2, NEW prv2, NEW rank2, NEW knar2,
         DoublyLinked(S, h, l, nxt, prv, rank, knar, null),
         Pushed(S, h, nxt, prv, rank, knar, null, e, nxt2, prv2, rank2, knar2)
  PROVE  DoublyLinked(S \cup {e}, e, IF l = null THEN e ELSE l, nxt2, prv2, rank2, knar2, null)
<1>0. /\ e \notin S /\ e # null /\ nxt2[e] = h /\ prv2[e] = null /\ rank2[e] \in Int /\ knar2[e] = -rank2[e]
      /\ \A x \in S : /\ nxt2[x] = nxt[x] /\ rank2[x] = rank[x] /\ knar2[x] = knar[x]
                      /\ prv2[x] = IF x = h THEN e ELSE prv[x]
                      /\ rank[x] < rank2[e]
  BY Zenon DEF Pushed
<1>1. /\ IsList(S, h, nxt, rank, null) /\ IsList(S, l, prv, knar, null)
  BY Zenon DEF DoublyLinked
<1>a. Linked(S, h, l, nxt, prv, rank, knar, null)
  BY DoublyLinkedEnds, Zenon
<1>2. /\ null \notin S /\ \A x \in S : rank[x] \in Int /\ knar[x] \in Int /\ knar[x] = -rank[x]
      /\ \A x \in S : (prv[x] = null <=> x = h) /\ l \in S
      /\ S = {} => l = null
  BY <1>a, Zenon DEF Linked
<1>3. IsList(S \cup {e}, e, nxt2, rank2, null)
  BY <1>0, <1>1, <1>2, ListPush
<1>4. \A x \in S : knar2[x] = knar[x] /\ knar2[e] < knar[x]
  BY <1>0, <1>2
<1>5. knar2[e] \in Int
  BY <1>0
<1>6. \A x \in S : prv2[x] = IF prv[x] = null THEN e ELSE prv[x]
  BY <1>0, <1>2
<1>7. IsList(S \cup {e}, IF S = {} THEN e ELSE l, prv2, knar2, null)
  <2>1. e \notin S /\ e # null /\ prv2[e] = null /\ null \notin S /\ \A x \in S : knar[x] \in Int
    BY <1>0, <1>2
  <2> QED BY <1>1, <1>4, <1>5, <1>6, <2>1, ListAppend
<1>8. (IF S = {} THEN e ELSE l) = (IF l = null THEN e ELSE l)
  BY <1>2
<1>9. \A x \in S \cup {e} : rank2[x] \in Int /\ knar2[x] = -rank2[x]
  BY <1>0, <1>2
<1> QED BY <1>0, <1>2, <1>3, <1>7, <1>8, <1>9 DEF DoublyLinked

\* An element is taken out.
Removed(S, nxt, prv, e, nxt2, prv2) ==
  \A x \in S \ {e} : /\ nxt2[x] = IF x = prv[e] THEN nxt[e] ELSE nxt[x]
                     /\ prv2[x] = IF x = nxt[e] THEN prv[e] ELSE prv[x]

\* An element taken out of a doubly linked list.
LEMMA DoublyLinkedRemove ==
  ASSUME NEW S, NEW h, NEW l, NEW nxt, NEW prv, NEW rank, NEW knar, NEW null,
         DoublyLinked(S, h, l, nxt, prv, rank, knar, null), NEW e \in S,
         NEW nxt2, NEW prv2, Removed(S, nxt, prv, e, nxt2, prv2)
  PROVE  DoublyLinked(S \ {e}, IF h = e THEN nxt[e] ELSE h, IF l = e THEN prv[e] ELSE l,
                      nxt2, prv2, rank, knar, null)
<1>1. /\ IsList(S, h, nxt, rank, null) /\ IsList(S, l, prv, knar, null)
  BY Zenon DEF DoublyLinked
<1>a. Linked(S, h, l, nxt, prv, rank, knar, null)
  BY DoublyLinkedEnds, Zenon
<1>2. /\ null \notin S /\ \A x \in S : rank[x] \in Int /\ knar[x] \in Int
      /\ \A x, y \in S : nxt[x] = y <=> prv[y] = x
  BY <1>a, Zenon DEF Linked
<1>3. \A x \in S \ {e} : nxt2[x] = IF nxt[x] = e THEN nxt[e] ELSE nxt[x]
  BY <1>2 DEF Removed
<1>4. \A x \in S \ {e} : prv2[x] = IF prv[x] = e THEN prv[e] ELSE prv[x]
  BY <1>2 DEF Removed
<1>5. IsList(S \ {e}, IF h = e THEN nxt[e] ELSE h, nxt2, rank, null)
  <2>1. null \notin S /\ \A x \in S : rank[x] \in Int
    BY <1>2
  <2> QED BY <1>1, <1>3, <2>1, ListRemove, Zenon
<1>6. IsList(S \ {e}, IF l = e THEN prv[e] ELSE l, prv2, knar, null)
  <2>1. null \notin S /\ \A x \in S : knar[x] \in Int
    BY <1>2
  <2> QED BY <1>1, <1>4, <2>1, ListRemove, Zenon
<1> QED BY <1>5, <1>6 DEF DoublyLinked

\* An element other than the head is taken out and put before the head.
ToFront(S, h, nxt, prv, rank, knar, null, e, nxt2, prv2, rank2, knar2) ==
  /\ e # h /\ nxt2[e] = h /\ prv2[e] = null /\ rank2[e] = rank[h] + 1 /\ knar2[e] = -rank2[e]
  /\ \A x \in S \ {e} : /\ nxt2[x] = IF x = prv[e] THEN nxt[e] ELSE nxt[x]
                        /\ prv2[x] = IF x = h THEN e ELSE IF x = nxt[e] THEN prv[e] ELSE prv[x]
                        /\ rank2[x] = rank[x] /\ knar2[x] = knar[x]

\* An element moved to the front of a doubly linked list.
LEMMA DoublyLinkedToFront ==
  ASSUME NEW S, NEW h, NEW l, NEW nxt, NEW prv, NEW rank, NEW knar, NEW null,
         NEW e \in S, NEW nxt2, NEW prv2, NEW rank2, NEW knar2,
         DoublyLinked(S, h, l, nxt, prv, rank, knar, null),
         ToFront(S, h, nxt, prv, rank, knar, null, e, nxt2, prv2, rank2, knar2)
  PROVE  DoublyLinked(S, e, IF nxt[e] = null THEN prv[e] ELSE l, nxt2, prv2, rank2, knar2, null)
<1> DEFINE T == S \ {e}
           prv1 == [x \in S |-> IF x = nxt[e] THEN prv[e] ELSE prv[x]]
           l1 == IF l = e THEN prv[e] ELSE l
<1>0. /\ e # h /\ nxt2[e] = h /\ prv2[e] = null /\ rank2[e] = rank[h] + 1 /\ knar2[e] = -rank2[e]
      /\ \A x \in T : /\ nxt2[x] = IF x = prv[e] THEN nxt[e] ELSE nxt[x]
                      /\ prv2[x] = IF x = h THEN e ELSE IF x = nxt[e] THEN prv[e] ELSE prv[x]
                      /\ rank2[x] = rank[x] /\ knar2[x] = knar[x]
  BY Zenon DEF ToFront
<1>a. Linked(S, h, l, nxt, prv, rank, knar, null)
  BY DoublyLinkedEnds, Zenon
<1>1. /\ null \notin S /\ \A x \in S : rank[x] \in Int
      /\ \A x \in S : /\ prv[x] = null <=> x = h
                      /\ nxt[x] = null <=> x = l
                      /\ h \in S /\ l \in S /\ rank[x] <= rank[h]
  BY <1>a, Zenon DEF Linked
<1>2. \A x \in T : prv1[x] = (IF x = nxt[e] THEN prv[e] ELSE prv[x])
  OBVIOUS
<1>3. Removed(S, nxt, prv, e, nxt2, prv1)
  BY <1>0, <1>2 DEF Removed
<1>4. \A x \in T : prv2[x] = IF x = h THEN e ELSE prv1[x]
  BY <1>0, <1>2
<1> HIDE DEF prv1
<1>5. DoublyLinked(T, h, l1, nxt2, prv1, rank, knar, null)
  <2>1. DoublyLinked(T, IF h = e THEN nxt[e] ELSE h, l1, nxt2, prv1, rank, knar, null)
    BY <1>3, DoublyLinkedRemove, Zenon
  <2>2. (IF h = e THEN nxt[e] ELSE h) = h
    BY <1>0
  <2> QED BY <2>1, <2>2, Zenon
<1>6. T \cup {e} = S
  OBVIOUS
<1>7. Pushed(T, h, nxt2, prv1, rank, knar, null, e, nxt2, prv2, rank2, knar2)
  <2>1. e \notin T /\ e # null /\ rank2[e] \in Int /\ \A x \in T : rank[x] < rank2[e]
    BY <1>0, <1>1
  <2> QED BY <1>0, <1>4, <2>1, Zenon DEF Pushed
<1>8. (IF l1 = null THEN e ELSE l1) = (IF nxt[e] = null THEN prv[e] ELSE l)
  BY <1>0, <1>1
<1> HIDE DEF T, l1
<1>9. DoublyLinked(T \cup {e}, e, IF l1 = null THEN e ELSE l1, nxt2, prv2, rank2, knar2, null)
  BY <1>5, <1>7, DoublyLinkedPush, Zenon
<1> QED BY <1>6, <1>8, <1>9, Zenon
=============================================================================
