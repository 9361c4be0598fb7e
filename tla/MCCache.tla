------------------------------ MODULE MCCache -------------------------------
(* Three realizations: two share a hash chain, and one of them is a tuple  *)
(* of two buffers.  Either one is held at a time and the cache is pruned   *)
(* and resized, or three are held at once and what they store fits.        *)
EXTENDS MemoizationCache, TLC

CONSTANTS ka, kb, kc

MCHash == [k \in Keys |-> IF k = kc THEN 2 ELSE 1]
MCTupleCount == [k \in Keys |-> IF k = kb THEN 2 ELSE 1]
MCBytes == [k \in Keys |-> IF k = kb THEN 2 ELSE 1]
Pruned(n) == [realizations |-> n, blocks |-> 4, keys |-> Keys, sizes |-> {0, 1}]
Shared == [realizations |-> 3, blocks |-> 5, keys |-> {ka, kb}, sizes |-> {}]
OneOrShared == {Pruned(1), Shared}
TwoPruned == {[Pruned(2) EXCEPT !.sizes = {}]}
Symmetry == Permutations(Entries) \cup Permutations(Blocks) \cup Permutations(Clients)
=============================================================================
