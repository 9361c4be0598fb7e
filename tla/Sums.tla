-------------------------------- MODULE Sums --------------------------------
(* The sum of the w[x] for the x in S, as the number of pairs there are to *)
(* count: a sum that needs no recursion.                                   *)
EXTENDS Integers, FiniteSets

Pairs(S, w) == UNION {{x} \X (1..w[x]) : x \in S}
SumOver(S, w) == Cardinality(Pairs(S, w))
=============================================================================
