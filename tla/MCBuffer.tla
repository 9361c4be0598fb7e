------------------------------ MODULE MCBuffer ------------------------------
(* Programs that share three Buffers, that wrap device blocks of their own *)
(* and share two, that copy Buffers between two GPU runtimes, and that     *)
(* share two Buffers and move their data between host and device, with and *)
(* without a runtime that can crop; and one that copies a Buffer onto      *)
(* itself.                                                                 *)
EXTENDS HalideBuffer, TLC

Use(n, a, k, methods) ==
  [objects : kSubset(n, Objects), allocations : {1..a}, interfaces : kSubset(k, Interfaces),
   methods : {methods}]
MCPrograms ==
  Use(3, 1, 1, {"share"}) \cup Use(2, 2, 1, {"share", "wrap"})
  \cup Use(2, 2, 2, {"transfer", "copy", "wrap"}) \cup Use(2, 2, 1, {"share", "transfer"})
  \cup Use(2, 2, 1, {"share", "transfer", "nocrop"})
  \cup Use(1, 2, 1, {"transfer", "copy", "self"})
Symmetric == Permutations(Objects) \cup Permutations(Interfaces)
=============================================================================
