----------------------------- MODULE MCAllocator -----------------------------
(***************************************************************************)
(* Model values for the runs of Allocator: an index, a table that is       *)
(* truncated and a table that is updated share the pages of one file.      *)
(***************************************************************************)
EXTENDS Allocator, TLC

CONSTANTS index, bulk, cells, s1, s2, freeKey, noKey

\* records of two lengths in one page; an updated row is longer than its control
Sizes == [k \in Key |-> IF k = cells THEN {3} ELSE {1, 2}]

Symmetry == Permutations({s1, s2})
=============================================================================
