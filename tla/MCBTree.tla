------------------------------ MODULE MCBTree -------------------------------
(***************************************************************************)
(* Values for the runs of BTree: nodes of two to four keys, as those of    *)
(* src/MVCCS-cicili/tail-check.cpp, trees of one, two and three levels to  *)
(* begin with, and keys mapped and unmapped at their left and right ends.  *)
(***************************************************************************)
EXTENDS BTree

Evens(n) == [i \in 1..n |-> 2 * i]

\* A leaf with room for one more; a full root over a full leaf and four of two keys;
\* three levels with as few keys as they can have; the same with a full leaf.
Trees == {Evens(3), Evens(14) \o <<1, 3>>, Evens(17), Evens(17) \o <<7, 9>>}

Ends == 1..10 \cup {34, 35}
=============================================================================
