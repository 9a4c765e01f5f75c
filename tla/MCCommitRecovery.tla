-------------------------- MODULE MCCommitRecovery --------------------------
(***************************************************************************)
(* Model values for the runs of CommitRecovery.  Transactions and the      *)
(* addresses not yet used are interchangeable.                             *)
(***************************************************************************)
EXTENDS CommitRecovery, TLC

CONSTANTS t1, t2, a1, a2, a3, nobody

Symmetry == Permutations({t1, t2}) \union Permutations({a2, a3})
=============================================================================
