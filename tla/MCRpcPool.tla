----------------------------- MODULE MCRpcPool -----------------------------
(***************************************************************************)
(* Model values for the run of RpcPool: a browser without a certificate    *)
(* and one that shows one.                                                 *)
(***************************************************************************)
EXTENDS RpcPool

CONSTANTS v1, v2, w1, w2, alice

Subjects == [v \in Visitor |-> IF v = v1 THEN Nobody ELSE alice]
=============================================================================
