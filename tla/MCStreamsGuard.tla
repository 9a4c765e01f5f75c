--------------------------- MODULE MCStreamsGuard ---------------------------
(***************************************************************************)
(* Model values for StreamsGuard: a thread that writes, one scope at a     *)
(* time, one that reads, two deep, and one that does both, four deep.      *)
(***************************************************************************)
EXTENDS StreamsGuard

CONSTANTS r, w, b

EachItsKind == [t \in Thread |-> IF t = r THEN {"read"} ELSE IF t = w THEN {"write"} ELSE Kind]
Depths == [t \in Thread |-> IF t = b THEN 4 ELSE IF t = r THEN 2 ELSE 1]
=============================================================================
