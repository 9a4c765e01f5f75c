------------------------------- MODULE MCMvcc -------------------------------
(***************************************************************************)
(* Model values for the runs of Mvcc: two sessions, r and w, and a table   *)
(* of two to four record addresses.                                        *)
(***************************************************************************)
EXTENDS Mvcc

CONSTANTS r, w

\* who claims which rows
AllClaim   == [s \in Session |-> Addr]
OnlyWClaims == [s \in Session |-> IF s = w THEN Addr ELSE {}]
ClaimsApart == [s \in Session |-> IF s = w THEN {1, 4} ELSE {2}]

\* who sets which level by hand
NoLevels     == [s \in Session |-> {}]
RMaySnapshot == [s \in Session |-> IF s = r THEN {"SI"} ELSE {}]
RMayRepeat   == [s \in Session |-> IF s = r THEN {"RR", "RU"} ELSE {}]
MaySerialize == [s \in Session |-> {"SER"}]
AnyMaySerialize == [s \in Session |-> IF s = r THEN {"RU", "RR", "SER"} ELSE {"SER"}]

\* how many statements: one each, or two of the writer's beside the reader's one
Once   == [s \in Session |-> 1]
WTwice == [s \in Session |-> IF s = w THEN 2 ELSE 1]
=============================================================================
