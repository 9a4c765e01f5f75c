---------------------------- MODULE AtomicStore ----------------------------
(***************************************************************************)
(* What the store promises of transactions across crashes: the rows a new  *)
(* reader finds change by whole transactions only, a killed process loses  *)
(* no commit and harms one of the sets in Spoils, and a power loss can     *)
(* harm more; what either harms is of transactions whose commit was never  *)
(* acknowledged.                                                           *)
(***************************************************************************)
EXTENDS Naturals

CONSTANTS
    Txn, Addr, InitRows,
    Spoils   \* the sets of rows a kill may harm

VARIABLES
    store,   \* the row versions a new reader finds
    made,    \* made[t]: the versions t adds
    gone,    \* gone[t]: the versions t removes or replaces
    phase,   \* phase[t]
    losses   \* power losses so far

vars == <<store, made, gone, phase, losses>>

Phase == {"new", "open", "committed", "acked", "over"}

Init ==
    /\ store = InitRows
    /\ made  = [t \in Txn |-> {}]
    /\ gone  = [t \in Txn |-> {}]
    /\ phase = [t \in Txn |-> "new"]
    /\ losses = 0

Begin(t) ==
    /\ phase[t] = "new"
    /\ phase' = [phase EXCEPT ![t] = "open"]
    /\ UNCHANGED <<store, made, gone, losses>>

Stage(t, new, old) ==
    /\ phase[t] = "open"
    /\ new \cap store = {} /\ old \subseteq store \union made[t]
    /\ made' = [made EXCEPT ![t] = @ \union new]
    /\ gone' = [gone EXCEPT ![t] = @ \union old]
    /\ UNCHANGED <<store, phase, losses>>

\* the one instant at which all of a transaction's rows change together
Commit(t) ==
    /\ phase[t] = "open"
    /\ store' = (store \ gone[t]) \union (made[t] \ gone[t])
    /\ phase' = [phase EXCEPT ![t] = "committed"]
    /\ UNCHANGED <<made, gone, losses>>

Acknowledge(t) ==
    /\ phase[t] = "committed"
    /\ phase' = [phase EXCEPT ![t] = "acked"]
    /\ UNCHANGED <<store, made, gone, losses>>

Abort(t) ==
    /\ phase[t] = "open"
    /\ phase' = [phase EXCEPT ![t] = "over"]
    /\ UNCHANGED <<store, made, gone, losses>>

Ended == [t \in Txn |-> IF phase[t] = "open" THEN "over" ELSE phase[t]]

\* the rows only an unacknowledged commit has spoken for
InDoubt ==
    LET committed == {t \in Txn : phase[t] = "committed"}
        acked     == {t \in Txn : phase[t] = "acked"}
    IN (UNION {made[t] \union gone[t] : t \in committed}) \ (UNION {gone[t] : t \in acked})

Loses(S) == store' = (store \ S) \union (S \ store)

Kill ==
    /\ phase' = Ended
    /\ \E S \in Spoils : S \subseteq InDoubt /\ Loses(S)
    /\ UNCHANGED <<made, gone, losses>>

PowerLoss ==
    /\ losses' = losses + 1
    /\ phase' = Ended
    /\ \E S \in SUBSET InDoubt : Loses(S)
    /\ UNCHANGED <<made, gone>>

Next ==
    \/ Kill \/ PowerLoss
    \/ \E t \in Txn :
         \/ Begin(t) \/ Commit(t) \/ Acknowledge(t) \/ Abort(t)
         \/ \E new, old \in SUBSET Addr : Stage(t, new, old)

Spec == Init /\ [][Next]_vars
=============================================================================
