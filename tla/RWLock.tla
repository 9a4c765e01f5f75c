------------------------------- MODULE RWLock -------------------------------
(***************************************************************************)
(* What the Streams guard promises its users: the two streams of a store   *)
(* belong to one thread that writes, or to any number that only read.      *)
(***************************************************************************)
CONSTANT Thread

VARIABLES writing, reading   \* the threads that own the streams, each way

Init == writing = {} /\ reading = {}

Write(t) ==
    /\ writing = {} /\ reading = {}
    /\ writing' = {t}
    /\ UNCHANGED reading

Read(t) ==
    /\ writing = {}
    /\ reading' = reading \union {t}
    /\ UNCHANGED writing

Give(t) ==
    /\ writing' = writing \ {t}
    /\ reading' = reading \ {t}

Next == \E t \in Thread : Write(t) \/ Read(t) \/ Give(t)

Spec == Init /\ [][Next]_<<writing, reading>>
=============================================================================
