-------------------------------- MODULE Desk --------------------------------
(***************************************************************************)
(* What a pool of workers promises its clients: first come first served,   *)
(* each once, never more served at a time than there are workers, nobody   *)
(* turned away while there is room, nobody who waits sent off except by a  *)
(* desk that closes for good.                                              *)
(***************************************************************************)
EXTENDS Naturals, Sequences, FiniteSets

CONSTANTS
    Client,
    Places,   \* how many can be served at once
    Room      \* how many may wait (0: no limit)

VARIABLES
    waiting,  \* a queue of clients
    serving,  \* who is being served
    past,     \* who was served, turned away or sent off
    closing   \* the desk takes nobody in any more

deskVars == <<waiting, serving, past, closing>>

InLine == {waiting[i] : i \in DOMAIN waiting}
New(c) == c \notin InLine \cup serving \cup past
Full == Room > 0 /\ Len(waiting) >= Room

Admit(c) ==
    /\ New(c) /\ ~closing /\ ~Full
    /\ waiting' = Append(waiting, c)
    /\ UNCHANGED <<serving, past, closing>>

TurnAway(c) ==
    /\ New(c) /\ (closing \/ Full)
    /\ past' = past \cup {c}
    /\ UNCHANGED <<waiting, serving, closing>>

Call ==
    /\ waiting # << >> /\ Cardinality(serving) < Places
    /\ serving' = serving \cup {Head(waiting)}
    /\ waiting' = Tail(waiting)
    /\ UNCHANGED <<past, closing>>

Finish(c) ==
    /\ c \in serving
    /\ serving' = serving \ {c}
    /\ past' = past \cup {c}
    /\ UNCHANGED <<waiting, closing>>

\* closing up, with those who wait served first or sent off
CloseUp ==
    /\ closing' = TRUE
    /\ \/ UNCHANGED <<waiting, past>>
       \/ waiting' = << >> /\ past' = past \cup InLine
    /\ UNCHANGED serving

Init == waiting = << >> /\ serving = {} /\ past = {} /\ closing = FALSE

Next ==
    \/ \E c \in Client : Admit(c) \/ TurnAway(c) \/ Finish(c)
    \/ Call \/ CloseUp

Spec == Init /\ [][Next]_deskVars
=============================================================================
