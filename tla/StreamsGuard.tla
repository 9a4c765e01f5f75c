---------------------------- MODULE StreamsGuard ----------------------------
(***************************************************************************)
(* The Streams guard (MVCCS-cicili/mvccs-lib.cicili): the one lock of a    *)
(* store, taken by scope, re-entrant by thread, given back around every    *)
(* cursor callback, and the gate before it that makes readers stand down   *)
(* for a queued writer.                                                    *)
(*                                                                         *)
(* A thread's stack holds its live Streams objects and, between them, the  *)
(* callback windows it is in.  The guard kind "read" stands for a          *)
(* constructor that finds tl_want_shared set and the thread eligible;      *)
(* "write" for every other one.  The rwlock, the condition variable and    *)
(* its mutex are those of pthreads; spurious wakeups are left out.         *)
(***************************************************************************)
EXTENDS Integers, Sequences, FiniteSets

CONSTANTS
    Thread,
    Kinds,      \* Kinds[t]: the guards the thread constructs
    MaxDepth,   \* bound: MaxDepth[t] scopes open at once
    Standdowns  \* GATE_STANDDOWNS

Kind == {"read", "write"}

ASSUME GuardAssumption ==
    /\ Kinds \in [Thread -> SUBSET Kind]
    /\ MaxDepth \in [Thread -> Nat]
    /\ Standdowns \in Nat

VARIABLES
    writer,   \* the rwlock: the threads that hold it exclusively
    readers,  \* the rwlock: the threads that hold it shared
    waiting,  \* writers_waiting
    dirty,    \* the canonical streams hold bytes the files do not
    stack,    \* stack[t]: the scopes the thread is in, innermost last
    held,     \* held[t]: the guard tl_streams_held names, 0 when nil
    shared,   \* shared[t]: the guard tl_streams_shared names, 0 when nil
    pc,       \* pc[t]: where the thread is in lock() or unlock(), "run" outside
    target,   \* target[t]: the guard lock() is taking
    rounds    \* rounds[t]: how often the thread has stood down

vars == <<writer, readers, waiting, dirty, stack, held, shared, pc, target, rounds>>

\* a scope: a Streams object, which is "mine" when its lock() took the lock, or a
\* callback window over the guard "of", which is "mine" when its unlock() let it go
Scope == [kind : Kind \union {"window"}, mine : BOOLEAN, shared : BOOLEAN, of : Nat]

Guard(k, mine, sh) == [kind |-> k, mine |-> mine, shared |-> sh, of |-> 0]
Window(i, mine) == [kind |-> "window", mine |-> mine, shared |-> FALSE, of |-> i]

Depth(t) == Len(stack[t])
Top(t)   == stack[t][Depth(t)]

\* a thread runs its own code: procedure code at the bottom or in a window,
\* engine code directly under a guard
Free(t)  == pc[t] = "run" /\ (Depth(t) = 0 \/ Top(t).kind = "window")
Under(t) == pc[t] = "run" /\ Depth(t) > 0 /\ Top(t).kind # "window"

-----------------------------------------------------------------------------
(* The gate                                                                *)

\* lock() on the guard at depth i: stand down first, or announce first
Locking(t, i, g) ==
    /\ pc'     = [pc EXCEPT ![t] = IF g.shared THEN "gate" ELSE "enqueue"]
    /\ target' = [target EXCEPT ![t] = i]
    /\ rounds' = [rounds EXCEPT ![t] = 0]

\* writers_enqueue: announced before blocking
Enqueue(t) ==
    /\ pc[t] = "enqueue"
    /\ waiting' = waiting + 1
    /\ pc' = [pc EXCEPT ![t] = "wrlock"]
    /\ UNCHANGED <<writer, readers, dirty, stack, held, shared, target, rounds>>

WrLock(t) ==
    /\ pc[t] = "wrlock" /\ writer = {} /\ readers = {}
    /\ writer' = {t}
    /\ pc' = [pc EXCEPT ![t] = "granted"]
    /\ UNCHANGED <<readers, waiting, dirty, stack, held, shared, target, rounds>>

Asleep == {t \in Thread : pc[t] = "asleep"}

\* mutant: only the grant that empties the queue wakes the readers
GrantedLast(t) ==
    /\ pc[t] = "granted"
    /\ waiting' = waiting - 1
    /\ LET woken == IF waiting = 1 THEN Asleep ELSE {}
       IN  /\ pc' = [u \in Thread |-> IF u = t THEN "run" ELSE IF u \in woken THEN "gate" ELSE pc[u]]
           /\ rounds' = [u \in Thread |-> IF u \in woken THEN rounds[u] + 1 ELSE rounds[u]]
    /\ held' = [held EXCEPT ![t] = target[t]]
    /\ UNCHANGED <<writer, readers, dirty, stack, shared, target>>

\* writers_granted: every grant wakes every reader that stands down
Granted(t) ==
    /\ pc[t] = "granted"
    /\ waiting' = waiting - 1
    /\ pc' = [u \in Thread |-> IF u = t THEN "run" ELSE IF u \in Asleep THEN "gate" ELSE pc[u]]
    /\ rounds' = [u \in Thread |-> IF u \in Asleep THEN rounds[u] + 1 ELSE rounds[u]]
    /\ held' = [held EXCEPT ![t] = target[t]]
    /\ UNCHANGED <<writer, readers, dirty, stack, shared, target>>

\* mutants: a reader stands down for nobody, or none ever does
StandDownBlind(t) ==
    /\ pc[t] = "gate"
    /\ pc' = [pc EXCEPT ![t] = IF rounds[t] < Standdowns THEN "asleep" ELSE "rdlock"]
    /\ UNCHANGED <<writer, readers, waiting, dirty, stack, held, shared, target, rounds>>
StandDownNever(t) ==
    /\ pc[t] = "gate"
    /\ pc' = [pc EXCEPT ![t] = "rdlock"]
    /\ UNCHANGED <<writer, readers, waiting, dirty, stack, held, shared, target, rounds>>

\* writers_stand_down: asleep while a writer is queued, a bounded number of times
StandDown(t) ==
    /\ pc[t] = "gate"
    /\ pc' = [pc EXCEPT ![t] = IF waiting > 0 /\ rounds[t] < Standdowns THEN "asleep" ELSE "rdlock"]
    /\ UNCHANGED <<writer, readers, waiting, dirty, stack, held, shared, target, rounds>>

RdLock(t) ==
    /\ pc[t] = "rdlock" /\ writer = {}
    /\ readers' = readers \union {t}
    /\ shared'  = [shared EXCEPT ![t] = target[t]]
    /\ pc'      = [pc EXCEPT ![t] = "run"]
    /\ UNCHANGED <<writer, waiting, dirty, stack, held, target, rounds>>

-----------------------------------------------------------------------------
(* The guard's scope                                                       *)

\* mutant: an unlock that leaves the name
ReleasedStillNamed(t, S) ==
    /\ readers' = IF shared[t] \in S THEN readers \ {t} ELSE readers
    /\ shared'  = [shared EXCEPT ![t] = IF @ \in S THEN 0 ELSE @]
    /\ pc'      = [pc EXCEPT ![t] = IF held[t] \in S THEN "flush" ELSE @]
    /\ UNCHANGED <<writer, dirty, held>>

\* unlock() of the guards at the depths S: at most one of them is locked, and
\* it is the one the thread's names point at. The shared side is given back; the
\* exclusive one has its bytes to flush first.
Released(t, S) ==
    /\ readers' = IF shared[t] \in S THEN readers \ {t} ELSE readers
    /\ held'    = [held EXCEPT ![t] = IF @ \in S THEN 0 ELSE @]
    /\ shared'  = [shared EXCEPT ![t] = IF @ \in S THEN 0 ELSE @]
    /\ pc'      = [pc EXCEPT ![t] = IF held[t] \in S THEN "flush" ELSE @]
    /\ UNCHANGED <<writer, dirty>>

Flushes(t) == dirty' = FALSE /\ UNCHANGED writer
GivesBack(t) == writer' = writer \ {t} /\ UNCHANGED dirty

\* mutant: the lock is given back, then the streams are flushed
UnlockFirst(t) ==
    /\ \/ pc[t] = "flush" /\ GivesBack(t) /\ pc' = [pc EXCEPT ![t] = "unlock"]
       \/ pc[t] = "unlock" /\ Flushes(t) /\ pc' = [pc EXCEPT ![t] = "run"]
    /\ UNCHANGED <<readers, waiting, stack, held, shared, target, rounds>>

\* the streams are flushed, then the lock is given back
Unlock(t) ==
    /\ \/ pc[t] = "flush" /\ Flushes(t) /\ pc' = [pc EXCEPT ![t] = "unlock"]
       \/ pc[t] = "unlock" /\ GivesBack(t) /\ pc' = [pc EXCEPT ![t] = "run"]
    /\ UNCHANGED <<readers, waiting, stack, held, shared, target, rounds>>

\* mutant: any guard under another is a no-op
NestedAlways(t, k) == held[t] # 0 \/ shared[t] # 0

\* a guard under the exclusive side is a no-op; under the shared side, a read is
Nested(t, k) == held[t] # 0 \/ (shared[t] # 0 /\ k = "read")

\* the constructor; a write under the shared side is refused before it waits
Construct(t, k) ==
    /\ pc[t] = "run" /\ k \in Kinds[t] /\ Depth(t) < MaxDepth[t]
    /\ \/ /\ Nested(t, k)
          /\ stack' = [stack EXCEPT ![t] = Append(@, Guard(k, FALSE, FALSE))]
          /\ UNCHANGED <<pc, target, rounds>>
       \/ /\ ~Nested(t, k) /\ shared[t] = 0
          /\ LET g == Guard(k, TRUE, k = "read")
             IN  /\ stack' = [stack EXCEPT ![t] = Append(@, g)]
                 /\ Locking(t, Depth(t) + 1, g)
    /\ UNCHANGED <<writer, readers, waiting, dirty, held, shared>>

Destroy(t) ==
    /\ Under(t)
    /\ Released(t, {Depth(t)})
    /\ stack' = [stack EXCEPT ![t] = SubSeq(@, 1, Depth(t) - 1)]
    /\ UNCHANGED <<waiting, target, rounds>>

\* a cursor's callback window lets its own guard go, an index walk's the guard
\* the thread holds, wherever on the stack that is
LetGo(t) == {Depth(t)} \union ({held[t], shared[t]} \ {0})

WindowOpen(t) ==
    /\ Under(t) /\ Depth(t) < MaxDepth[t]
    /\ \E i \in LetGo(t) :
         /\ Released(t, {i})
         /\ stack' = [stack EXCEPT ![t] = Append(@, Window(i, i \in {held[t], shared[t]}))]
    /\ UNCHANGED <<waiting, target, rounds>>

\* the callback is back: lock() again, which a nested guard and one still
\* locked pass through
WindowClose(t) ==
    /\ pc[t] = "run" /\ Depth(t) > 0 /\ Top(t).kind = "window"
    /\ stack' = [stack EXCEPT ![t] = SubSeq(@, 1, Depth(t) - 1)]
    /\ LET g == stack[t][Top(t).of]
       IN IF g.mine /\ Top(t).of \notin {held[t], shared[t]}
          THEN Locking(t, Top(t).of, g)
          ELSE UNCHANGED <<pc, target, rounds>>
    /\ UNCHANGED <<writer, readers, waiting, dirty, held, shared>>

\* procedure code runs where the thread holds no guard (no procedure constructs
\* one): at the bottom, and in a window that has let a guard go.  A window that
\* has not, a rebuild's over the table's own cursor, runs the engine's callback.
Procedure(t) == {0} \union {i \in 1 .. Depth(t) : stack[t][i].kind = "window" /\ stack[t][i].mine}

\* an exception unwinds to the procedure code that catches it: the destructors
\* run, the windows are not closed
Throw(t) ==
    /\ pc[t] = "run"
    /\ \E k \in Procedure(t) \ {Depth(t)} :
         /\ stack' = [stack EXCEPT ![t] = SubSeq(@, 1, k)]
         /\ Released(t, (k + 1) .. Depth(t))
    /\ UNCHANGED <<waiting, target, rounds>>

\* a write through the canonical streams
Write(t) ==
    /\ Under(t) /\ Top(t).kind = "write"
    /\ dirty' = TRUE
    /\ UNCHANGED <<writer, readers, waiting, stack, held, shared, pc, target, rounds>>

-----------------------------------------------------------------------------
Init ==
    /\ writer = {} /\ readers = {} /\ waiting = 0 /\ dirty = FALSE
    /\ stack  = [t \in Thread |-> <<>>]
    /\ held   = [t \in Thread |-> 0]
    /\ shared = [t \in Thread |-> 0]
    /\ pc     = [t \in Thread |-> "run"]
    /\ target = [t \in Thread |-> 0]
    /\ rounds = [t \in Thread |-> 0]

Step(t) ==
    \/ Enqueue(t) \/ WrLock(t) \/ Granted(t) \/ StandDown(t) \/ RdLock(t)
    \/ \E k \in Kind : Construct(t, k)
    \/ Destroy(t) \/ WindowOpen(t) \/ WindowClose(t) \/ Throw(t) \/ Write(t) \/ Unlock(t)

Next == \E t \in Thread : Step(t)

Spec == Init /\ [][Next]_vars

\* the code inside a scope is finite, so the scope is left
Leave(t, d) == Depth(t) = d /\ (Destroy(t) \/ WindowClose(t))

\* threads in lock() and unlock() run on; of the rwlock only that a lock nobody holds is given
FairSpec ==
    /\ Spec
    /\ \A t \in Thread :
         /\ WF_vars(Enqueue(t)) /\ WF_vars(WrLock(t)) /\ WF_vars(Granted(t))
         /\ WF_vars(StandDown(t)) /\ WF_vars(RdLock(t)) /\ WF_vars(Unlock(t))
         /\ \A d \in 1 .. MaxDepth[t] : SF_vars(Leave(t, d))

-----------------------------------------------------------------------------
(* Properties                                                              *)

PC == {"run", "enqueue", "wrlock", "granted", "gate", "asleep", "rdlock", "flush", "unlock"}

\* Every variable has its type.
TypeOK ==
    /\ writer \subseteq Thread /\ readers \subseteq Thread
    /\ waiting \in Nat /\ dirty \in BOOLEAN
    /\ stack \in [Thread -> Seq(Scope)]
    /\ held \in [Thread -> Nat] /\ shared \in [Thread -> Nat]
    /\ pc \in [Thread -> PC] /\ target \in [Thread -> Nat] /\ rounds \in [Thread -> Nat]

\* The names a thread goes by, tl_streams_held and tl_streams_shared, are those of
\* a readers-writer lock: hex_in and the nested constructors trust them alone.
Names == INSTANCE RWLock WITH writing <- {t \in Thread : held[t] # 0},
                              reading <- {t \in Thread : shared[t] # 0}

NamesAreALock == Names!Spec

\* "Everything on the shared streams happens under the Streams pair": engine code
\* under a guard that took nothing is covered by an outer one, strong enough.
GuardsCovered ==
    \A t \in Thread : Under(t) =>
        t \in writer \/ (Top(t).kind = "read" /\ t \in readers)

\* "Every write is in the FILE before the guard is released": a private reader
\* never meets bytes still sitting in the canonical streams' buffers, whichever way
\* the guard went: its scope's end, a callback's window or an exception.
ReadersSeeWrites == dirty => readers = {}

\* writers_waiting covers exactly the threads queued for the exclusive side, so
\* that no reader sleeps with no writer left to wake it.
SleepersHaveWriter == Asleep # {} => \E t \in Thread : pc[t] \in {"wrlock", "granted"}

\* The gate's promise to writers: one that is queued is not passed over for ever
\* by readers that keep coming.
WritersGetIn ==
    (\E t \in Thread : pc[t] = "wrlock") ~> (\E t \in Thread : pc[t] = "granted")

\* And to readers: the preference is bounded, so the gate opens however many
\* writers keep coming.
GateOpens == \A t \in Thread : pc[t] = "asleep" ~> pc[t] = "rdlock"
=============================================================================
