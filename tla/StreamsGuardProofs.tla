------------------------- MODULE StreamsGuardProofs -------------------------
(***************************************************************************)
(* The Streams guard covers what the engine does under it, keeps a store's *)
(* lock and leaves no reader asleep for nobody: for any threads, any       *)
(* nesting of guards and callbacks, and any exceptions.                    *)
(***************************************************************************)
EXTENDS StreamsGuard, FiniteSetTheorems, SequenceTheorems, TLAPS

-----------------------------------------------------------------------------
(* One thread's stack                                                      *)

\* a scope that stands for a guard, and a window that has let one go
Guards(s, d) == s[d].kind # "window"
Lets(s, d)   == s[d].kind = "window" /\ s[d].mine

\* no window between the two has let a guard go: they are under one lock
Together(s, c, d) == \A e \in c..d : ~Lets(s, e)

\* the guard whose lock() the code on top of the stack runs under
Base(s, b) ==
    /\ b \in 1..Len(s) /\ Guards(s, b) /\ s[b].mine
    /\ Together(s, b, Len(s))

\* procedure code is on top: nothing is locked
InProcedure(s) == Len(s) = 0 \/ Lets(s, Len(s))

\* a guard locks where procedure code has constructed it
GuardOK(s, d) == s[d].mine => d = 1 \/ Lets(s, d - 1)

\* a window is opened by engine code, over its own guard or the locked one
WindowOK(s, d) ==
    /\ d > 1 /\ Guards(s, d - 1)
    /\ s[d].of \in 1..d - 1 /\ Guards(s, s[d].of)
    /\ IF s[d].mine THEN s[s[d].of].mine /\ Together(s, s[d].of, d - 1) ELSE s[d].of = d - 1

\* under the shared side there are no guards that write
SideOK(s, b, d) ==
    b <= d /\ Guards(s, b) /\ s[b].mine /\ s[b].shared /\ Guards(s, d) /\ Together(s, b, d)
        => s[d].kind = "read"

StackOK(s) ==
    /\ s \in Seq(Scope)
    /\ \A d \in 1..Len(s) : IF Guards(s, d) THEN GuardOK(s, d) ELSE WindowOK(s, d)
    /\ \A b, d \in 1..Len(s) : SideOK(s, b, d)

LEMMA OneBase ==
  ASSUME NEW s, StackOK(s), NEW b, NEW c, Base(s, b), Base(s, c)
  PROVE  b = c
<1>1. \A d \in 1..Len(s) : Guards(s, d) /\ s[d].mine => d = 1 \/ Lets(s, d - 1)
  BY DEF StackOK, GuardOK
<1>2. Len(s) \in Nat
  BY DEF StackOK
<1>3. CASE b < c
  <2>1. c - 1 \in b..Len(s) /\ c # 1
    BY <1>2, <1>3 DEF Base
  <2>2. Lets(s, c - 1) /\ ~Lets(s, c - 1)
    BY <1>1, <2>1 DEF Base, Together
  <2> QED BY <2>2
<1>4. CASE c < b
  <2>1. b - 1 \in c..Len(s) /\ b # 1
    BY <1>2, <1>4 DEF Base
  <2>2. Lets(s, b - 1) /\ ~Lets(s, b - 1)
    BY <1>1, <2>1 DEF Base, Together
  <2> QED BY <2>2
<1> QED
  BY <1>2, <1>3, <1>4 DEF Base

\* what is said of a stack is said of each of its beginnings
LEMMA Below ==
  ASSUME NEW s, StackOK(s), NEW k \in 0..Len(s)
  PROVE  /\ StackOK(SubSeq(s, 1, k)) /\ Len(SubSeq(s, 1, k)) = k
         /\ \A d \in 1..k : SubSeq(s, 1, k)[d] = s[d]
<1> DEFINE p == SubSeq(s, 1, k)
<1>1. p \in Seq(Scope) /\ Len(p) = k /\ \A d \in 1..k : p[d] = s[d]
  BY DEF StackOK
<1>2. Len(s) \in Nat /\ k \in Nat
  BY DEF StackOK
<1>3. \A d \in 1..k : (Lets(p, d) <=> Lets(s, d)) /\ (Guards(p, d) <=> Guards(s, d))
  BY <1>1 DEF Lets, Guards
<1> HIDE DEF p
<1>4. \A c \in 1..k, d \in 0..k : Together(p, c, d) <=> Together(s, c, d)
  <2> TAKE c \in 1..k, d \in 0..k
  <2>1. \A e \in c..d : e \in 1..k
    BY <1>2
  <2> QED BY <1>3, <2>1 DEF Together
<1>5. ASSUME NEW d \in 1..k
      PROVE  IF Guards(p, d) THEN GuardOK(p, d) ELSE WindowOK(p, d)
  <2>1. IF Guards(s, d) THEN GuardOK(s, d) ELSE WindowOK(s, d)
    BY <1>2 DEF StackOK
  <2>2. CASE Guards(s, d)
    <3>1. d = 1 \/ d - 1 \in 1..k
      BY <1>2
    <3> QED BY <1>1, <1>3, <2>1, <2>2, <3>1 DEF GuardOK
  <2>3. CASE ~Guards(s, d)
    <3>1. WindowOK(s, d)
      BY <2>1, <2>3
    <3>2. d - 1 \in 1..k /\ s[d].of \in 1..k /\ p[d] = s[d] /\ p[s[d].of] = s[s[d].of]
      BY <1>1, <1>2, <3>1 DEF WindowOK
    <3> QED BY <1>3, <1>4, <2>3, <3>1, <3>2, <1>2 DEF WindowOK
  <2> QED BY <2>2, <2>3
<1>6. ASSUME NEW b \in 1..k, NEW d \in 1..k
      PROVE  SideOK(p, b, d)
  <2>1. SideOK(s, b, d)
    BY <1>2 DEF StackOK
  <2> QED BY <1>1, <1>3, <1>4, <2>1, <1>2 DEF SideOK
<1>7. StackOK(p)
  BY <1>1, <1>5, <1>6 DEF StackOK
<1> QED
  BY <1>1, <1>7 DEF p

LEMMA BaseBelow ==
  ASSUME NEW s, StackOK(s), NEW b, Base(s, b), NEW k \in b..Len(s)
  PROVE  Base(SubSeq(s, 1, k), b)
<1>1. Len(s) \in Nat /\ b \in 1..k /\ k \in 0..Len(s)
  BY DEF StackOK, Base
<1>2. Len(SubSeq(s, 1, k)) = k /\ \A d \in 1..k : SubSeq(s, 1, k)[d] = s[d]
  BY <1>1, Below
<1>3. \A e \in b..k : e \in 1..k /\ e \in b..Len(s)
  BY <1>1
<1> QED
  BY <1>1, <1>2, <1>3 DEF Base, Together, Lets, Guards

\* and of a stack with one scope more
LEMMA OneMore ==
  ASSUME NEW s, StackOK(s), NEW x \in Scope
  PROVE  LET q == Append(s, x)
         IN  /\ q \in Seq(Scope) /\ Len(q) = Len(s) + 1 /\ q[Len(s) + 1] = x
             /\ \A d \in 1..Len(s) : q[d] = s[d]
             /\ (IF Guards(q, Len(q)) THEN GuardOK(q, Len(q)) ELSE WindowOK(q, Len(q)))
                   /\ (\A b \in 1..Len(q) : SideOK(q, b, Len(q))) => StackOK(q)
<1> DEFINE q == Append(s, x)
           n == Len(s)
<1>1. /\ n \in Nat /\ q \in Seq(Scope) /\ Len(q) = n + 1 /\ q[n + 1] = x
      /\ \A d \in 1..n : q[d] = s[d]
  BY DEF StackOK
<1>2. \A d \in 1..n : (Lets(q, d) <=> Lets(s, d)) /\ (Guards(q, d) <=> Guards(s, d))
  BY <1>1 DEF Lets, Guards
<1> HIDE DEF q, n
<1>3. \A c \in 1..n, d \in 0..n : Together(q, c, d) <=> Together(s, c, d)
  <2> TAKE c \in 1..n, d \in 0..n
  <2>1. \A e \in c..d : e \in 1..n
    BY <1>1
  <2> QED BY <1>2, <2>1 DEF Together
<1>4. ASSUME NEW d \in 1..n
      PROVE  IF Guards(q, d) THEN GuardOK(q, d) ELSE WindowOK(q, d)
  <2>1. IF Guards(s, d) THEN GuardOK(s, d) ELSE WindowOK(s, d)
    BY DEF StackOK, n
  <2>2. CASE Guards(s, d)
    <3>1. d = 1 \/ d - 1 \in 1..n
      BY <1>1
    <3> QED BY <1>1, <1>2, <2>1, <2>2, <3>1 DEF GuardOK
  <2>3. CASE ~Guards(s, d)
    <3>1. WindowOK(s, d)
      BY <2>1, <2>3
    <3>2. d - 1 \in 1..n /\ s[d].of \in 1..n /\ q[d] = s[d] /\ q[s[d].of] = s[s[d].of]
      BY <1>1, <3>1 DEF WindowOK
    <3> QED BY <1>1, <1>2, <1>3, <2>3, <3>1, <3>2 DEF WindowOK
  <2> QED BY <2>2, <2>3
<1>5. ASSUME NEW b \in 1..n, NEW d \in 1..n
      PROVE  SideOK(q, b, d)
  <2>1. SideOK(s, b, d)
    BY DEF StackOK, n
  <2> QED BY <1>1, <1>2, <1>3, <2>1 DEF SideOK
<1>6. ASSUME IF Guards(q, Len(q)) THEN GuardOK(q, Len(q)) ELSE WindowOK(q, Len(q)),
             \A b \in 1..Len(q) : SideOK(q, b, Len(q))
      PROVE  StackOK(q)
  <2>1. \A d \in 1..Len(q) : d \in 1..n \/ d = Len(q)
    BY <1>1
  <2>2. \A d \in 1..Len(q) : IF Guards(q, d) THEN GuardOK(q, d) ELSE WindowOK(q, d)
    BY <1>4, <1>6, <2>1
  <2>3. ASSUME NEW b \in 1..Len(q), NEW d \in 1..Len(q)
        PROVE  SideOK(q, b, d)
    <3>1. CASE d = Len(q)
      BY <1>6, <3>1
    <3>2. CASE d \in 1..n /\ b \in 1..n
      BY <1>5, <3>2
    <3>3. CASE d \in 1..n /\ b = Len(q)
      BY <1>1, <3>3 DEF SideOK
    <3> QED BY <2>1, <3>1, <3>2, <3>3
  <2> QED BY <1>1, <2>2, <2>3 DEF StackOK
<1> QED
  BY <1>1, <1>6 DEF q, n

LEMMA BaseAbove ==
  ASSUME NEW s, StackOK(s), NEW b, Base(s, b), NEW x \in Scope, ~(x.kind = "window" /\ x.mine)
  PROVE  Base(Append(s, x), b) /\ Append(s, x)[b] = s[b]
<1>1. /\ Len(s) \in Nat /\ Len(Append(s, x)) = Len(s) + 1 /\ Append(s, x)[Len(s) + 1] = x
      /\ \A d \in 1..Len(s) : Append(s, x)[d] = s[d]
  BY DEF StackOK
<1>2. b \in 1..Len(s)
  BY DEF Base
<1>3. \A e \in b..Len(s) + 1 : (e \in 1..Len(s) /\ e \in b..Len(s)) \/ e = Len(s) + 1
  BY <1>1, <1>2
<1> QED
  BY <1>1, <1>2, <1>3 DEF Base, Together, Lets, Guards

\* a guard that locks stands on procedure code
LEMMA NewBase ==
  ASSUME NEW s, StackOK(s), InProcedure(s), NEW k \in Kind
  PROVE  LET q == Append(s, Guard(k, TRUE, k = "read"))
         IN  StackOK(q) /\ Base(q, Len(s) + 1) /\ (q[Len(s) + 1].shared <=> k = "read")
<1> DEFINE x == Guard(k, TRUE, k = "read")
           q == Append(s, x)
           n == Len(s)
<1>1. x \in Scope /\ x.kind = k /\ x.mine /\ (x.shared <=> k = "read") /\ k # "window"
  BY DEF Guard, Scope, Kind
<1>2. n \in Nat /\ Len(q) = n + 1 /\ q[n + 1] = x /\ \A d \in 1..n : q[d] = s[d]
  <2>1. s \in Seq(Scope)
    BY DEF StackOK
  <2> HIDE DEF x
  <2> QED BY <1>1, <2>1
<1> HIDE DEF x
<1>3. Guards(q, n + 1) /\ ~Lets(q, n + 1)
  BY <1>1, <1>2 DEF Guards, Lets
<1>4. n = 0 \/ (Lets(q, n) /\ n \in 1..n)
  <2>1. n = 0 \/ Lets(s, n)
    BY DEF InProcedure
  <2> HIDE DEF n, q
  <2> QED BY <1>2, <2>1 DEF Lets
<1>5. GuardOK(q, n + 1)
  <2> HIDE DEF n, q
  <2>1. n + 1 = 1 \/ n + 1 - 1 = n
    BY <1>2
  <2> QED BY <1>2, <1>4, <2>1 DEF GuardOK
<1>6. ASSUME NEW b \in 1..n + 1
      PROVE  SideOK(q, b, n + 1)
  <2>1. CASE b = n + 1
    BY <1>1, <1>2, <2>1 DEF SideOK
  <2>2. CASE b # n + 1
    <3>1. n \in b..n + 1 /\ Lets(q, n)
      <4> HIDE DEF n, q
      <4> QED BY <1>2, <1>4, <2>2
    <3> QED BY <3>1 DEF SideOK, Together
  <2> QED BY <2>1, <2>2
<1>7. StackOK(q)
  <2>1. Len(q) = n + 1
    BY <1>2
  <2>2. (IF Guards(q, Len(q)) THEN GuardOK(q, Len(q)) ELSE WindowOK(q, Len(q)))
          /\ (\A b \in 1..Len(q) : SideOK(q, b, Len(q))) => StackOK(q)
    BY <1>1, OneMore
  <2> HIDE DEF q, n
  <2> QED BY <1>3, <1>5, <1>6, <2>1, <2>2
<1>8. Base(q, n + 1)
  <2> HIDE DEF n, q
  <2>1. \A e \in n + 1..n + 1 : e = n + 1
    BY <1>2
  <2> QED BY <1>1, <1>2, <1>3, <2>1 DEF Base, Together
<1> QED
  BY <1>1, <1>2, <1>7, <1>8 DEF x

\* a guard under one that is locked takes nothing
LEMMA NewNested ==
  ASSUME NEW s, StackOK(s), NEW b, Base(s, b), NEW k \in Kind, s[b].shared => k = "read"
  PROVE  LET q == Append(s, Guard(k, FALSE, FALSE))
         IN  StackOK(q) /\ Base(q, b) /\ q[b] = s[b] /\ ~InProcedure(q)
<1> DEFINE x == Guard(k, FALSE, FALSE)
           q == Append(s, x)
           n == Len(s)
<1>1. x \in Scope /\ x.kind = k /\ ~x.mine /\ ~x.shared /\ k # "window"
  BY DEF Guard, Scope, Kind
<1>2. n \in Nat /\ Len(q) = n + 1 /\ q[n + 1] = x /\ \A d \in 1..n : q[d] = s[d]
  <2>1. s \in Seq(Scope)
    BY DEF StackOK
  <2> HIDE DEF x
  <2> QED BY <1>1, <2>1
<1> HIDE DEF x
<1>3. Guards(q, n + 1) /\ ~Lets(q, n + 1) /\ GuardOK(q, n + 1)
  BY <1>1, <1>2 DEF Guards, Lets, GuardOK
<1>4. ASSUME NEW c \in 1..n + 1
      PROVE  SideOK(q, c, n + 1)
  <2>1. CASE c = n + 1
    BY <1>1, <1>2, <2>1 DEF SideOK
  <2>2. CASE c # n + 1
    <3>1. SUFFICES ASSUME Guards(q, c), q[c].mine, q[c].shared, Together(q, c, n + 1)
                   PROVE  x.kind = "read"
      BY <1>2 DEF SideOK
    <3>2. c \in 1..n /\ q[c] = s[c]
      BY <1>2, <2>2
    <3>3. \A e \in c..n : e \in c..n + 1 /\ q[e] = s[e]
      <4> HIDE DEF n, q
      <4> QED BY <1>2, <3>2
    <3>4. Base(s, c)
      BY <3>1, <3>2, <3>3 DEF Base, Together, Lets, Guards
    <3>5. c = b
      BY <3>4, OneBase
    <3> QED BY <1>1, <3>1, <3>2, <3>5
  <2> QED BY <2>1, <2>2
<1>5. StackOK(q)
  <2>1. Len(q) = n + 1
    BY <1>2
  <2>2. (IF Guards(q, Len(q)) THEN GuardOK(q, Len(q)) ELSE WindowOK(q, Len(q)))
          /\ (\A c \in 1..Len(q) : SideOK(q, c, Len(q))) => StackOK(q)
    BY <1>1, OneMore
  <2> HIDE DEF q, n
  <2> QED BY <1>3, <1>4, <2>1, <2>2
<1>6. Base(q, b) /\ q[b] = s[b]
  BY <1>1, BaseAbove
<1>7. ~InProcedure(q)
  <2> HIDE DEF n, q
  <2> QED BY <1>2, <1>3 DEF InProcedure
<1> QED
  BY <1>5, <1>6, <1>7 DEF x

\* a window over the locked guard, and one over a guard that took nothing
LEMMA NewWindow ==
  ASSUME NEW s, StackOK(s), NEW b, Base(s, b), Guards(s, Len(s)),
         NEW i, NEW m \in BOOLEAN, IF m THEN i = b ELSE i = Len(s)
  PROVE  LET q == Append(s, Window(i, m))
         IN  StackOK(q) /\ (m => InProcedure(q))
             /\ (~m => Base(q, b) /\ q[b] = s[b] /\ ~InProcedure(q))
<1> DEFINE x == Window(i, m)
           q == Append(s, x)
           n == Len(s)
<1>0. n \in Nat /\ n > 0 /\ b \in 1..n /\ i \in 1..n
  BY DEF StackOK, Base
<1>1. x \in Scope /\ x.kind = "window" /\ x.mine = m /\ x.of = i
  BY <1>0 DEF Window, Scope, Kind
<1>2. Len(q) = n + 1 /\ q[n + 1] = x /\ \A d \in 1..n : q[d] = s[d]
  BY <1>1, OneMore
<1>3. ~Guards(q, n + 1) /\ (Lets(q, n + 1) <=> m)
  BY <1>1, <1>2 DEF Guards, Lets
<1>4. WindowOK(q, n + 1)
  <2>1. Guards(q, n) /\ Guards(q, i)
    BY <1>0, <1>2 DEF Guards, Base
  <2>2. m => q[b].mine /\ Together(q, b, n)
    <3>1. \A e \in b..n : e \in 1..n
      BY <1>0
    <3> QED BY <1>0, <1>2, <3>1 DEF Together, Lets, Base
  <2> QED BY <1>0, <1>1, <1>2, <2>1, <2>2 DEF WindowOK
<1>5. \A c \in 1..n + 1 : SideOK(q, c, n + 1)
  BY <1>3 DEF SideOK
<1>6. StackOK(q)
  <2>1. Len(q) = n + 1
    BY <1>2
  <2>2. (IF Guards(q, Len(q)) THEN GuardOK(q, Len(q)) ELSE WindowOK(q, Len(q)))
          /\ (\A c \in 1..Len(q) : SideOK(q, c, Len(q))) => StackOK(q)
    BY <1>1, OneMore
  <2> HIDE DEF q, n
  <2> QED BY <1>3, <1>4, <1>5, <2>1, <2>2
<1>7. (m => InProcedure(q)) /\ (~m => ~InProcedure(q))
  BY <1>0, <1>2, <1>3 DEF InProcedure
<1>8. ~m => Base(q, b) /\ q[b] = s[b]
  BY <1>1, BaseAbove
<1> QED
  BY <1>6, <1>7, <1>8

-----------------------------------------------------------------------------
(* The invariant                                                           *)

\* where a thread is in lock(), for each side, and in unlock()
WriteSide == {"enqueue", "wrlock", "granted"}
ReadSide  == {"gate", "asleep", "rdlock"}
Unlocking == {"flush", "unlock"}

\* what a thread's names say of its stack: engine code runs under the base's
\* lock, procedure code under none, lock() is on its way to the base's, and
\* unlock() on its way to procedure code
NamesOK(s, p, h, sh, g) ==
    IF p \in Unlocking \union {"run"}
    THEN IF InProcedure(s) THEN h = 0 /\ sh = 0
         ELSE p = "run" /\ \E b \in 1..Len(s) : Base(s, b) /\ IF s[b].shared THEN h = 0 /\ sh = b ELSE h = b /\ sh = 0
    ELSE h = 0 /\ sh = 0 /\ Base(s, g) /\ p \in IF s[g].shared THEN ReadSide ELSE WriteSide

ThreadOK(t) == StackOK(stack[t]) /\ NamesOK(stack[t], pc[t], held[t], shared[t], target[t])

\* the threads announced and not yet through
Queued == {t \in Thread : pc[t] \in {"wrlock", "granted"}}

\* the rwlock is in the hands of those who go by its names, and of a writer
\* that has it and not yet said so, or no longer does
LockInv ==
    /\ \A t \in Thread : t \in writer <=> held[t] # 0 \/ pc[t] \in Unlocking \union {"granted"}
    /\ \A t \in Thread : t \in readers <=> shared[t] # 0
    /\ \A t, u \in writer : t = u
    /\ writer = {} \/ readers = {}
    /\ dirty => \E t \in Thread : held[t] # 0 \/ pc[t] = "flush"

QueueInv ==
    /\ IsFiniteSet(Queued) /\ waiting = Cardinality(Queued)
    /\ Asleep # {} => Queued # {}

TypeInv ==
    /\ writer \subseteq Thread /\ readers \subseteq Thread /\ dirty \in BOOLEAN
    /\ stack \in [Thread -> Seq(Scope)]
    /\ held \in [Thread -> Nat] /\ shared \in [Thread -> Nat]
    /\ pc \in [Thread -> PC] /\ target \in [Thread -> Nat] /\ rounds \in [Thread -> Nat]

GuardInv == TypeInv /\ (\A t \in Thread : ThreadOK(t)) /\ LockInv /\ QueueInv

LEMMA InitGuard == Init => GuardInv
<1> SUFFICES ASSUME Init PROVE GuardInv
  OBVIOUS
<1>1. TypeInv
  <2>1. <<>> \in Seq(Scope) /\ 0 \in Nat
    OBVIOUS
  <2> HIDE DEF Scope
  <2> QED BY <2>1 DEF Init, TypeInv, PC
<1>2. ASSUME NEW t \in Thread PROVE ThreadOK(t)
  BY DEF Init, ThreadOK, StackOK, NamesOK, InProcedure
<1>3. LockInv
  BY DEF Init, LockInv, Unlocking
<1>4. QueueInv
  <2>1. Queued = {} /\ Asleep = {}
    BY DEF Init, Queued, Asleep
  <2> QED BY <2>1, FS_EmptySet DEF Init, QueueInv
<1> QED
  BY <1>1, <1>2, <1>3, <1>4 DEF GuardInv

\* engine code that runs is under a lock of its thread, and its names say so
LEMMA Under1 ==
  ASSUME GuardInv, NEW t \in Thread, Under(t)
  PROVE  \E b \in 1..Depth(t) :
            /\ Base(stack[t], b) /\ Guards(stack[t], Depth(t)) /\ ~InProcedure(stack[t])
            /\ IF stack[t][b].shared THEN held[t] = 0 /\ shared[t] = b ELSE held[t] = b /\ shared[t] = 0
BY DEF GuardInv, ThreadOK, NamesOK, InProcedure, Under, Top, Depth, Lets, Guards

-----------------------------------------------------------------------------
(* What a thread's step does to its own stack and names                    *)

\* nothing is known of a thread but what it is
LEMMA Untouched ==
  ASSUME NEW u \in Thread, ThreadOK(u), stack'[u] = stack[u], pc'[u] = pc[u],
         held'[u] = held[u], shared'[u] = shared[u], target'[u] = target[u]
  PROVE  ThreadOK(u)'
BY DEF ThreadOK

LEMMA LockStep ==
  ASSUME GuardInv, NEW t \in Thread, Enqueue(t) \/ WrLock(t) \/ Granted(t) \/ StandDown(t) \/ RdLock(t)
  PROVE  TypeInv' /\ \A u \in Thread : ThreadOK(u)'
<1> USE DEF GuardInv, TypeInv, PC
<1>0. /\ stack' = stack /\ target' = target
      /\ \A u \in Thread \ {t} : held'[u] = held[u] /\ shared'[u] = shared[u]
      /\ \A u \in Thread \ {t} : pc'[u] = pc[u] \/ (pc[u] = "asleep" /\ pc'[u] = "gate")
  BY DEF Enqueue, WrLock, Granted, StandDown, RdLock, Asleep
<1>1. ThreadOK(t)'
  <2> DEFINE g == target[t]
             s == stack[t]
  <2>1. StackOK(s) /\ NamesOK(s, pc[t], held[t], shared[t], g)
    BY DEF ThreadOK
  <2>2. pc[t] \notin Unlocking \union {"run"}
    BY DEF Enqueue, WrLock, Granted, StandDown, RdLock, Unlocking
  <2>3. held[t] = 0 /\ shared[t] = 0 /\ Base(s, g) /\ pc[t] \in IF s[g].shared THEN ReadSide ELSE WriteSide
    BY <2>1, <2>2 DEF NamesOK
  <2>4. g \in 1..Len(s) /\ ~InProcedure(s)
    <3>1. g \in 1..Len(s) /\ Len(s) \in Nat /\ Together(s, g, Len(s))
      BY <2>1, <2>3 DEF Base, StackOK
    <3>2. Len(s) # 0 /\ Len(s) \in g..Len(s)
      BY <3>1
    <3> QED BY <3>1, <3>2 DEF InProcedure, Together
  <2>5. CASE Enqueue(t) \/ WrLock(t) \/ StandDown(t)
    <3>1. held'[t] = 0 /\ shared'[t] = 0 /\ pc'[t] \notin Unlocking \union {"run"}
            /\ pc'[t] \in IF s[g].shared THEN ReadSide ELSE WriteSide
      BY <2>3, <2>5 DEF Enqueue, WrLock, StandDown, ReadSide, WriteSide, Unlocking
    <3> QED BY <1>0, <2>1, <2>3, <3>1 DEF ThreadOK, NamesOK
  <2>6. CASE Granted(t)
    <3>1. pc'[t] = "run" /\ held'[t] = g /\ shared'[t] = 0 /\ ~s[g].shared
      BY <2>3, <2>6 DEF Granted, ReadSide
    <3> QED BY <1>0, <2>1, <2>3, <2>4, <3>1 DEF ThreadOK, NamesOK
  <2>7. CASE RdLock(t)
    <3>1. pc'[t] = "run" /\ held'[t] = 0 /\ shared'[t] = g /\ s[g].shared
      BY <2>3, <2>7 DEF RdLock, WriteSide
    <3> QED BY <1>0, <2>1, <2>3, <2>4, <3>1 DEF ThreadOK, NamesOK
  <2> QED BY <2>5, <2>6, <2>7
<1>2. ASSUME NEW u \in Thread, u # t PROVE ThreadOK(u)'
  <2>1. ThreadOK(u)
    OBVIOUS
  <2>2. CASE pc'[u] = pc[u]
    BY <1>0, <1>2, <2>1, <2>2, Untouched
  <2>3. CASE pc[u] = "asleep" /\ pc'[u] = "gate"
    BY <1>0, <1>2, <2>1, <2>3 DEF ThreadOK, NamesOK, ReadSide, WriteSide, Unlocking
  <2> QED BY <1>0, <1>2, <2>2, <2>3
<1>3. TypeInv'
  <2>1. CASE Enqueue(t)
    BY <2>1 DEF Enqueue
  <2>2. CASE WrLock(t)
    BY <2>2 DEF WrLock
  <2>3. CASE Granted(t)
    <3>1. \A u \in Thread : rounds[u] + 1 \in Nat /\ rounds[u] \in Nat
      OBVIOUS
    <3>2. rounds' \in [Thread -> Nat]
      BY <2>3, <3>1 DEF Granted
    <3>3. pc' \in [Thread -> PC]
      BY <2>3 DEF Granted
    <3> QED BY <2>3, <3>2, <3>3 DEF Granted
  <2>4. CASE StandDown(t)
    BY <2>4 DEF StandDown
  <2>5. CASE RdLock(t)
    BY <2>5 DEF RdLock
  <2> QED BY <2>1, <2>2, <2>3, <2>4, <2>5
<1> QED
  BY <1>1, <1>2, <1>3

\* nobody's place in the queue has changed
LEMMA SameQueue ==
  ASSUME QueueInv, pc' = pc, waiting' = waiting
  PROVE  QueueInv'
<1>1. Queued' = Queued /\ Asleep' = Asleep
  BY DEF Queued, Asleep
<1> QED
  BY <1>1 DEF QueueInv

\* unlock() begun, of the guards at the depths S
LEMMA Unlocked ==
  ASSUME GuardInv, NEW t \in Thread, NEW S, Released(t, S), 0 \notin S, pc[t] = "run", waiting' = waiting
  PROVE  /\ \A u \in Thread \ {t} : held'[u] = held[u] /\ shared'[u] = shared[u] /\ pc'[u] = pc[u]
         /\ held'[t] = (IF held[t] \in S THEN 0 ELSE held[t])
         /\ shared'[t] = (IF shared[t] \in S THEN 0 ELSE shared[t])
         /\ pc'[t] = (IF held[t] \in S THEN "flush" ELSE "run")
         /\ writer' \subseteq Thread /\ readers' \subseteq Thread /\ dirty' \in BOOLEAN
         /\ held' \in [Thread -> Nat] /\ shared' \in [Thread -> Nat] /\ pc' \in [Thread -> PC]
         /\ LockInv' /\ QueueInv'
<1> USE DEF GuardInv, TypeInv
<1>1. /\ \A u \in Thread \ {t} : held'[u] = held[u] /\ shared'[u] = shared[u] /\ pc'[u] = pc[u]
      /\ held'[t] = (IF held[t] \in S THEN 0 ELSE held[t])
      /\ shared'[t] = (IF shared[t] \in S THEN 0 ELSE shared[t])
      /\ pc'[t] = (IF held[t] \in S THEN "flush" ELSE "run")
      /\ held' \in [Thread -> Nat] /\ shared' \in [Thread -> Nat] /\ pc' \in [Thread -> PC]
  BY DEF Released, PC
<1>2. writer' = writer /\ dirty' = dirty /\ readers' = (IF shared[t] \in S THEN readers \ {t} ELSE readers)
  BY DEF Released
<1>3. LockInv'
  <2>1. \A u \in Thread : u \in writer' <=> held'[u] # 0 \/ pc'[u] \in Unlocking \union {"granted"}
    <3> TAKE u \in Thread
    <3>1. u \in writer <=> held[u] # 0 \/ pc[u] \in Unlocking \union {"granted"}
      BY DEF LockInv
    <3> QED BY <1>1, <1>2, <3>1 DEF Unlocking
  <2>2. \A u \in Thread : u \in readers' <=> shared'[u] # 0
    <3> TAKE u \in Thread
    <3>1. u \in readers <=> shared[u] # 0
      BY DEF LockInv
    <3> QED BY <1>1, <1>2, <3>1
  <2>3. dirty' => \E u \in Thread : held'[u] # 0 \/ pc'[u] = "flush"
    <3>1. SUFFICES ASSUME dirty' PROVE \E u \in Thread : held'[u] # 0 \/ pc'[u] = "flush"
      OBVIOUS
    <3>2. PICK u \in Thread : held[u] # 0 \/ pc[u] = "flush"
      BY <1>2, <3>1 DEF LockInv
    <3> QED BY <1>1, <3>2
  <2> QED BY <1>2, <2>1, <2>2, <2>3 DEF LockInv
<1>4. QueueInv'
  <2>1. Queued' = Queued /\ Asleep' = Asleep
    BY <1>1 DEF Queued, Asleep
  <2> QED BY <2>1 DEF QueueInv
<1> QED
  BY <1>1, <1>2, <1>3, <1>4

LEMMA UnlockStep ==
  ASSUME GuardInv, NEW t \in Thread, Unlock(t)
  PROVE  GuardInv'
<1> USE DEF GuardInv, TypeInv
<1>0. /\ UNCHANGED <<readers, waiting, stack, held, shared, target, rounds>>
      /\ \A u \in Thread \ {t} : pc'[u] = pc[u]
      /\ pc[t] \in Unlocking /\ pc'[t] \in {"unlock", "run"} /\ pc' \in [Thread -> PC]
      /\ writer' \subseteq Thread /\ dirty' \in BOOLEAN
  BY DEF Unlock, Unlocking, PC, Flushes, GivesBack
<1>1. ThreadOK(t)'
  <2>1. InProcedure(stack[t]) /\ held[t] = 0 /\ shared[t] = 0 /\ StackOK(stack[t])
    BY <1>0 DEF ThreadOK, NamesOK, Unlocking
  <2> QED BY <1>0, <2>1 DEF ThreadOK, NamesOK, Unlocking
<1>2. ASSUME NEW u \in Thread, u # t PROVE ThreadOK(u)'
  BY <1>0, <1>2, Untouched
<1>3. QueueInv'
  <2>1. Queued' = Queued /\ Asleep' = Asleep
    BY <1>0 DEF Queued, Asleep, Unlocking
  <2> QED BY <1>0, <2>1 DEF QueueInv
<1>4. LockInv'
  <2>1. t \in writer /\ held[t] = 0
    <3>1. held[t] = 0
      BY <1>0 DEF ThreadOK, NamesOK, Unlocking
    <3> QED BY <1>0, <3>1 DEF LockInv
  <2>2. CASE pc[t] = "flush"
    <3>1. writer' = writer /\ dirty' = FALSE /\ pc'[t] = "unlock"
      BY <2>2 DEF Unlock, Flushes
    <3> QED BY <1>0, <2>1, <3>1 DEF LockInv, Unlocking
  <2>3. CASE pc[t] = "unlock"
    <3>1. writer' = writer \ {t} /\ dirty' = dirty /\ pc'[t] = "run"
      BY <2>3 DEF Unlock, GivesBack
    <3>2. dirty' => \E u \in Thread : held'[u] # 0 \/ pc'[u] = "flush"
      BY <1>0, <2>1, <2>3, <3>1 DEF LockInv
    <3>3. \A u \in Thread : u \in writer' <=> held'[u] # 0 \/ pc'[u] \in Unlocking \union {"granted"}
      BY <1>0, <2>1, <3>1 DEF LockInv, Unlocking
    <3> QED BY <1>0, <3>1, <3>2, <3>3 DEF LockInv
  <2> QED BY <1>0, <2>2, <2>3 DEF Unlocking
<1>5. TypeInv'
  BY <1>0
<1> QED
  BY <1>1, <1>2, <1>3, <1>4, <1>5

\* lock() begun by a thread that runs, on a guard that locks
LEMMA Begun ==
  ASSUME GuardInv, NEW t \in Thread, pc[t] = "run", NEW i \in Nat, NEW g,
         Locking(t, i, g), UNCHANGED <<writer, readers, waiting, dirty, held, shared>>
  PROVE  /\ pc' \in [Thread -> PC] /\ target' \in [Thread -> Nat] /\ rounds' \in [Thread -> Nat]
         /\ \A u \in Thread \ {t} : pc'[u] = pc[u] /\ target'[u] = target[u]
         /\ target'[t] = i /\ pc'[t] = (IF g.shared THEN "gate" ELSE "enqueue")
         /\ LockInv' /\ QueueInv'
<1> USE DEF GuardInv, TypeInv
<1>1. /\ pc' \in [Thread -> PC] /\ target' \in [Thread -> Nat] /\ rounds' \in [Thread -> Nat]
      /\ \A u \in Thread \ {t} : pc'[u] = pc[u] /\ target'[u] = target[u]
      /\ target'[t] = i /\ pc'[t] = (IF g.shared THEN "gate" ELSE "enqueue")
  BY DEF Locking, PC
<1>2. \A u \in Thread : \A q \in {"wrlock", "granted", "asleep", "flush", "unlock"} : pc'[u] = q <=> pc[u] = q
  BY <1>1
<1>3. Queued' = Queued /\ Asleep' = Asleep
  BY <1>2 DEF Queued, Asleep
<1>4. QueueInv'
  BY <1>3 DEF QueueInv
<1>5. LockInv'
  BY <1>2 DEF LockInv, Unlocking
<1> QED
  BY <1>1, <1>4, <1>5

\* the names of a thread that runs, when its stack has a locked base and no more
LEMMA StillNamed ==
  ASSUME NEW s, NEW q, NEW b, NEW h, NEW sh, NEW g, StackOK(q), Base(q, b), q[b] = s[b],
         IF s[b].shared THEN h = 0 /\ sh = b ELSE h = b /\ sh = 0
  PROVE  NamesOK(q, "run", h, sh, g)
<1>1. b \in 1..Len(q) /\ Len(q) \in Nat /\ Together(q, b, Len(q))
  BY DEF Base, StackOK
<1>2. Len(q) # 0 /\ Len(q) \in b..Len(q)
  BY <1>1
<1>3. ~InProcedure(q)
  BY <1>1, <1>2 DEF InProcedure, Together
<1> QED
  BY <1>1, <1>3 DEF NamesOK

LEMMA ConstructStep ==
  ASSUME GuardInv, NEW t \in Thread, NEW k \in Kind, Construct(t, k)
  PROVE  GuardInv'
<1> USE DEF GuardInv, TypeInv
<1> DEFINE s == stack[t]
<1>1. StackOK(s) /\ NamesOK(s, "run", held[t], shared[t], target[t]) /\ s \in Seq(Scope) /\ Len(s) \in Nat
  BY DEF ThreadOK, Construct, StackOK
<1>2. ASSUME Nested(t, k), stack' = [stack EXCEPT ![t] = Append(@, Guard(k, FALSE, FALSE))],
             UNCHANGED <<pc, target, rounds>>
      PROVE  GuardInv'
  <2>0. UNCHANGED <<writer, readers, waiting, dirty, held, shared>>
    BY DEF Construct
  <2>1. PICK b \in 1..Len(s) : Base(s, b) /\ IF s[b].shared THEN held[t] = 0 /\ shared[t] = b ELSE held[t] = b /\ shared[t] = 0
    BY <1>1, <1>2 DEF NamesOK, Nested
  <2>2. s[b].shared => k = "read"
    BY <1>2, <2>1 DEF Nested
  <2>3. stack'[t] = Append(s, Guard(k, FALSE, FALSE)) /\ \A u \in Thread \ {t} : stack'[u] = stack[u]
    BY <1>2
  <2>4. StackOK(stack'[t]) /\ Base(stack'[t], b) /\ stack'[t][b] = s[b]
    <3> DEFINE q == Append(s, Guard(k, FALSE, FALSE))
    <3> HIDE DEF s
    <3>1. StackOK(q) /\ Base(q, b) /\ q[b] = s[b]
      BY <1>1, <2>1, <2>2, NewNested
    <3>2. stack'[t] = q
      BY <2>3
    <3> HIDE DEF q
    <3> QED BY <3>1, <3>2
  <2>5. ThreadOK(t)'
    <3>1. NamesOK(stack'[t], "run", held[t], shared[t], target[t])
      BY <2>1, <2>4, StillNamed
    <3> QED BY <1>2, <2>0, <2>4, <3>1 DEF ThreadOK, Construct
  <2>6. ASSUME NEW u \in Thread, u # t PROVE ThreadOK(u)'
    BY <1>2, <2>0, <2>3, <2>6, Untouched
  <2>7. stack' \in [Thread -> Seq(Scope)]
    BY <1>2, <2>3, <2>4 DEF StackOK
  <2>8. LockInv' /\ QueueInv'
    BY <1>2, <2>0, SameQueue DEF LockInv
  <2>9. TypeInv'
    BY <1>2, <2>0, <2>7
  <2> QED BY <2>5, <2>6, <2>8, <2>9
<1>3. ASSUME ~Nested(t, k), shared[t] = 0,
             stack' = [stack EXCEPT ![t] = Append(@, Guard(k, TRUE, k = "read"))],
             Locking(t, Depth(t) + 1, Guard(k, TRUE, k = "read"))
      PROVE  GuardInv'
  <2>0. UNCHANGED <<writer, readers, waiting, dirty, held, shared>> /\ pc[t] = "run"
    BY DEF Construct
  <2>1. held[t] = 0 /\ shared[t] = 0
    BY <1>3 DEF Nested
  <2>2. InProcedure(s)
    BY <1>1, <2>1 DEF NamesOK
  <2>3. stack'[t] = Append(s, Guard(k, TRUE, k = "read")) /\ \A u \in Thread \ {t} : stack'[u] = stack[u]
    BY <1>3
  <2>4. StackOK(stack'[t]) /\ Base(stack'[t], Len(s) + 1) /\ (stack'[t][Len(s) + 1].shared <=> k = "read")
    <3> DEFINE q == Append(s, Guard(k, TRUE, k = "read"))
    <3> HIDE DEF s
    <3>1. StackOK(q) /\ Base(q, Len(s) + 1) /\ (q[Len(s) + 1].shared <=> k = "read")
      BY <1>1, <2>2, NewBase
    <3>2. stack'[t] = q
      BY <2>3
    <3> HIDE DEF q
    <3> QED BY <3>1, <3>2
  <2>5. /\ pc' \in [Thread -> PC] /\ target' \in [Thread -> Nat] /\ rounds' \in [Thread -> Nat]
        /\ \A u \in Thread \ {t} : pc'[u] = pc[u] /\ target'[u] = target[u]
        /\ target'[t] = Len(s) + 1
        /\ pc'[t] = (IF Guard(k, TRUE, k = "read").shared THEN "gate" ELSE "enqueue")
        /\ LockInv' /\ QueueInv'
    <3>1. Depth(t) + 1 \in Nat /\ Depth(t) = Len(s)
      BY <1>1 DEF Depth
    <3> HIDE DEF s
    <3> QED BY <1>3, <2>0, <3>1, Begun
  <2>6. ThreadOK(t)'
    <3>1. pc'[t] = (IF k = "read" THEN "gate" ELSE "enqueue")
      BY <2>5 DEF Guard
    <3>2. NamesOK(stack'[t], pc'[t], 0, 0, Len(s) + 1)
      BY <2>4, <3>1 DEF NamesOK, ReadSide, WriteSide, Unlocking
    <3> QED BY <2>0, <2>1, <2>4, <2>5, <3>2 DEF ThreadOK
  <2>7. ASSUME NEW u \in Thread, u # t PROVE ThreadOK(u)'
    BY <2>0, <2>3, <2>5, <2>7, Untouched
  <2>8. stack' \in [Thread -> Seq(Scope)]
    BY <1>3, <2>3, <2>4 DEF StackOK
  <2>9. TypeInv'
    BY <2>0, <2>5, <2>8
  <2> QED BY <2>5, <2>6, <2>7, <2>9
<1> QED
  BY <1>2, <1>3 DEF Construct

LEMMA DestroyStep ==
  ASSUME GuardInv, NEW t \in Thread, Destroy(t)
  PROVE  GuardInv'
<1> USE DEF GuardInv, TypeInv
<1> DEFINE s == stack[t]
           n == Len(s)
           r == SubSeq(s, 1, n - 1)
<1>0. /\ Under(t) /\ pc[t] = "run" /\ UNCHANGED <<waiting, target, rounds>>
      /\ Released(t, {n}) /\ n \in Nat \ {0} /\ StackOK(s)
      /\ stack'[t] = r /\ \A u \in Thread \ {t} : stack'[u] = stack[u]
  BY DEF Destroy, Under, Depth, ThreadOK
<1>1. PICK b \in 1..n : /\ Base(s, b) /\ Guards(s, n)
                        /\ IF s[b].shared THEN held[t] = 0 /\ shared[t] = b ELSE held[t] = b /\ shared[t] = 0
  BY <1>0, Under1 DEF Depth
<1>2. /\ \A u \in Thread \ {t} : held'[u] = held[u] /\ shared'[u] = shared[u]
      /\ held'[t] = (IF held[t] = n THEN 0 ELSE held[t])
      /\ shared'[t] = (IF shared[t] = n THEN 0 ELSE shared[t])
      /\ pc'[t] = (IF held[t] = n THEN "flush" ELSE "run") /\ \A u \in Thread \ {t} : pc'[u] = pc[u]
      /\ writer' \subseteq Thread /\ readers' \subseteq Thread /\ dirty' \in BOOLEAN
      /\ held' \in [Thread -> Nat] /\ shared' \in [Thread -> Nat] /\ pc' \in [Thread -> PC]
      /\ LockInv' /\ QueueInv'
  <2>1. 0 \notin {n}
    BY <1>0
  <2> HIDE DEF n
  <2> QED BY <1>0, <2>1, Unlocked
<1>3. StackOK(r) /\ Len(r) = n - 1 /\ \A d \in 1..n - 1 : r[d] = s[d]
  <2>1. n - 1 \in 0..Len(s)
    BY <1>0
  <2> QED BY <1>0, <2>1, Below
<1>4. ThreadOK(t)'
  <2>1. CASE b = n
    <3>1. held'[t] = 0 /\ shared'[t] = 0
      BY <1>0, <1>1, <1>2, <2>1
    <3>2. n = 1 \/ Lets(s, n - 1)
      BY <1>0, <1>1, <2>1 DEF StackOK, GuardOK, Base
    <3>3. InProcedure(r)
      <4> HIDE DEF r
      <4>1. CASE n = 1
        BY <1>3, <4>1 DEF InProcedure
      <4>2. CASE n # 1
        <5>1. n - 1 \in 1..n - 1
          <6> HIDE DEF n
          <6> QED BY <1>0, <4>2
        <5> QED BY <1>3, <3>2, <4>2, <5>1 DEF InProcedure, Lets
      <4> QED BY <4>1, <4>2
    <3> QED BY <1>0, <1>2, <1>3, <3>1, <3>3 DEF ThreadOK, NamesOK, Unlocking
  <2>2. CASE b # n
    <3>1. n - 1 \in b..Len(s) /\ b \in 1..n - 1
      BY <1>0, <2>2
    <3>2. Base(r, b) /\ r[b] = s[b]
      BY <1>0, <1>1, <1>3, <3>1, BaseBelow
    <3>3. held'[t] = held[t] /\ shared'[t] = shared[t] /\ pc'[t] = "run"
      BY <1>0, <1>1, <1>2, <2>2
    <3>4. NamesOK(r, "run", held[t], shared[t], target[t])
      BY <1>1, <1>3, <3>2, StillNamed
    <3> HIDE DEF r
    <3> QED BY <1>0, <1>3, <3>3, <3>4 DEF ThreadOK
  <2> QED BY <2>1, <2>2
<1>5. ASSUME NEW u \in Thread, u # t PROVE ThreadOK(u)'
  BY <1>0, <1>2, <1>5, Untouched
<1>6. stack' \in [Thread -> Seq(Scope)]
  <2>1. stack' = [stack EXCEPT ![t] = SubSeq(@, 1, Depth(t) - 1)]
    BY DEF Destroy
  <2> QED BY <1>0, <1>3, <2>1 DEF StackOK
<1>7. TypeInv'
  BY <1>0, <1>2, <1>6
<1> QED
  BY <1>2, <1>4, <1>5, <1>7

LEMMA WindowOpenStep ==
  ASSUME GuardInv, NEW t \in Thread, WindowOpen(t)
  PROVE  GuardInv'
<1> USE DEF GuardInv, TypeInv
<1> DEFINE s == stack[t]
           n == Len(s)
<1>1. PICK i \in LetGo(t) :
        /\ Released(t, {i})
        /\ stack' = [stack EXCEPT ![t] = Append(@, Window(i, i \in {held[t], shared[t]}))]
  BY DEF WindowOpen
<1> DEFINE m == i \in {held[t], shared[t]}
           q == Append(s, Window(i, m))
<1>0. /\ Under(t) /\ pc[t] = "run" /\ UNCHANGED <<waiting, target, rounds>>
      /\ n \in Nat \ {0} /\ StackOK(s)
      /\ stack'[t] = q /\ \A u \in Thread \ {t} : stack'[u] = stack[u]
  BY <1>1 DEF WindowOpen, Under, Depth, ThreadOK
<1>2. PICK b \in 1..n : /\ Base(s, b) /\ Guards(s, n)
                        /\ IF s[b].shared THEN held[t] = 0 /\ shared[t] = b ELSE held[t] = b /\ shared[t] = 0
  BY <1>0, Under1 DEF Depth
<1>3. /\ i # 0 /\ m \in BOOLEAN /\ (IF m THEN i = b ELSE i = n)
  BY <1>0, <1>2 DEF LetGo, Depth
<1>4. /\ \A u \in Thread \ {t} : held'[u] = held[u] /\ shared'[u] = shared[u]
      /\ held'[t] = (IF held[t] = i THEN 0 ELSE held[t])
      /\ shared'[t] = (IF shared[t] = i THEN 0 ELSE shared[t])
      /\ pc'[t] = (IF held[t] = i THEN "flush" ELSE "run") /\ \A u \in Thread \ {t} : pc'[u] = pc[u]
      /\ writer' \subseteq Thread /\ readers' \subseteq Thread /\ dirty' \in BOOLEAN
      /\ held' \in [Thread -> Nat] /\ shared' \in [Thread -> Nat] /\ pc' \in [Thread -> PC]
      /\ LockInv' /\ QueueInv'
  <2>1. 0 \notin {i}
    BY <1>3
  <2> QED BY <1>0, <1>1, <2>1, Unlocked
<1>5. StackOK(q) /\ (m => InProcedure(q)) /\ (~m => Base(q, b) /\ q[b] = s[b] /\ ~InProcedure(q))
  <2> HIDE DEF s, m
  <2> QED BY <1>0, <1>2, <1>3, NewWindow
<1>6. ThreadOK(t)'
  <2>1. CASE m
    <3>1. held'[t] = 0 /\ shared'[t] = 0
      BY <1>0, <1>2, <1>3, <1>4, <2>1
    <3> HIDE DEF q
    <3> QED BY <1>0, <1>4, <1>5, <2>1, <3>1 DEF ThreadOK, NamesOK, Unlocking
  <2>2. CASE ~m
    <3>1. held'[t] = held[t] /\ shared'[t] = shared[t] /\ pc'[t] = "run"
      BY <1>4, <2>2
    <3> HIDE DEF q
    <3>2. NamesOK(q, "run", held[t], shared[t], target[t])
      BY <1>2, <1>5, <2>2, StillNamed
    <3> QED BY <1>0, <1>5, <3>1, <3>2 DEF ThreadOK
  <2> QED BY <2>1, <2>2
<1>7. ASSUME NEW u \in Thread, u # t PROVE ThreadOK(u)'
  BY <1>0, <1>4, <1>7, Untouched
<1>8. stack' \in [Thread -> Seq(Scope)]
  BY <1>1, <1>5 DEF StackOK
<1>9. TypeInv'
  BY <1>0, <1>4, <1>8
<1> QED
  BY <1>4, <1>6, <1>7, <1>9

LEMMA WindowCloseStep ==
  ASSUME GuardInv, NEW t \in Thread, WindowClose(t)
  PROVE  GuardInv'
<1> USE DEF GuardInv, TypeInv
<1> DEFINE s == stack[t]
           n == Len(s)
           i == s[n].of
           r == SubSeq(s, 1, n - 1)
<1>0. /\ pc[t] = "run" /\ UNCHANGED <<writer, readers, waiting, dirty, held, shared>>
      /\ n \in Nat \ {0} /\ StackOK(s) /\ s[n].kind = "window"
      /\ NamesOK(s, "run", held[t], shared[t], target[t])
      /\ stack' = [stack EXCEPT ![t] = r]
      /\ stack'[t] = r /\ \A u \in Thread \ {t} : stack'[u] = stack[u]
  BY DEF WindowClose, Depth, Top, ThreadOK
<1>1. WindowOK(s, n)
  <2>1. ~Guards(s, n)
    BY <1>0 DEF Guards
  <2> QED BY <1>0, <2>1 DEF StackOK
<1>2. StackOK(r) /\ Len(r) = n - 1 /\ \A d \in 1..n - 1 : r[d] = s[d]
  <2>1. n - 1 \in 0..Len(s) /\ StackOK(s)
    BY <1>0
  <2> HIDE DEF s
  <2> QED BY <2>1, Below
<1>3. stack' \in [Thread -> Seq(Scope)]
  BY <1>0, <1>2 DEF StackOK
<1>4. i \in 1..n - 1 /\ i \in 1..n /\ Guards(s, i)
  BY <1>0, <1>1 DEF WindowOK
<1>5. CASE s[n].mine
  <2>1. held[t] = 0 /\ shared[t] = 0
    BY <1>0, <1>5 DEF NamesOK, InProcedure, Lets
  <2>2. s[i].mine /\ Together(s, i, n - 1)
    BY <1>1, <1>5 DEF WindowOK
  <2>3. Base(r, i) /\ r[i] = s[i]
    <3>1. \A e \in i..n - 1 : e \in 1..n - 1
      BY <1>0, <1>4
    <3> HIDE DEF r, n, i
    <3> QED BY <1>2, <1>4, <2>2, <3>1 DEF Base, Together, Lets, Guards
  <2>4. Locking(t, i, s[i])
    BY <1>4, <2>1, <2>2 DEF WindowClose, Depth, Top
  <2>5. /\ pc' \in [Thread -> PC] /\ target' \in [Thread -> Nat] /\ rounds' \in [Thread -> Nat]
        /\ \A u \in Thread \ {t} : pc'[u] = pc[u] /\ target'[u] = target[u]
        /\ target'[t] = i /\ pc'[t] = (IF s[i].shared THEN "gate" ELSE "enqueue")
        /\ LockInv' /\ QueueInv'
    <3>1. i \in Nat
      BY <1>4
    <3> HIDE DEF s, i
    <3> QED BY <1>0, <2>4, <3>1, Begun
  <2>6. ThreadOK(t)'
    <3>1. NamesOK(r, pc'[t], 0, 0, i)
      BY <2>3, <2>5 DEF NamesOK, ReadSide, WriteSide, Unlocking
    <3> HIDE DEF r
    <3> QED BY <1>0, <1>2, <2>1, <2>5, <3>1 DEF ThreadOK
  <2>7. ASSUME NEW u \in Thread, u # t PROVE ThreadOK(u)'
    BY <1>0, <2>5, <2>7, Untouched
  <2>8. TypeInv'
    BY <1>0, <1>3, <2>5
  <2> QED BY <2>5, <2>6, <2>7, <2>8
<1>6. CASE ~s[n].mine
  <2>1. ~InProcedure(s)
    BY <1>0, <1>6 DEF InProcedure, Lets
  <2>2. PICK b \in 1..n : /\ Base(s, b)
                          /\ IF s[b].shared THEN held[t] = 0 /\ shared[t] = b ELSE held[t] = b /\ shared[t] = 0
    BY <1>0, <2>1 DEF NamesOK
  <2>3. s[i].mine => i = b
    <3>1. SUFFICES ASSUME s[i].mine PROVE Base(s, i)
      BY <1>0, <2>2, OneBase
    <3>2. i = n - 1 /\ \A e \in i..n : e = i \/ e = n
      BY <1>0, <1>1, <1>6 DEF WindowOK
    <3>3. ~Lets(s, i) /\ ~Lets(s, n)
      BY <1>4, <1>6 DEF Lets, Guards
    <3> HIDE DEF i
    <3> QED BY <1>4, <3>1, <3>2, <3>3 DEF Base, Together
  <2>4. UNCHANGED <<pc, target, rounds>>
    BY <2>2, <2>3 DEF WindowClose, Depth, Top
  <2>5. b \in 1..n - 1
    BY <1>0, <2>2 DEF Base, Guards
  <2>6. Base(r, b) /\ r[b] = s[b]
    <3>1. n - 1 \in b..Len(s)
      BY <1>0, <2>5
    <3> QED BY <1>0, <1>2, <2>2, <2>5, <3>1, BaseBelow
  <2>7. ThreadOK(t)'
    <3>1. NamesOK(r, "run", held[t], shared[t], target[t])
      BY <1>2, <2>2, <2>6, StillNamed
    <3> HIDE DEF r
    <3> QED BY <1>0, <1>2, <2>4, <3>1 DEF ThreadOK
  <2>8. ASSUME NEW u \in Thread, u # t PROVE ThreadOK(u)'
    BY <1>0, <2>4, <2>8, Untouched
  <2>9. LockInv' /\ QueueInv'
    BY <1>0, <2>4, SameQueue DEF LockInv
  <2>10. TypeInv'
    BY <1>0, <1>3, <2>4
  <2> QED BY <2>7, <2>8, <2>9, <2>10
<1> QED
  BY <1>5, <1>6

LEMMA ThrowStep ==
  ASSUME GuardInv, NEW t \in Thread, Throw(t)
  PROVE  GuardInv'
<1> USE DEF GuardInv, TypeInv
<1> DEFINE s == stack[t]
           n == Len(s)
<1>1. PICK k \in Procedure(t) \ {n} :
        /\ stack' = [stack EXCEPT ![t] = SubSeq(@, 1, k)]
        /\ Released(t, (k + 1)..n)
  BY DEF Throw, Depth
<1> DEFINE r == SubSeq(s, 1, k)
<1>0. /\ pc[t] = "run" /\ UNCHANGED <<waiting, target, rounds>>
      /\ n \in Nat /\ StackOK(s) /\ NamesOK(s, "run", held[t], shared[t], target[t])
      /\ stack'[t] = r /\ \A u \in Thread \ {t} : stack'[u] = stack[u]
  <2>1. pc[t] = "run" /\ UNCHANGED <<waiting, target, rounds>>
    BY DEF Throw
  <2>2. StackOK(s) /\ NamesOK(s, "run", held[t], shared[t], target[t])
    BY <2>1 DEF ThreadOK
  <2>3. n \in Nat
    BY <2>2 DEF StackOK
  <2>4. stack'[t] = r /\ \A u \in Thread \ {t} : stack'[u] = stack[u]
    BY <1>1
  <2> QED BY <2>1, <2>2, <2>3, <2>4
<1>2. k \in 0..n /\ (k = 0 \/ Lets(s, k))
  BY <1>0, <1>1 DEF Procedure, Depth, Lets
<1>3. StackOK(r) /\ Len(r) = k /\ \A d \in 1..k : r[d] = s[d]
  BY <1>0, <1>2, Below
<1>4. InProcedure(r)
  <2>1. k = 0 \/ k \in 1..k
    BY <1>0, <1>2
  <2> HIDE DEF r
  <2> QED BY <1>2, <1>3, <2>1 DEF InProcedure, Lets
<1>5. /\ \A u \in Thread \ {t} : held'[u] = held[u] /\ shared'[u] = shared[u]
      /\ held'[t] = (IF held[t] \in (k + 1)..n THEN 0 ELSE held[t])
      /\ shared'[t] = (IF shared[t] \in (k + 1)..n THEN 0 ELSE shared[t])
      /\ pc'[t] \in {"flush", "run"} /\ \A u \in Thread \ {t} : pc'[u] = pc[u]
      /\ writer' \subseteq Thread /\ readers' \subseteq Thread /\ dirty' \in BOOLEAN
      /\ held' \in [Thread -> Nat] /\ shared' \in [Thread -> Nat] /\ pc' \in [Thread -> PC]
      /\ LockInv' /\ QueueInv'
  <2>1. 0 \notin (k + 1)..n
    BY <1>0, <1>2
  <2> HIDE DEF n
  <2> QED BY <1>0, <1>1, <2>1, Unlocked
<1>6. held'[t] = 0 /\ shared'[t] = 0
  <2>1. CASE held[t] = 0 /\ shared[t] = 0
    BY <1>5, <2>1
  <2>2. ASSUME NEW b \in 1..n, Base(s, b),
               IF s[b].shared THEN held[t] = 0 /\ shared[t] = b ELSE held[t] = b /\ shared[t] = 0
        PROVE  held'[t] = 0 /\ shared'[t] = 0
    <3>1. b \in (k + 1)..n
      <4>1. SUFFICES ASSUME k \in b..n PROVE FALSE
        BY <1>0, <1>2
      <4>2. Lets(s, k) /\ ~Lets(s, k)
        BY <1>0, <1>2, <2>2, <4>1 DEF Base, Together
      <4> QED BY <4>2
    <3> HIDE DEF n
    <3> QED BY <1>5, <2>2, <3>1
  <2> QED BY <1>0, <2>1, <2>2 DEF NamesOK
<1>7. ThreadOK(t)'
  <2> HIDE DEF r
  <2> QED BY <1>0, <1>3, <1>4, <1>5, <1>6 DEF ThreadOK, NamesOK, Unlocking
<1>8. ASSUME NEW u \in Thread, u # t PROVE ThreadOK(u)'
  BY <1>0, <1>5, <1>8, Untouched
<1>9. stack' \in [Thread -> Seq(Scope)]
  BY <1>1, <1>3 DEF StackOK
<1>10. TypeInv'
  BY <1>0, <1>5, <1>9
<1> QED
  BY <1>5, <1>7, <1>8, <1>10

LEMMA WriteStep ==
  ASSUME GuardInv, NEW t \in Thread, Write(t)
  PROVE  GuardInv'
<1> USE DEF GuardInv, TypeInv
<1> DEFINE s == stack[t]
<1>1. PICK b \in 1..Len(s) :
        /\ Base(s, b) /\ Guards(s, Len(s))
        /\ IF s[b].shared THEN held[t] = 0 /\ shared[t] = b ELSE held[t] = b /\ shared[t] = 0
  BY Under1 DEF Write, Depth
<1>2. held[t] # 0
  <2>1. StackOK(s) /\ Len(s) \in 1..Len(s) /\ s[Len(s)].kind = "write"
    BY <1>1 DEF ThreadOK, StackOK, Write, Top, Depth
  <2>2. SideOK(s, b, Len(s))
    BY <1>1, <2>1 DEF StackOK
  <2>3. ~s[b].shared
    BY <1>1, <2>1, <2>2 DEF SideOK, Base
  <2> QED BY <1>1, <2>3
<1>3. UNCHANGED <<writer, readers, waiting, stack, held, shared, pc, target, rounds>> /\ dirty' = TRUE
  BY DEF Write
<1>4. LockInv'
  BY <1>2, <1>3 DEF LockInv
<1>5. \A u \in Thread : ThreadOK(u)'
  BY <1>3 DEF ThreadOK
<1>6. QueueInv'
  BY <1>3, SameQueue
<1>7. TypeInv'
  BY <1>3
<1> QED
  BY <1>4, <1>5, <1>6, <1>7

-----------------------------------------------------------------------------
(* What the steps of lock() do to the lock and to its queue                *)

LEMMA LockStepLock ==
  ASSUME GuardInv, NEW t \in Thread, Enqueue(t) \/ WrLock(t) \/ Granted(t) \/ StandDown(t) \/ RdLock(t)
  PROVE  LockInv'
<1> USE DEF GuardInv, TypeInv
<1>0. /\ held[t] = 0 /\ shared[t] = 0 /\ target[t] # 0
      /\ \A u \in Thread : u \in writer <=> held[u] # 0 \/ pc[u] \in Unlocking \union {"granted"}
      /\ \A u \in Thread : pc'[u] \in Unlocking <=> pc[u] \in Unlocking
      /\ \A u \in Thread : pc'[u] = "flush" <=> pc[u] = "flush"
      /\ \A u \in Thread : u \in readers <=> shared[u] # 0
      /\ \A u, v \in writer : u = v
      /\ writer = {} \/ readers = {}
      /\ dirty => \E u \in Thread : held[u] # 0 \/ pc[u] = "flush"
  <2>1. pc[t] \notin Unlocking \union {"run"}
    BY DEF Enqueue, WrLock, Granted, StandDown, RdLock, Unlocking
  <2>2. held[t] = 0 /\ shared[t] = 0 /\ target[t] \in 1..Len(stack[t])
    BY <2>1 DEF ThreadOK, NamesOK, Base
  <2>3. \A u \in Thread : \A q \in {"flush", "unlock"} : pc'[u] = q <=> pc[u] = q
    BY DEF Enqueue, WrLock, Granted, StandDown, RdLock, Asleep
  <2> QED BY <2>2, <2>3 DEF LockInv, Unlocking
<1>1. CASE Enqueue(t) \/ StandDown(t)
  <2>1. \A u \in Thread : pc'[u] = "granted" <=> pc[u] = "granted"
    BY <1>1 DEF Enqueue, StandDown
  <2> QED BY <1>0, <1>1, <2>1 DEF Enqueue, StandDown, LockInv
<1>2. CASE WrLock(t)
  <2>1. \A u \in Thread : pc'[u] = "granted" <=> pc[u] = "granted" \/ u = t
    BY <1>2 DEF WrLock
  <2>2. dirty' = dirty /\ held' = held /\ shared' = shared /\ writer' = {t} /\ readers' = readers
          /\ writer = {} /\ readers = {}
    BY <1>2 DEF WrLock
  <2>3. \A u \in Thread : u \in writer' <=> held'[u] # 0 \/ pc'[u] \in Unlocking \union {"granted"}
    BY <1>0, <2>1, <2>2
  <2> QED BY <1>0, <2>2, <2>3 DEF LockInv
<1>3. CASE Granted(t)
  <2>1. \A u \in Thread : pc'[u] = "granted" <=> pc[u] = "granted" /\ u # t
    BY <1>3 DEF Granted, Asleep
  <2>2. pc[t] = "granted" /\ UNCHANGED <<dirty, shared, writer, readers>>
    BY <1>3 DEF Granted
  <2>3. \A u \in Thread : held'[u] = (IF u = t THEN target[t] ELSE held[u])
    BY <1>3 DEF Granted
  <2>4. \A u \in Thread : u \in writer <=> held'[u] # 0 \/ pc'[u] \in Unlocking \union {"granted"}
    BY <1>0, <2>1, <2>2, <2>3
  <2>5. dirty => \E u \in Thread : held'[u] # 0 \/ pc'[u] = "flush"
    BY <1>0, <2>3
  <2> QED BY <1>0, <2>2, <2>4, <2>5 DEF LockInv
<1>4. CASE RdLock(t)
  <2>1. \A u \in Thread : pc'[u] = "granted" <=> pc[u] = "granted"
    BY <1>4 DEF RdLock
  <2>2. \A u \in Thread : shared'[u] = (IF u = t THEN target[t] ELSE shared[u])
    BY <1>4 DEF RdLock
  <2>3. readers' = readers \union {t} /\ writer = {} /\ UNCHANGED <<dirty, held, writer>>
    BY <1>4 DEF RdLock
  <2>4. \A u \in Thread : u \in readers' <=> shared'[u] # 0
    BY <1>0, <2>2, <2>3
  <2> QED BY <1>0, <2>1, <2>3, <2>4 DEF LockInv
<1> QED
  BY <1>1, <1>2, <1>3, <1>4

LEMMA LockStepQueue ==
  ASSUME GuardInv, NEW t \in Thread, Enqueue(t) \/ WrLock(t) \/ Granted(t) \/ StandDown(t) \/ RdLock(t)
  PROVE  QueueInv'
<1> USE DEF GuardInv, TypeInv
<1>0. IsFiniteSet(Queued) /\ waiting = Cardinality(Queued) /\ Cardinality(Queued) \in Nat
  BY FS_CardinalityType DEF QueueInv
<1>1. CASE Enqueue(t)
  <2>1. Queued' = Queued \union {t} /\ t \notin Queued /\ waiting' = waiting + 1
    BY <1>1 DEF Enqueue, Queued
  <2>2. IsFiniteSet(Queued') /\ Cardinality(Queued') = Cardinality(Queued) + 1
    BY <1>0, <2>1, FS_AddElement
  <2> QED BY <1>0, <2>1, <2>2 DEF QueueInv
<1>2. CASE WrLock(t)
  <2>1. Queued' = Queued /\ Asleep' = Asleep /\ waiting' = waiting
    BY <1>2 DEF WrLock, Queued, Asleep
  <2> QED BY <2>1 DEF QueueInv
<1>3. CASE Granted(t)
  <2>1. Queued' = Queued \ {t} /\ t \in Queued /\ waiting' = waiting - 1 /\ Asleep' = {}
    BY <1>3 DEF Granted, Queued, Asleep
  <2>2. IsFiniteSet(Queued') /\ Cardinality(Queued') = Cardinality(Queued) - 1
    BY <1>0, <2>1, FS_RemoveElement
  <2> QED BY <1>0, <2>1, <2>2 DEF QueueInv
<1>4. CASE StandDown(t)
  <2>1. Queued' = Queued /\ waiting' = waiting
    BY <1>4 DEF StandDown, Queued
  <2>2. Asleep' # {} => Queued # {}
    <3>1. CASE waiting > 0
      BY <1>0, <3>1, FS_EmptySet
    <3>2. CASE ~(waiting > 0)
      <4>1. Asleep' \subseteq Asleep
        BY <1>4, <3>2 DEF StandDown, Asleep
      <4> QED BY <4>1 DEF QueueInv
    <3> QED BY <3>1, <3>2
  <2> QED BY <1>0, <2>1, <2>2 DEF QueueInv
<1>5. CASE RdLock(t)
  <2>1. Queued' = Queued /\ Asleep' = Asleep /\ waiting' = waiting
    BY <1>5 DEF RdLock, Queued, Asleep
  <2> QED BY <2>1 DEF QueueInv
<1> QED
  BY <1>1, <1>2, <1>3, <1>4, <1>5

LEMMA StepGuard == GuardInv /\ [Next]_vars => GuardInv'
<1> SUFFICES ASSUME GuardInv, [Next]_vars PROVE GuardInv'
  OBVIOUS
<1>1. CASE UNCHANGED vars
  <2>1. UNCHANGED <<writer, readers, waiting, dirty, stack, held, shared, pc, target, rounds>>
    BY <1>1 DEF vars
  <2>2. \A t \in Thread : ThreadOK(t)'
    BY <2>1 DEF GuardInv, ThreadOK
  <2>3. LockInv' /\ QueueInv' /\ TypeInv'
    BY <2>1, SameQueue DEF GuardInv, LockInv, TypeInv
  <2> QED BY <2>2, <2>3 DEF GuardInv
<1>2. ASSUME NEW t \in Thread, Step(t) PROVE GuardInv'
  <2>1. CASE Enqueue(t) \/ WrLock(t) \/ Granted(t) \/ StandDown(t) \/ RdLock(t)
    BY <2>1, LockStep, LockStepLock, LockStepQueue DEF GuardInv
  <2>2. CASE \E k \in Kind : Construct(t, k)
    BY <2>2, ConstructStep
  <2>3. CASE Destroy(t)
    BY <2>3, DestroyStep
  <2>4. CASE WindowOpen(t)
    BY <2>4, WindowOpenStep
  <2>5. CASE WindowClose(t)
    BY <2>5, WindowCloseStep
  <2>6. CASE Throw(t)
    BY <2>6, ThrowStep
  <2>7. CASE Write(t)
    BY <2>7, WriteStep
  <2>8. CASE Unlock(t)
    BY <2>8, UnlockStep
  <2> QED BY <1>2, <2>1, <2>2, <2>3, <2>4, <2>5, <2>6, <2>7, <2>8 DEF Step
<1> QED
  BY <1>1, <1>2 DEF Next

LEMMA GuardAlways == Spec => []GuardInv
BY InitGuard, StepGuard, PTL DEF Spec

-----------------------------------------------------------------------------
(* The theorems                                                            *)

\* Everything that engine code does on the shared streams happens under a lock
\* of its own thread, strong enough, however guards and callbacks nest and
\* wherever an exception is caught.
THEOREM EverythingUnderTheGuard == Spec => []GuardsCovered
<1>1. ASSUME GuardInv PROVE GuardsCovered
  <2>1. SUFFICES ASSUME NEW t \in Thread, Under(t)
                 PROVE  t \in writer \/ (Top(t).kind = "read" /\ t \in readers)
    BY DEF GuardsCovered
  <2> DEFINE s == stack[t]
  <2>2. PICK b \in 1..Len(s) :
          /\ Base(s, b) /\ Guards(s, Len(s))
          /\ IF s[b].shared THEN held[t] = 0 /\ shared[t] = b ELSE held[t] = b /\ shared[t] = 0
    BY <1>1, <2>1, Under1 DEF Depth
  <2>3. CASE ~s[b].shared
    BY <1>1, <2>2, <2>3 DEF GuardInv, LockInv
  <2>4. CASE s[b].shared
    <3>1. t \in readers
      BY <1>1, <2>2, <2>4 DEF GuardInv, LockInv
    <3>2. StackOK(s) /\ Len(s) \in 1..Len(s)
      BY <1>1, <2>2 DEF GuardInv, ThreadOK, StackOK
    <3>3. SideOK(s, b, Len(s))
      BY <2>2, <3>2 DEF StackOK
    <3>4. Top(t).kind = "read"
      BY <2>2, <2>4, <3>2, <3>3 DEF SideOK, Base, Top, Depth
    <3> QED BY <3>1, <3>4
  <2> QED BY <2>3, <2>4
<1>2. GuardInv => GuardsCovered
  BY <1>1
<1> QED
  BY <1>2, GuardAlways, PTL

\* No thread reads the files while the canonical streams hold bytes that the
\* files do not.
THEOREM ReadersNeverStale == Spec => []ReadersSeeWrites
<1>1. GuardInv => ReadersSeeWrites
  BY DEF GuardInv, TypeInv, LockInv, ReadersSeeWrites, Unlocking
<1> QED
  BY <1>1, GuardAlways, PTL

\* No reader is asleep at the gate with no writer left that will wake it.
THEOREM NobodySleepsForNothing == Spec => []SleepersHaveWriter
<1>1. GuardInv => SleepersHaveWriter
  BY DEF GuardInv, QueueInv, SleepersHaveWriter, Queued
<1> QED
  BY <1>1, GuardAlways, PTL

\* The two names a thread goes by are those of a readers-writer lock.
THEOREM NamesAreTheLock == Spec => NamesAreALock
<1> DEFINE W == {t \in Thread : held[t] # 0}
           R == {t \in Thread : shared[t] # 0}
<1>1. Init => Names!Init
  BY DEF Init, Names!Init
<1>2. ASSUME GuardInv, [Next]_vars PROVE [Names!Next]_<<W, R>>
  <2>1. CASE UNCHANGED vars
    BY <2>1 DEF vars
  <2>2. ASSUME NEW t \in Thread, Step(t) PROVE [Names!Next]_<<W, R>>
    <3>1. CASE Enqueue(t) \/ WrLock(t) \/ StandDown(t) \/ Write(t) \/ WindowClose(t) \/ Unlock(t)
                 \/ \E k \in Kind : Construct(t, k)
      BY <3>1 DEF Enqueue, WrLock, StandDown, Write, WindowClose, Construct, Unlock
    <3>2. CASE Granted(t)
      <4>1. writer = {t} /\ readers = {}
        BY <1>2, <2>2, <3>2 DEF Granted, GuardInv, LockInv
      <4>2. W = {} /\ R = {}
        <5>1. held[t] = 0
          BY <1>2, <3>2 DEF Granted, GuardInv, ThreadOK, NamesOK
        <5> QED BY <1>2, <4>1, <5>1 DEF GuardInv, LockInv
      <4>3. target[t] # 0 /\ held'[t] = target[t] /\ \A u \in Thread \ {t} : held'[u] = held[u]
        <5>1. pc[t] = "granted" /\ held' = [held EXCEPT ![t] = target[t]] /\ held \in [Thread -> Nat]
          BY <1>2, <3>2 DEF Granted, GuardInv, TypeInv
        <5>2. Base(stack[t], target[t])
          BY <1>2, <5>1 DEF GuardInv, ThreadOK, NamesOK, Unlocking
        <5> QED BY <5>1, <5>2 DEF Base
      <4>4. W' = {t} /\ R' = R
        BY <3>2, <4>2, <4>3 DEF Granted
      <4> QED BY <4>2, <4>4 DEF Names!Next, Names!Write
    <3>3. CASE RdLock(t)
      <4>1. writer = {}
        BY <3>3 DEF RdLock
      <4>2. W = {}
        BY <1>2, <4>1 DEF GuardInv, LockInv
      <4>3. target[t] # 0 /\ shared'[t] = target[t] /\ \A u \in Thread \ {t} : shared'[u] = shared[u]
        <5>1. pc[t] = "rdlock" /\ shared' = [shared EXCEPT ![t] = target[t]] /\ shared \in [Thread -> Nat]
          BY <1>2, <3>3 DEF RdLock, GuardInv, TypeInv
        <5>2. Base(stack[t], target[t])
          BY <1>2, <5>1 DEF GuardInv, ThreadOK, NamesOK, Unlocking
        <5> QED BY <5>1, <5>2 DEF Base
      <4>4. W' = W /\ R' = R \union {t}
        BY <3>3, <4>3 DEF RdLock
      <4> QED BY <4>2, <4>4 DEF Names!Next, Names!Read
    <3>4. ASSUME NEW S, Released(t, S), 0 \notin S, pc[t] = "run", waiting' = waiting PROVE [Names!Next]_<<W, R>>
      <4>1. /\ \A u \in Thread \ {t} : held'[u] = held[u] /\ shared'[u] = shared[u]
            /\ held'[t] = (IF held[t] \in S THEN 0 ELSE held[t])
            /\ shared'[t] = (IF shared[t] \in S THEN 0 ELSE shared[t])
        BY <1>2, <3>4, Unlocked
      <4>2. held[t] = 0 \/ shared[t] = 0
        BY <1>2 DEF GuardInv, ThreadOK, NamesOK
      <4>3. CASE held[t] \notin S /\ shared[t] \notin S
        BY <4>1, <4>3
      <4>4. CASE held[t] \in S \/ shared[t] \in S
        <5>1. held'[t] = 0 /\ shared'[t] = 0
          BY <3>4, <4>1, <4>2, <4>4
        <5>2. W' = W \ {t} /\ R' = R \ {t}
          BY <4>1, <5>1
        <5> QED BY <5>2 DEF Names!Next, Names!Give
      <4> QED BY <4>3, <4>4
    <3>5. CASE Destroy(t)
      <4>1. 0 \notin {Depth(t)}
        BY <1>2, <3>5 DEF Destroy, Under, GuardInv, ThreadOK, StackOK, Depth
      <4> QED BY <3>4, <3>5, <4>1 DEF Destroy, Under
    <3>6. CASE WindowOpen(t)
      <4>1. PICK i \in LetGo(t) : Released(t, {i})
        BY <3>6 DEF WindowOpen
      <4>2. Depth(t) # 0
        BY <1>2, <3>6 DEF WindowOpen, Under, GuardInv, ThreadOK, StackOK, Depth
      <4>3. 0 \notin {i}
        BY <4>1, <4>2 DEF LetGo
      <4>4. pc[t] = "run" /\ waiting' = waiting
        BY <3>6 DEF WindowOpen, Under
      <4> QED BY <3>4, <4>1, <4>3, <4>4
    <3>7. CASE Throw(t)
      <4>0. pc[t] = "run" /\ waiting' = waiting
        BY <3>7 DEF Throw
      <4>1. PICK k \in Procedure(t) : Released(t, (k + 1)..Depth(t))
        BY <3>7 DEF Throw
      <4>2. 0 \notin (k + 1)..Depth(t)
        BY <1>2, <4>1 DEF Procedure, GuardInv, ThreadOK, StackOK, Depth
      <4> QED BY <3>4, <4>0, <4>1, <4>2
    <3> QED BY <2>2, <3>1, <3>2, <3>3, <3>5, <3>6, <3>7 DEF Step
  <2> QED BY <1>2, <2>1, <2>2 DEF Next
<1>3. GuardInv /\ [Next]_vars => [Names!Next]_<<W, R>>
  BY <1>2
<1> QED
  BY <1>1, <1>3, GuardAlways, PTL DEF Spec, NamesAreALock, Names!Spec
=============================================================================
