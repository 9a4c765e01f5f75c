--------------------------- MODULE RpcPoolProofs ----------------------------
(***************************************************************************)
(* The pool of RpcPool never hands a transaction to anybody but whoever    *)
(* opened it, and loses sight of no connection: for any threads, visitors, *)
(* certificates, limits and sessions, and whatever an id that could not be *)
(* read happens to be.                                                     *)
(***************************************************************************)
EXTENDS RpcPool, FiniteSetTheorems, FunctionTheorems, SequenceTheorems, TLAPS

-----------------------------------------------------------------------------
(* The invariant                                                           *)

Names == DOMAIN entries

RequestTypes ==
    /\ issued \in Seq(Visitor) /\ opener \in Seq(Visitor)
    /\ store \subseteq Nat /\ current \in [Worker -> Nat]
    /\ stage \in [Worker -> Stage] /\ visitor \in [Worker -> Visitor \cup {Nobody}]
    /\ do \in [Worker -> Ops \cup {"none"}]
    /\ tx \in [Worker -> Nat] /\ hand \in [Worker -> Nat]

PoolTypes ==
    /\ entries \in [Names -> [connection : Nat, owner : {entries[t].owner : t \in Names}]]
    /\ Names \subseteq Nat /\ IsFiniteSet(Names)
    /\ closed \subseteq 1..Made

\* a request has a visitor, a session of the visitor's, and what its stage says
Requests ==
    \A w \in Worker :
      /\ stage[w] = "idle" <=> visitor[w] = Nobody
      /\ stage[w] # "idle" => current[w] # 0
      /\ stage[w] \in {"idle", "owned"} <=> hand[w] = 0
      /\ current[w] # 0 => current[w] \in 1..Len(issued) /\ issued[current[w]] = visitor[w]
      /\ hand[w] # 0 => hand[w] \in 1..Made /\ Person(opener[hand[w]]) = Person(visitor[w])

\* an entry's owner is whoever its connection was opened for
OwnerIs(o, v) ==
    IF Subject[v] # Nobody THEN o = [peer |-> Subject[v]]
    ELSE \E k \in 1..Len(issued) : o = [session |-> k] /\ issued[k] = v
Entries ==
    /\ \A t \in Names :
         /\ entries[t].connection \in (1..Made) \ closed
         /\ OwnerIs(entries[t].owner, opener[entries[t].connection])
    /\ \A t, u \in Names : entries[t].connection = entries[u].connection => t = u

\* a connection in the making has no entry and is in one hand
InMaking(w) == stage[w] \in {"opening", "insert"}
Making ==
    /\ \A w \in Worker : InMaking(w) => hand[w] \notin closed /\ \A t \in Names : entries[t].connection # hand[w]
    /\ \A w, o \in Worker : InMaking(w) /\ InMaking(o) /\ hand[w] = hand[o] => w = o

\* every connection is one or the other, or closed
AllKnown ==
    \A n \in (1..Made) \ closed :
      (\E t \in Names : entries[t].connection = n) \/ \E w \in Worker : InMaking(w) /\ hand[w] = n

PoolInv == RequestTypes /\ PoolTypes /\ Requests /\ Entries /\ Making /\ AllKnown /\ Cardinality(Names) <= LIMIT

\* no two requests are inside one connection
Talking(w) == stage[w] \in {"waiting", "release"}
Uncrossed == \A w, o \in Worker : Talking(w) /\ Talking(o) /\ hand[w] = hand[o] => w = o

\* what a request has found stays where it is
Found == \A w \in Worker : Talking(w) => tx[w] \in Names /\ entries[tx[w]].connection = hand[w]

AloneInv == PoolInv /\ Uncrossed /\ Found

-----------------------------------------------------------------------------
(* The operators                                                           *)

LEMMA OwnersApart ==
  ASSUME NEW a, NEW b
  PROVE  [peer |-> a] # [session |-> b] /\ [peer |-> a] # [browser |-> b]
OBVIOUS

LEMMA NamesOf ==
  /\ \A a, b : [peer |-> a] = [peer |-> b] => a = b
  /\ \A a, b : [session |-> a] = [session |-> b] => a = b
  /\ \A a, b : [browser |-> a] = [browser |-> b] => a = b
OBVIOUS

\* whoever the pool takes for the owner is the person the connection is for
LEMMA TheOwner ==
  ASSUME PoolInv, NEW w \in Worker, stage[w] # "idle", NEW t \in Names, entries[t].owner = OwnerOf(w)
  PROVE  Person(opener[entries[t].connection]) = Person(visitor[w])
<1> DEFINE n == entries[t].connection
<1>1. OwnerIs(OwnerOf(w), opener[n])
  BY DEF PoolInv, Entries
<1>2. current[w] # 0 /\ issued[current[w]] = visitor[w] /\ visitor[w] \in Visitor
  BY DEF PoolInv, Requests, RequestTypes
<1>3. CASE Subject[visitor[w]] # Nobody
  <2>1. OwnerIs([peer |-> Subject[visitor[w]]], opener[n])
    BY <1>1, <1>3 DEF OwnerOf
  <2>2. Subject[opener[n]] # Nobody /\ Subject[opener[n]] = Subject[visitor[w]]
    BY <2>1, OwnersApart, NamesOf DEF OwnerIs
  <2> QED BY <1>3, <2>2 DEF Person
<1>4. CASE Subject[visitor[w]] = Nobody
  <2>1. OwnerIs([session |-> current[w]], opener[n])
    BY <1>1, <1>4 DEF OwnerOf
  <2>2. Subject[opener[n]] = Nobody /\ issued[current[w]] = opener[n]
    BY <2>1, OwnersApart, NamesOf DEF OwnerIs
  <2> QED BY <1>2, <2>2
<1> QED
  BY <1>3, <1>4

\* and whoever registers a connection is its owner
LEMMA ItsOwner ==
  ASSUME PoolInv, NEW w \in Worker, hand[w] # 0
  PROVE  OwnerIs(OwnerOf(w), opener[hand[w]])
<1>1. /\ current[w] \in 1..Len(issued) /\ issued[current[w]] = visitor[w]
      /\ Person(opener[hand[w]]) = Person(visitor[w])
  BY DEF PoolInv, Requests
<1> DEFINE v == visitor[w]
           u == opener[hand[w]]
<1>2. CASE Subject[v] # Nobody
  <2>1. Subject[u] = Subject[v]
    BY <1>1, <1>2, OwnersApart, NamesOf DEF Person
  <2> QED BY <1>2, <2>1 DEF OwnerIs, OwnerOf
<1>3. CASE Subject[v] = Nobody
  <2>1. u = v
    BY <1>1, <1>3, OwnersApart, NamesOf DEF Person
  <2> QED BY <1>1, <1>3, <2>1 DEF OwnerIs, OwnerOf
<1> QED
  BY <1>2, <1>3

LEMMA InitPool == Init => AloneInv
<1> SUFFICES ASSUME Init PROVE AloneInv
  OBVIOUS
<1>1. Names = {} /\ Made = 0 /\ Len(issued) = 0
  BY DEF Init, Names, Made
<1>2. RequestTypes
  <2>1. << >> \in Seq(Visitor)
    OBVIOUS
  <2> QED BY <2>1 DEF Init, RequestTypes, Stage
<1>3. PoolTypes
  BY <1>1, FS_EmptySet DEF Init, PoolTypes, Names
<1>4. Requests
  BY <1>1 DEF Init, Requests
<1>5. Entries /\ Making /\ AllKnown
  BY <1>1 DEF Init, Entries, Making, AllKnown, InMaking
<1>6. Cardinality(Names) <= LIMIT
  BY <1>1, FS_EmptySet, RpcAssumption
<1>7. Uncrossed /\ Found
  BY DEF Init, Uncrossed, Talking, Found
<1> QED
  BY <1>2, <1>3, <1>4, <1>5, <1>6, <1>7 DEF AloneInv, PoolInv

-----------------------------------------------------------------------------
(* What the steps share                                                    *)

\* the page is over: the request is nobody's any more
LEMMA Left ==
  ASSUME PoolInv, NEW w \in Worker, Leaves(w), UNCHANGED <<issued, opener>>, store' \subseteq Nat
  PROVE  /\ RequestTypes' /\ Requests'
         /\ stage'[w] = "idle" /\ visitor'[w] = Nobody
         /\ \A o \in Worker \ {w} : /\ stage'[o] = stage[o] /\ visitor'[o] = visitor[o]
                                    /\ hand'[o] = hand[o] /\ tx'[o] = tx[o]
<1>1. RequestTypes
  BY DEF PoolInv
<1>2. /\ current' = [current EXCEPT ![w] = 0] /\ stage' = [stage EXCEPT ![w] = "idle"]
      /\ visitor' = [visitor EXCEPT ![w] = Nobody] /\ do' = [do EXCEPT ![w] = "none"]
      /\ tx' = [tx EXCEPT ![w] = 0] /\ hand' = [hand EXCEPT ![w] = 0]
      /\ issued' = issued /\ opener' = opener
  BY DEF Leaves, Release, Goes
<1>3. RequestTypes'
  BY <1>1, <1>2 DEF RequestTypes, Stage
<1>4. /\ stage'[w] = "idle" /\ visitor'[w] = Nobody /\ current'[w] = 0 /\ hand'[w] = 0
      /\ \A o \in Worker \ {w} : /\ stage'[o] = stage[o] /\ visitor'[o] = visitor[o]
                                 /\ hand'[o] = hand[o] /\ tx'[o] = tx[o] /\ current'[o] = current[o]
  BY <1>1, <1>2 DEF RequestTypes
<1>5. Requests'
  <2>1. SUFFICES ASSUME NEW o \in Worker
                 PROVE  /\ stage'[o] = "idle" <=> visitor'[o] = Nobody
                        /\ stage'[o] # "idle" => current'[o] # 0
                        /\ stage'[o] \in {"idle", "owned"} <=> hand'[o] = 0
                        /\ current'[o] # 0 => current'[o] \in 1..Len(issued) /\ issued[current'[o]] = visitor'[o]
                        /\ hand'[o] # 0 => hand'[o] \in 1..Made /\ Person(opener[hand'[o]]) = Person(visitor'[o])
    <3>1. issued' = issued /\ opener' = opener /\ Made' = Made
      BY <1>2 DEF Made
    <3> QED BY <3>1 DEF Requests, Person
  <2>2. CASE o = w
    BY <1>4, <2>2
  <2>3. CASE o # w
    BY <1>4, <2>3 DEF PoolInv, Requests
  <2> QED BY <2>2, <2>3
<1> QED
  BY <1>3, <1>4, <1>5

\* a step that leaves the pool alone and the making of connections too
LEMMA PoolAlone ==
  ASSUME PoolInv, UNCHANGED <<issued, opener, entries, closed>>,
         \A o \in Worker : (InMaking(o)' <=> InMaking(o)) /\ (InMaking(o) => hand'[o] = hand[o])
  PROVE  PoolTypes' /\ Entries' /\ Making' /\ AllKnown' /\ (Cardinality(Names) <= LIMIT)'
<1>1. Names' = Names /\ Made' = Made
  BY DEF Names, Made
<1>2. PoolTypes' /\ (Cardinality(Names) <= LIMIT)'
  BY <1>1 DEF PoolInv, PoolTypes
<1>3. Entries'
  BY <1>1 DEF PoolInv, Entries, OwnerIs
<1>4. Making'
  BY <1>1 DEF PoolInv, Making
<1>5. AllKnown'
  BY <1>1 DEF PoolInv, AllKnown
<1> QED
  BY <1>2, <1>3, <1>4, <1>5

-----------------------------------------------------------------------------
(* The steps                                                               *)

LEMMA ServerSteps ==
  ASSUME PoolInv, UNCHANGED <<sessionVars, requestVars, clientVars>>
  PROVE  PoolInv' /\ (AloneInv /\ Uncrossed' => AloneInv')
<1>1. UNCHANGED <<issued, store, current, stage, visitor, do, tx, hand, entries, opener, closed, deaf>>
  BY DEF sessionVars, requestVars, clientVars
<1>2. PoolTypes' /\ Entries' /\ Making' /\ AllKnown' /\ (Cardinality(Names) <= LIMIT)'
  BY <1>1, PoolAlone DEF InMaking
<1>3. RequestTypes' /\ Requests'
  BY <1>1 DEF PoolInv, RequestTypes, Requests, Made, Person
<1>5. Found => Found'
  BY <1>1 DEF Found, Talking, Names
<1> QED
  BY <1>2, <1>3, <1>5 DEF AloneInv, PoolInv

LEMMA VisitStep ==
  ASSUME PoolInv, NEW w \in Worker, Visit(w)
  PROVE  PoolInv' /\ (AloneInv /\ Uncrossed' => AloneInv')
<1>1. UNCHANGED <<issued, current, stage, visitor, do, tx, hand, entries, opener, closed, deaf>>
  BY DEF Visit, requestVars, clientVars
<1>2. PoolTypes' /\ Entries' /\ Making' /\ AllKnown' /\ (Cardinality(Names) <= LIMIT)'
  BY <1>1, PoolAlone DEF InMaking
<1>3. store' \subseteq Nat
  BY DEF Visit, Sweep, PoolInv, RequestTypes
<1>4. RequestTypes' /\ Requests'
  BY <1>1, <1>3 DEF PoolInv, RequestTypes, Requests, Made, Person
<1>6. Found => Found'
  BY <1>1 DEF Found, Talking, Names
<1> QED
  BY <1>2, <1>4, <1>6 DEF AloneInv, PoolInv

LEMMA RequestStep ==
  ASSUME PoolInv, NEW w \in Worker, NEW v \in Visitor, Request(w, v)
  PROVE  PoolInv' /\ (AloneInv /\ Uncrossed' => AloneInv')
<1>1. /\ stage[w] = "idle" /\ UNCHANGED <<do, tx, hand, entries, opener, closed, deaf>>
      /\ visitor' = [visitor EXCEPT ![w] = v] /\ stage' = [stage EXCEPT ![w] = "owned"]
  BY DEF Request, Goes, clientVars
<1>2. RequestTypes
  BY DEF PoolInv
<1>3. /\ issued' \in Seq(Visitor) /\ Len(issued) <= Len(issued')
      /\ \A k \in 1..Len(issued) : issued'[k] = issued[k]
      /\ store' \subseteq Nat
      /\ \E c \in 1..Len(issued') : current' = [current EXCEPT ![w] = c] /\ issued'[c] = v
  <2>1. PICK kept \in SUBSET store :
          \/ /\ \E s \in Cookie(v) \cap kept : current' = [current EXCEPT ![w] = s]
             /\ store' = kept /\ UNCHANGED issued
          \/ /\ Cookie(v) \cap kept = {} /\ Len(issued) < MaxSessions
             /\ issued' = Append(issued, v)
             /\ store' = kept \cup {Len(issued) + 1}
             /\ current' = [current EXCEPT ![w] = Len(issued) + 1]
    BY DEF Request
  <2>2. CASE issued' = issued /\ store' = kept /\ \E s \in Cookie(v) \cap kept : current' = [current EXCEPT ![w] = s]
    <3>1. PICK s \in Cookie(v) \cap kept : current' = [current EXCEPT ![w] = s]
      BY <2>2
    <3>2. s \in DOMAIN issued /\ issued[s] = v
      BY <3>1 DEF Cookie
    <3>3. DOMAIN issued = 1..Len(issued) /\ Len(issued) \in Nat /\ issued \in Seq(Visitor) /\ kept \subseteq Nat
      BY <1>2 DEF RequestTypes
    <3>4. s \in 1..Len(issued') /\ issued'[s] = v /\ Len(issued) <= Len(issued')
      BY <2>2, <3>2, <3>3
    <3> QED BY <2>2, <3>1, <3>3, <3>4
  <2>3. CASE issued' = Append(issued, v) /\ store' = kept \cup {Len(issued) + 1}
               /\ current' = [current EXCEPT ![w] = Len(issued) + 1]
    <3>1. Len(issued) \in Nat /\ issued \in Seq(Visitor) /\ kept \subseteq Nat
      BY <1>2 DEF RequestTypes
    <3>2. /\ Append(issued, v) \in Seq(Visitor) /\ Len(Append(issued, v)) = Len(issued) + 1
          /\ Append(issued, v)[Len(issued) + 1] = v
          /\ \A k \in 1..Len(issued) : Append(issued, v)[k] = issued[k]
      BY <3>1
    <3>3. Len(issued) + 1 \in 1..Len(issued')
      BY <2>3, <3>1, <3>2
    <3>4. Len(issued) <= Len(issued') /\ issued'[Len(issued) + 1] = v /\ issued' \in Seq(Visitor)
             /\ \A k \in 1..Len(issued) : issued'[k] = issued[k]
      BY <2>3, <3>1, <3>2
    <3>5. store' \subseteq Nat
      <4>1. Len(issued) + 1 \in Nat
        BY <3>1
      <4> QED BY <2>3, <3>1, <4>1
    <3> QED BY <2>3, <3>3, <3>4, <3>5
  <2> QED BY <2>1, <2>2, <2>3
<1>4. PICK c \in 1..Len(issued') : current' = [current EXCEPT ![w] = c] /\ issued'[c] = v
  BY <1>3
<1>5. c \in Nat /\ c # 0 /\ Len(issued) \in Nat /\ Len(issued') \in Nat
  BY <1>2, <1>3 DEF RequestTypes
<1>6. RequestTypes'
  BY <1>1, <1>2, <1>3, <1>4, <1>5 DEF RequestTypes, Stage
<1>7. Requests'
  <2>1. SUFFICES ASSUME NEW o \in Worker
                 PROVE  /\ stage'[o] = "idle" <=> visitor'[o] = Nobody
                        /\ stage'[o] # "idle" => current'[o] # 0
                        /\ stage'[o] \in {"idle", "owned"} <=> hand[o] = 0
                        /\ current'[o] # 0 => current'[o] \in 1..Len(issued') /\ issued'[current'[o]] = visitor'[o]
                        /\ hand[o] # 0 => hand[o] \in 1..Made /\ Person(opener[hand[o]]) = Person(visitor'[o])
    BY <1>1 DEF Requests, Made, Person
  <2>2. CASE o = w
    <3>1. hand[w] = 0
      BY <1>1 DEF PoolInv, Requests
    <3> QED BY <1>1, <1>2, <1>4, <1>5, <2>2, <3>1, RpcAssumption DEF RequestTypes
  <2>3. CASE o # w
    <3>1. stage'[o] = stage[o] /\ visitor'[o] = visitor[o] /\ current'[o] = current[o]
      BY <1>1, <1>2, <1>4, <2>3 DEF RequestTypes
    <3>2. current[o] \in 1..Len(issued) => current[o] \in 1..Len(issued')
      BY <1>3, <1>5
    <3> QED BY <1>3, <3>1, <3>2 DEF PoolInv, Requests
  <2> QED BY <2>2, <2>3
<1>8. \A o \in Worker : InMaking(o)' <=> InMaking(o)
  BY <1>1, <1>2 DEF InMaking, RequestTypes
<1>9. Names' = Names /\ Made' = Made
  BY <1>1 DEF Names, Made
<1>10. PoolTypes' /\ Making' /\ AllKnown' /\ (Cardinality(Names) <= LIMIT)'
  <2>1. PoolTypes' /\ (Cardinality(Names) <= LIMIT)'
    BY <1>1, <1>9 DEF PoolInv, PoolTypes
  <2>2. Making'
    BY <1>1, <1>8, <1>9 DEF PoolInv, Making
  <2>3. AllKnown'
    BY <1>1, <1>8, <1>9 DEF PoolInv, AllKnown
  <2> QED BY <2>1, <2>2, <2>3
<1>11. Entries'
  <2>1. \A t \in Names : OwnerIs(entries[t].owner, opener[entries[t].connection])'
    <3> TAKE t \in Names
    <3>1. OwnerIs(entries[t].owner, opener[entries[t].connection])
      BY DEF PoolInv, Entries
    <3>2. \A k \in 1..Len(issued) : k \in 1..Len(issued')
      BY <1>3, <1>5
    <3> QED BY <1>1, <1>3, <3>1, <3>2 DEF OwnerIs
  <2> QED BY <1>1, <1>9, <2>1 DEF PoolInv, Entries
<1>12. Found => Found'
  BY <1>1, <1>2, <1>9 DEF Found, Talking, RequestTypes
<1> QED
  BY <1>6, <1>7, <1>10, <1>11, <1>12 DEF AloneInv, PoolInv

\* a page that has asked for nothing, or has its answer, is over
LEMMA OverStep ==
  ASSUME PoolInv, NEW w \in Worker, Leaves(w), ~InMaking(w), store' \subseteq Nat,
         UNCHANGED <<issued, opener, entries, closed>>
  PROVE  PoolInv' /\ (AloneInv /\ Uncrossed' => AloneInv')
<1>1. /\ RequestTypes' /\ Requests'
      /\ stage'[w] = "idle" /\ visitor'[w] = Nobody
      /\ \A o \in Worker \ {w} : /\ stage'[o] = stage[o] /\ visitor'[o] = visitor[o]
                                 /\ hand'[o] = hand[o] /\ tx'[o] = tx[o]
  BY Left
<1>2. PoolTypes' /\ Entries' /\ Making' /\ AllKnown' /\ (Cardinality(Names) <= LIMIT)'
  BY <1>1, PoolAlone DEF InMaking
<1>4. Found => Found'
  BY <1>1 DEF Found, Talking, Names
<1> QED
  BY <1>1, <1>2, <1>4 DEF AloneInv, PoolInv

\* a page goes on, with its visitor and with the connection it is making
LEMMA OnStep ==
  ASSUME PoolInv, NEW w \in Worker,
         UNCHANGED <<sessionVars, visitor, entries, opener, closed>>,
         do' \in [Worker -> Ops \cup {"none"}], tx' \in [Worker -> Nat], hand' \in [Worker -> Nat],
         NEW s \in Stage \ {"idle"}, stage' = [stage EXCEPT ![w] = s], stage[w] # "idle",
         \A o \in Worker \ {w} : hand'[o] = hand[o] /\ tx'[o] = tx[o],
         s = "owned" <=> hand'[w] = 0,
         hand'[w] # 0 => hand'[w] \in 1..Made /\ Person(opener[hand'[w]]) = Person(visitor[w]),
         s \in {"opening", "insert"} <=> InMaking(w), InMaking(w) => hand'[w] = hand[w],
         s \in {"waiting", "release"} => tx'[w] \in Names /\ entries[tx'[w]].connection = hand'[w]
  PROVE  PoolInv' /\ (AloneInv /\ Uncrossed' => AloneInv')
<1>1. /\ stage'[w] = s
      /\ \A o \in Worker \ {w} : /\ stage'[o] = stage[o] /\ hand'[o] = hand[o] /\ tx'[o] = tx[o]
      /\ UNCHANGED <<issued, store, current, visitor, entries, opener, closed>>
  BY DEF PoolInv, RequestTypes, sessionVars
<1>2. RequestTypes'
  BY <1>1 DEF PoolInv, RequestTypes
<1>3. Requests'
  <2>1. SUFFICES ASSUME NEW o \in Worker
                 PROVE  /\ stage'[o] = "idle" <=> visitor[o] = Nobody
                        /\ stage'[o] # "idle" => current[o] # 0
                        /\ stage'[o] \in {"idle", "owned"} <=> hand'[o] = 0
                        /\ current[o] # 0 => current[o] \in 1..Len(issued) /\ issued[current[o]] = visitor[o]
                        /\ hand'[o] # 0 => hand'[o] \in 1..Made /\ Person(opener[hand'[o]]) = Person(visitor[o])
    <3>1. UNCHANGED <<issued, current, visitor, opener>> /\ Made' = Made
      BY <1>1 DEF Made
    <3> QED BY <3>1 DEF Requests
  <2>2. CASE o = w
    BY <1>1, <2>2 DEF PoolInv, Requests
  <2>3. CASE o # w
    BY <1>1, <2>3 DEF PoolInv, Requests
  <2> QED BY <2>2, <2>3
<1>4. PoolTypes' /\ Entries' /\ Making' /\ AllKnown' /\ (Cardinality(Names) <= LIMIT)'
  BY <1>1, PoolAlone DEF InMaking
<1>6. Found => Found'
  BY <1>1 DEF Found, Talking, Names
<1> QED
  BY <1>2, <1>3, <1>4, <1>6 DEF AloneInv, PoolInv


\* connections are numbered in the order they are made
LEMMA ConnectStep ==
  ASSUME PoolInv, NEW w \in Worker, Connect(w)
  PROVE  PoolInv' /\ (AloneInv /\ Uncrossed' => AloneInv')
<1> DEFINE n == Made + 1
<1>1. /\ stage[w] = "owned" /\ stage' = [stage EXCEPT ![w] = "opening"]
      /\ opener' = Append(opener, visitor[w]) /\ hand' = [hand EXCEPT ![w] = n]
      /\ UNCHANGED <<issued, store, current, visitor, do, tx, entries, closed, deaf>>
  BY DEF Connect, Goes, sessionVars
<1>2. RequestTypes /\ visitor[w] \in Visitor /\ Made \in Nat
  BY <1>1 DEF PoolInv, RequestTypes, Requests, Made
<1>3. /\ opener' \in Seq(Visitor) /\ Made' = n /\ opener'[n] = visitor[w]
      /\ \A m \in 1..Made : opener'[m] = opener[m]
  <2>1. opener \in Seq(Visitor) /\ Made = Len(opener)
    BY <1>2 DEF RequestTypes, Made
  <2>2. opener' \in Seq(Visitor) /\ Len(opener') = Len(opener) + 1 /\ opener'[Len(opener) + 1] = visitor[w]
        /\ \A m \in 1..Len(opener) : opener'[m] = opener[m]
    BY <1>1, <1>2, <2>1
  <2> QED BY <2>1, <2>2 DEF Made
<1> HIDE DEF n
<1>4. n = Made + 1 /\ n \in Nat /\ n # 0 /\ n \notin 1..Made /\ 1..Made' = (1..Made) \cup {n}
  <2>1. n = Made + 1
    BY DEF n
  <2> QED BY <1>2, <1>3, <2>1
<1>5. /\ stage'[w] = "opening" /\ hand'[w] = n
      /\ \A o \in Worker \ {w} : stage'[o] = stage[o] /\ hand'[o] = hand[o]
  BY <1>1, <1>2 DEF RequestTypes
<1>6. RequestTypes'
  BY <1>1, <1>2, <1>3, <1>4 DEF RequestTypes, Stage
<1>7. Requests'
  <2>1. SUFFICES ASSUME NEW o \in Worker
                 PROVE  /\ stage'[o] = "idle" <=> visitor'[o] = Nobody
                        /\ stage'[o] # "idle" => current'[o] # 0
                        /\ stage'[o] \in {"idle", "owned"} <=> hand'[o] = 0
                        /\ current'[o] # 0 => current'[o] \in 1..Len(issued') /\ issued'[current'[o]] = visitor'[o]
                        /\ hand'[o] # 0 => hand'[o] \in 1..Made' /\ Person(opener'[hand'[o]]) = Person(visitor'[o])
    BY DEF Requests, Person
  <2>2. CASE o = w
    <3>1. /\ visitor'[w] = visitor[w] /\ current'[w] = current[w] /\ issued' = issued
          /\ visitor[w] # Nobody /\ current[w] # 0
          /\ current[w] \in 1..Len(issued) /\ issued[current[w]] = visitor[w]
      BY <1>1 DEF PoolInv, Requests
    <3>2. n \in 1..Made' /\ Person(opener'[n]) = Person(visitor[w])
      BY <1>3, <1>4
    <3> QED BY <1>4, <1>5, <2>2, <3>1, <3>2
  <2>3. CASE o # w
    <3>1. /\ UNCHANGED <<visitor, current, issued>> /\ stage'[o] = stage[o] /\ hand'[o] = hand[o]
      BY <1>1, <1>5, <2>3
    <3>2. hand[o] # 0 => hand[o] \in 1..Made' /\ Person(opener'[hand[o]]) = Person(visitor[o])
      BY <1>3, <1>4 DEF PoolInv, Requests
    <3> QED BY <3>1, <3>2 DEF PoolInv, Requests
  <2> QED BY <2>2, <2>3
<1>8. Names' = Names /\ PoolTypes' /\ (Cardinality(Names) <= LIMIT)'
  <2>1. Names' = Names
    BY <1>1 DEF Names
  <2> QED BY <1>1, <1>4, <2>1 DEF PoolInv, PoolTypes
<1>9. Entries'
  <2>1. \A t \in Names : entries[t].connection \in (1..Made) \ closed
             /\ OwnerIs(entries[t].owner, opener[entries[t].connection])
    BY DEF PoolInv, Entries
  <2>2. \A t \in Names : OwnerIs(entries[t].owner, opener[entries[t].connection])'
    <3>1. issued' = issued /\ entries' = entries /\ \A t \in Names : entries[t].connection \in 1..Made
      BY <1>1, <2>1
    <3>2. \A t \in Names : opener'[entries[t].connection] = opener[entries[t].connection]
      BY <1>3, <3>1
    <3> QED BY <2>1, <3>1, <3>2 DEF OwnerIs
  <2> QED BY <1>1, <1>4, <1>8, <2>1, <2>2 DEF PoolInv, Entries
<1>10. \A o \in Worker : InMaking(o)' <=> InMaking(o) \/ o = w
  BY <1>1, <1>5 DEF InMaking
<1>11. Making'
  <2>1. n \notin closed /\ \A t \in Names : entries[t].connection # n
    BY <1>4 DEF PoolInv, PoolTypes, Entries
  <2>2. \A o \in Worker : InMaking(o) => hand[o] # n
    BY <1>4 DEF PoolInv, Requests, InMaking
  <2> QED BY <1>1, <1>5, <1>8, <1>10, <2>1, <2>2 DEF PoolInv, Making
<1>12. AllKnown'
  <2>1. ~InMaking(w)
    BY <1>1 DEF InMaking
  <2> QED BY <1>1, <1>4, <1>5, <1>8, <1>10, <2>1 DEF PoolInv, AllKnown
<1>14. Found => Found'
  BY <1>1, <1>5, <1>8 DEF Found, Talking
<1> QED
  BY <1>6, <1>7, <1>8, <1>9, <1>11, <1>12, <1>14 DEF AloneInv, PoolInv

LEMMA ReadIdStep ==
  ASSUME PoolInv, NEW w \in Worker, ReadId(w)
  PROVE  PoolInv' /\ (AloneInv /\ Uncrossed' => AloneInv')
<1>1. /\ stage[w] = "opening" /\ stage' = [stage EXCEPT ![w] = "insert"]
      /\ UNCHANGED <<sessionVars, visitor, do, hand, entries, opener, closed>>
  BY DEF ReadId, Goes
<1>2. PICK id \in Nat : tx' = [tx EXCEPT ![w] = id]
  BY RpcAssumption DEF ReadId, PoolInv, RequestTypes
<1>3. /\ hand[w] # 0 /\ hand[w] \in 1..Made /\ Person(opener[hand[w]]) = Person(visitor[w])
      /\ do' \in [Worker -> Ops \cup {"none"}] /\ hand' \in [Worker -> Nat] /\ tx' \in [Worker -> Nat]
      /\ \A o \in Worker \ {w} : hand'[o] = hand[o] /\ tx'[o] = tx[o]
  BY <1>1, <1>2 DEF PoolInv, RequestTypes, Requests
<1>4. InMaking(w) /\ "insert" \in Stage \ {"idle"} /\ hand' = hand
  BY <1>1 DEF InMaking, Stage
<1> QED
  BY <1>1, <1>3, <1>4, OnStep

LEMMA AskStep ==
  ASSUME PoolInv, NEW w \in Worker, NEW t, NEW op \in Ops, Ask(w, op, t)
  PROVE  PoolInv' /\ (AloneInv /\ Uncrossed' => AloneInv')
<1> DEFINE n == entries[t].connection
<1>1. /\ stage[w] = "owned" /\ stage' = [stage EXCEPT ![w] = "waiting"] /\ t \in Names
      /\ entries[t].owner = OwnerOf(w)
      /\ do' = [do EXCEPT ![w] = op] /\ tx' = [tx EXCEPT ![w] = t] /\ hand' = [hand EXCEPT ![w] = n]
      /\ UNCHANGED <<sessionVars, visitor, entries, opener, closed>>
  BY DEF Ask, Held, Goes, Names, clientVars
<1>2. n \in 1..Made /\ n # 0 /\ n \in Nat /\ t \in Nat
  <2>1. n \in 1..Made /\ t \in Nat /\ Made \in Nat
    BY <1>1 DEF PoolInv, PoolTypes, Entries, RequestTypes, Made
  <2> HIDE DEF n
  <2> QED BY <2>1
<1>3. Person(opener[n]) = Person(visitor[w])
  BY <1>1, TheOwner
<1> HIDE DEF n
<1>4. /\ do' \in [Worker -> Ops \cup {"none"}] /\ hand' \in [Worker -> Nat] /\ tx' \in [Worker -> Nat]
      /\ \A o \in Worker \ {w} : hand'[o] = hand[o] /\ tx'[o] = tx[o]
      /\ hand'[w] = n /\ tx'[w] = t
  BY <1>1, <1>2 DEF PoolInv, RequestTypes
<1>5. ~InMaking(w) /\ "waiting" \in Stage \ {"idle"}
  BY <1>1 DEF InMaking, Stage
<1>6. entries[t].connection = n
  BY DEF n
<1> QED
  BY <1>1, <1>2, <1>3, <1>4, <1>5, <1>6, OnStep

LEMMA HearStep ==
  ASSUME PoolInv, NEW w \in Worker, Hear(w) \/ HearNothing(w)
  PROVE  PoolInv' /\ (AloneInv /\ Uncrossed' => AloneInv')
<1>1. /\ stage[w] = "waiting" /\ UNCHANGED <<issued, store, entries, opener, closed>>
      /\ (\E verdict : Ends(w, verdict)) \/ UNCHANGED <<current, requestVars>>
  BY DEF Hear, HearNothing, clientVars
<1>2. ~InMaking(w) /\ store' \subseteq Nat
  BY <1>1 DEF InMaking, PoolInv, RequestTypes
<1>3. CASE Leaves(w)
  BY <1>1, <1>2, <1>3, OverStep
<1>4. CASE Goes(w, "release") /\ UNCHANGED <<current, visitor, do, tx, hand>>
  <2>1. /\ stage' = [stage EXCEPT ![w] = "release"] /\ "release" \in Stage \ {"idle"}
        /\ UNCHANGED <<sessionVars, visitor, entries, opener, closed>>
    BY <1>1, <1>4 DEF Goes, Stage, sessionVars
  <2>2. /\ do' \in [Worker -> Ops \cup {"none"}] /\ hand' \in [Worker -> Nat] /\ tx' \in [Worker -> Nat]
        /\ hand' = hand /\ tx' = tx
        /\ hand[w] # 0 /\ hand[w] \in 1..Made /\ Person(opener[hand[w]]) = Person(visitor[w])
    BY <1>1, <1>4 DEF PoolInv, RequestTypes, Requests
  <2>3. RequestTypes' /\ Requests'
    <3>1. RequestTypes'
      BY <1>1, <1>4, <2>1, <2>2 DEF PoolInv, RequestTypes
    <3>2. \A o \in Worker : (stage'[o] = "idle" <=> stage[o] = "idle")
             /\ (stage'[o] \in {"idle", "owned"} <=> stage[o] \in {"idle", "owned"})
      BY <1>1, <2>1 DEF PoolInv, RequestTypes
    <3> QED BY <1>1, <1>4, <3>1, <3>2 DEF PoolInv, Requests, Made, Person
  <2>4. \A o \in Worker : InMaking(o)' <=> InMaking(o)
    BY <1>1, <2>1 DEF InMaking, PoolInv, RequestTypes
  <2>5. PoolTypes' /\ Entries' /\ Making' /\ AllKnown' /\ (Cardinality(Names) <= LIMIT)'
    BY <1>1, <2>2, <2>4, PoolAlone
  <2>7. Found => Found'
    <3>1. \A o \in Worker : stage'[o] \in {"waiting", "release"} => stage[o] \in {"waiting", "release"}
      BY <1>1, <2>1 DEF PoolInv, RequestTypes
    <3> QED BY <1>1, <2>2, <3>1 DEF Found, Talking, Names
  <2> QED BY <2>3, <2>5, <2>7 DEF AloneInv, PoolInv
\* the loop that reads on
<1>5. CASE UNCHANGED <<current, requestVars>>
  <2>1. UNCHANGED <<issued, store, current, stage, visitor, do, tx, hand, entries, opener, closed>>
    BY <1>1, <1>5 DEF requestVars
  <2>2. PoolTypes' /\ Entries' /\ Making' /\ AllKnown' /\ (Cardinality(Names) <= LIMIT)'
    BY <2>1, PoolAlone DEF InMaking
  <2>3. RequestTypes' /\ Requests'
    BY <2>1 DEF PoolInv, RequestTypes, Requests, Made, Person
  <2>4. Found => Found'
    BY <2>1 DEF Found, Talking, Names
  <2> QED BY <2>2, <2>3, <2>4 DEF AloneInv, PoolInv
<1> QED
  BY <1>1, <1>3, <1>4, <1>5 DEF Ends

\* connections that are let go, and the entries they have with them
LEMMA InsertStep ==
  ASSUME PoolInv, NEW w \in Worker, Insert(w)
  PROVE  PoolInv' /\ (AloneInv /\ Uncrossed' => AloneInv')
<1> DEFINE n == hand[w]
           id == tx[w]
<1>1. stage[w] = "insert" /\ InMaking(w) /\ Leaves(w) /\ UNCHANGED <<issued, store, opener>>
  BY DEF Insert, InMaking
<1>2. store' \subseteq Nat
  BY <1>1 DEF PoolInv, RequestTypes
<1>3. /\ RequestTypes' /\ Requests'
      /\ stage'[w] = "idle" /\ visitor'[w] = Nobody
      /\ \A o \in Worker \ {w} : /\ stage'[o] = stage[o] /\ visitor'[o] = visitor[o]
                                 /\ hand'[o] = hand[o] /\ tx'[o] = tx[o]
  BY <1>1, <1>2, Left
<1>4. Made' = Made /\ \A o \in Worker : InMaking(o)' <=> InMaking(o) /\ o # w
  BY <1>1, <1>3 DEF InMaking, Made
<1>5. /\ n # 0 /\ n \in 1..Made /\ n \notin closed /\ n \in Nat /\ id \in Nat
      /\ \A t \in Names : entries[t].connection # n
      /\ \A o \in Worker : InMaking(o) /\ hand[o] = n => o = w
  BY <1>1 DEF PoolInv, Requests, Making, RequestTypes
<1>6. \A t \in Names : OwnerIs(entries[t].owner, opener[entries[t].connection])'
                          <=> OwnerIs(entries'[t].owner, opener[entries'[t].connection])
  BY <1>1 DEF OwnerIs
<1>7. OwnerIs(OwnerOf(w), opener[n])
  BY <1>5, ItsOwner
<1> HIDE DEF n, id
<1>9. CASE closed' = closed \cup {n} /\ entries' = entries
  <2>1. Names' = Names
    BY <1>9 DEF Names
  <2>2. PoolTypes' /\ (Cardinality(Names) <= LIMIT)'
    BY <1>4, <1>5, <1>9, <2>1 DEF PoolInv, PoolTypes
  <2>3. Entries'
    BY <1>1, <1>4, <1>5, <1>9, <2>1 DEF PoolInv, Entries, OwnerIs
  <2>4. Making'
    BY <1>3, <1>4, <1>5, <1>9, <2>1 DEF PoolInv, Making
  <2>5. AllKnown'
    BY <1>3, <1>4, <1>9, <2>1 DEF PoolInv, AllKnown, n
  <2>6. Found => Found'
    BY <1>3, <1>9, <2>1 DEF Found, Talking
  <2> QED BY <1>3, <2>2, <2>3, <2>4, <2>5, <2>6 DEF AloneInv, PoolInv
<1>10. CASE /\ id \notin Names /\ ~(Cardinality(Names) >= LIMIT)
            /\ entries' = With(id, Entry(w)) /\ closed' = closed
  <2>1. /\ Names' = Names \cup {id} /\ entries'[id] = [connection |-> n, owner |-> OwnerOf(w)]
        /\ \A t \in Names : entries'[t] = entries[t]
        /\ entries' = [t \in Names \cup {id} |-> IF t = id THEN [connection |-> n, owner |-> OwnerOf(w)] ELSE entries[t]]
    BY <1>10 DEF With, Entry, Names, n
  <2>2. Cardinality(Names') = Cardinality(Names) + 1 /\ IsFiniteSet(Names') /\ Cardinality(Names) \in Nat
    BY <1>10, <2>1, FS_AddElement, FS_CardinalityType DEF PoolInv, PoolTypes
  <2>3. PoolTypes'
    <3>1. \A t \in Names' : entries'[t] \in [connection : Nat, owner : {entries'[u].owner : u \in Names'}]
      <4> TAKE t \in Names'
      <4>1. CASE t = id
        BY <1>5, <2>1, <4>1
      <4>2. CASE t \in Names
        <5>1. entries[t] \in [connection : Nat, owner : {entries[u].owner : u \in Names}]
          BY <4>2 DEF PoolInv, PoolTypes
        <5> QED BY <2>1, <4>2, <5>1
      <4> QED BY <2>1, <4>1, <4>2
    <3>2. entries' = [t \in Names' |-> entries'[t]]
      BY <2>1
    <3>3. entries' \in [Names' -> [connection : Nat, owner : {entries'[u].owner : u \in Names'}]]
      BY <3>1, <3>2
    <3> QED BY <1>4, <1>5, <1>10, <2>1, <2>2, <3>3 DEF PoolInv, PoolTypes
  <2>4. (Cardinality(Names) <= LIMIT)'
    BY <1>10, <2>2, RpcAssumption
  <2>5. Entries'
    <3>1. \A t \in Names' : entries'[t].connection \in (1..Made) \ closed
             /\ OwnerIs(entries'[t].owner, opener[entries'[t].connection])
      BY <1>5, <1>7, <2>1 DEF PoolInv, Entries
    <3>2. \A t, u \in Names' : entries'[t].connection = entries'[u].connection => t = u
      BY <1>5, <2>1 DEF PoolInv, Entries
    <3> QED BY <1>1, <1>4, <1>10, <3>1, <3>2 DEF Entries, OwnerIs
  <2>6. Making'
    BY <1>3, <1>4, <1>5, <1>10, <2>1 DEF PoolInv, Making
  <2>7. AllKnown'
    <3>1. SUFFICES ASSUME NEW m \in (1..Made) \ closed
                   PROVE  (\E t \in Names' : entries'[t].connection = m)
                            \/ \E o \in Worker : InMaking(o)' /\ hand'[o] = m
      BY <1>4, <1>10 DEF AllKnown
    <3>2. CASE m = n
      BY <2>1, <3>2
    <3>3. CASE m # n
      BY <1>3, <1>4, <2>1, <3>3 DEF PoolInv, AllKnown, n
    <3> QED BY <3>2, <3>3
  <2>8. Found => Found'
    BY <1>3, <1>10, <2>1 DEF Found, Talking
  <2> QED BY <1>3, <2>3, <2>4, <2>5, <2>6, <2>7, <2>8 DEF AloneInv, PoolInv
<1> QED
  BY <1>9, <1>10 DEF Insert, Close, Names, n, id

LEMMA ForgetStep ==
  ASSUME PoolInv, NEW w \in Worker, Forget(w)
  PROVE  PoolInv' /\ (AloneInv /\ Uncrossed' => AloneInv')
<1> DEFINE id == tx[w]
           n == entries[id].connection
<1>1. stage[w] = "release" /\ ~InMaking(w) /\ Leaves(w) /\ UNCHANGED <<issued, store, opener>>
  BY DEF Forget, InMaking
<1>2. store' \subseteq Nat
  BY <1>1 DEF PoolInv, RequestTypes
<1>3. CASE id \notin Names
  <2>1. UNCHANGED <<entries, closed>>
    BY <1>3 DEF Forget, Names
  <2> QED BY <1>1, <1>2, <2>1, OverStep
<1>4. CASE id \in Names
  <2>1. /\ RequestTypes' /\ Requests'
        /\ stage'[w] = "idle" /\ visitor'[w] = Nobody
        /\ \A o \in Worker \ {w} : /\ stage'[o] = stage[o] /\ visitor'[o] = visitor[o]
                                   /\ hand'[o] = hand[o] /\ tx'[o] = tx[o]
    BY <1>1, <1>2, Left
  <2>2. Made' = Made /\ \A o \in Worker : InMaking(o)' <=> InMaking(o)
    BY <1>1, <2>1 DEF InMaking, Made
  <2>3. /\ Names' = Names \ {id} /\ closed' = closed \cup {n}
        /\ \A t \in Names' : entries'[t] = entries[t]
        /\ entries' = [t \in Names \ {id} |-> entries[t]]
    BY <1>4 DEF Forget, Close, Restrict, Names
  <2>4. n \in (1..Made) \ closed /\ \A t \in Names' : entries[t].connection # n
    BY <1>4, <2>3 DEF PoolInv, Entries
  <2> HIDE DEF n, id
  <2>5. IsFiniteSet(Names') /\ Cardinality(Names') <= Cardinality(Names) /\ Cardinality(Names) \in Nat /\ Cardinality(Names') \in Nat
    <3>1. Names' \subseteq Names /\ IsFiniteSet(Names)
      BY <2>3 DEF PoolInv, PoolTypes
    <3> QED BY <3>1, FS_Subset, FS_CardinalityType
  <2>6. (Cardinality(Names) <= LIMIT)'
    BY <2>5, RpcAssumption DEF PoolInv
  <2>7. PoolTypes'
    <3>1. \A t \in Names' : entries'[t] \in [connection : Nat, owner : {entries'[u].owner : u \in Names'}]
      <4> TAKE t \in Names'
      <4>1. entries[t] \in [connection : Nat, owner : {entries[u].owner : u \in Names}]
        BY <2>3 DEF PoolInv, PoolTypes
      <4> QED BY <2>3, <4>1
    <3>2. entries' = [t \in Names' |-> entries'[t]]
      BY <2>3
    <3>3. entries' \in [Names' -> [connection : Nat, owner : {entries'[u].owner : u \in Names'}]]
      BY <3>1, <3>2
    <3> QED BY <2>2, <2>3, <2>4, <2>5, <3>3 DEF PoolInv, PoolTypes
  <2>8. Entries'
    <3>1. \A t \in Names' : entries'[t].connection \in (1..Made) \ closed'
             /\ OwnerIs(entries'[t].owner, opener[entries'[t].connection])
      BY <2>3, <2>4 DEF PoolInv, Entries
    <3>2. \A t, u \in Names' : entries'[t].connection = entries'[u].connection => t = u
      BY <2>3 DEF PoolInv, Entries
    <3> QED BY <1>1, <2>2, <3>1, <3>2 DEF Entries, OwnerIs
  <2>9. Making'
    <3>1. \A o \in Worker : InMaking(o) => o # w /\ hand[o] # n
      BY <1>1, <1>4 DEF PoolInv, Making, n
    <3> QED BY <2>1, <2>2, <2>3, <3>1 DEF PoolInv, Making
  <2>10. AllKnown'
    <3>1. SUFFICES ASSUME NEW m \in (1..Made) \ closed, m # n
                   PROVE  (\E t \in Names' : entries'[t].connection = m)
                            \/ \E o \in Worker : InMaking(o)' /\ hand'[o] = m
      BY <2>2, <2>3 DEF AllKnown
    <3>2. (\E t \in Names : entries[t].connection = m) \/ \E o \in Worker : InMaking(o) /\ hand[o] = m
      BY <3>1 DEF PoolInv, AllKnown
    <3>3. \A t \in Names : entries[t].connection = m => t # id
      BY <3>1 DEF n
    <3> QED BY <1>1, <2>1, <2>2, <2>3, <3>2, <3>3
  <2>12. AloneInv => Found'
    <3>1. SUFFICES ASSUME AloneInv, NEW o \in Worker, o # w, stage[o] \in {"waiting", "release"}
                   PROVE  tx[o] \in Names' /\ entries'[tx[o]].connection = hand[o]
      BY <2>1 DEF Found, Talking
    <3>2. /\ tx[o] \in Names /\ entries[tx[o]].connection = hand[o]
          /\ entries[id].connection = hand[w]
      BY <1>1, <3>1 DEF AloneInv, Found, Talking, id
    <3>3. tx[o] # id
      <4>1. Talking(o) /\ Talking(w)
        BY <1>1, <3>1 DEF Talking
      <4> QED BY <3>1, <3>2, <4>1 DEF AloneInv, Uncrossed
    <3> QED BY <2>3, <3>2, <3>3
  <2> QED BY <2>1, <2>6, <2>7, <2>8, <2>9, <2>10, <2>12 DEF AloneInv, PoolInv
<1> QED
  BY <1>3, <1>4

LEMMA StepPool == PoolInv /\ [Next]_vars => PoolInv' /\ (AloneInv /\ Uncrossed' => AloneInv')
<1> SUFFICES ASSUME PoolInv, [Next]_vars PROVE PoolInv' /\ (AloneInv /\ Uncrossed' => AloneInv')
  OBVIOUS
<1>1. CASE UNCHANGED vars
  BY <1>1, ServerSteps DEF vars
<1>2. ASSUME NEW n \in Connection, ServerStep(n) PROVE PoolInv' /\ (AloneInv /\ Uncrossed' => AloneInv')
  BY <1>2, ServerSteps DEF ServerStep, Serve, Perform, Fail, HangUp
<1>3. ASSUME NEW w \in Worker, Visit(w) PROVE PoolInv' /\ (AloneInv /\ Uncrossed' => AloneInv')
  BY <1>3, VisitStep
<1>4. ASSUME NEW w \in Worker, NEW v \in Visitor, Request(w, v)
      PROVE  PoolInv' /\ (AloneInv /\ Uncrossed' => AloneInv')
  BY <1>4, RequestStep
<1>5. ASSUME NEW w \in Worker, PageStep(w) PROVE PoolInv' /\ (AloneInv /\ Uncrossed' => AloneInv')
  <2>1. CASE Destroy(w)
    <3>1. ~InMaking(w) /\ store' \subseteq Nat
      BY <2>1 DEF Destroy, InMaking, PoolInv, RequestTypes
    <3>2. Leaves(w) /\ UNCHANGED <<issued, opener, entries, closed>>
      BY <2>1 DEF Destroy, clientVars
    <3> QED BY <3>1, <3>2, OverStep
  <2>2. ASSUME NEW t \in 0..MaxConnections, NotHeld(w, t) PROVE PoolInv' /\ (AloneInv /\ Uncrossed' => AloneInv')
    <3>1. ~InMaking(w) /\ store' \subseteq Nat
      BY <2>2 DEF NotHeld, InMaking, PoolInv, RequestTypes
    <3>2. Leaves(w) /\ UNCHANGED <<issued, opener, entries, closed>>
      BY <2>2 DEF NotHeld, clientVars
    <3> QED BY <3>1, <3>2, OverStep
  <2>3. CASE Connect(w)
    BY <2>3, ConnectStep
  <2>4. CASE ReadId(w)
    BY <2>4, ReadIdStep
  <2>5. CASE Insert(w)
    BY <2>5, InsertStep
  <2>6. ASSUME NEW t \in 0..MaxConnections, NEW op \in Ops, Ask(w, op, t) PROVE PoolInv' /\ (AloneInv /\ Uncrossed' => AloneInv')
    BY <2>6, AskStep
  <2>7. CASE Hear(w) \/ HearNothing(w)
    BY <2>7, HearStep
  <2>8. CASE Forget(w)
    BY <2>8, ForgetStep
  <2> QED BY <1>5, <2>1, <2>2, <2>3, <2>4, <2>5, <2>6, <2>7, <2>8 DEF PageStep
<1> QED
  BY <1>1, <1>2, <1>3, <1>4, <1>5 DEF Next

-----------------------------------------------------------------------------
(* The theorems                                                            *)

LEMMA PoolAlways == Spec => []PoolInv
BY InitPool, StepPool, PTL DEF Spec, AloneInv

\* Every connection that was made is closed, or has one entry in the pool, or is
\* in the hand of the request that is opening it, and the pool keeps its limit,
\* whoever calls what how often (RPCPool::open and release, Connector::close).
THEOREM NoConnectionIsLost == Spec => []Accounted
<1>1. ASSUME PoolInv PROVE Accounted
  <2>1. Names = DOMAIN entries /\ IsFiniteSet(Names) /\ Cardinality(Names) <= LIMIT
    BY <1>1 DEF PoolInv, PoolTypes, Names
  <2>2. Cardinality(Entered) = Cardinality(Names)
    <3> DEFINE f == [t \in Names |-> entries[t].connection]
    <3>1. Entered = {entries[t].connection : t \in Names}
      BY DEF Entered, Names
    <3>2. f \in Surjection(Names, Entered) /\ f \in Injection(Names, Entered)
      BY <1>1, <3>1 DEF PoolInv, Entries, Surjection, Injection, IsInjective
    <3> QED BY <2>1, <3>2, FS_Surjection
  <2>3. /\ \A n : n \in Entered <=> \E t \in Names : entries[t].connection = n
        /\ \A n : n \in Opening <=> \E w \in Worker : InMaking(w) /\ hand[w] = n
    BY DEF Entered, Opening, Names, InMaking
  <2>4. Entered \cup Opening \subseteq (1..Made) \ closed
    BY <1>1, <2>3 DEF PoolInv, Entries, Making, Requests, InMaking
  <2>5. (1..Made) \ closed \subseteq Entered \cup Opening
    BY <1>1, <2>3 DEF PoolInv, AllKnown
  <2>6. Entered \cap Opening = {}
    BY <1>1, <2>3 DEF PoolInv, Making
  <2> QED BY <2>1, <2>2, <2>4, <2>5, <2>6 DEF Accounted
<1>2. PoolInv => Accounted
  BY <1>1
<1> QED
  BY <1>2, PoolAlways, PTL

\* A request works in a transaction only if it was opened for the same person, and
\* in the session issued to its visitor: for any requests at a time, several of one
\* person included (RPCPool::held, owner; Session::INITIALIZE, EXPIRE, RELEASE).
THEOREM NobodyElsesTransaction == Spec => []OnlyTheirs
<1>1. PoolInv => OnlyTheirs
  BY DEF PoolInv, Requests, OnlyTheirs
<1> QED
  BY <1>1, PoolAlways, PTL

\* Where no two requests are inside one connection nobody takes a connection away
\* from a request: what closes one under another is a second request of the same
\* owner in the same transaction, and nothing else (RPCPool::held and release).
THEOREM OnlyItsOwnRelease == Spec /\ []Uncrossed => []OnlyOwners
<1>1. Init => PoolInv /\ Found
  BY InitPool DEF AloneInv
<1>2. PoolInv /\ Found /\ Uncrossed /\ Uncrossed' /\ [Next]_vars => (PoolInv /\ Found)'
  BY StepPool DEF AloneInv
<1>3. PoolInv /\ Found => OnlyOwners
  <2>1. SUFFICES ASSUME PoolInv, Found, NEW w \in Worker, Talking(w)
                 PROVE  /\ hand[w] \notin closed
                        /\ tx[w] \in DOMAIN entries /\ entries[tx[w]].connection = hand[w]
    BY DEF OnlyOwners, OnlyTheirs, PoolInv, Requests, Talking
  <2> QED BY <2>1 DEF PoolInv, Entries, Found, Names
<1> QED
  BY <1>1, <1>2, <1>3, PTL DEF Spec

-----------------------------------------------------------------------------
(* What is said on the wires                                               *)

\* what a commit or a rollback that went well says of the work
Told(op, done) == done # "staged" /\ (op = "commit" => done # "lost")

WireTypes ==
    /\ side \in [Connection -> {"none", "waiting", "up", "over"}]
    /\ wire \in [Connection -> Ops \cup Answers \cup {"empty"}]
    /\ work \in [Connection -> {"none", "clean", "staged", "kept", "lost"}]
    /\ Made <= MaxConnections

\* a thread of the server that is there has lost nothing it was not told to
Upright ==
    \A n \in Connection \ (deaf \cup closed) :
      side[n] = "up" /\ work[n] = "lost" =>
        \E w \in Worker : Talking(w) /\ hand[w] = n /\ do[w] = "rollback"

\* on a stream that works there is something only while somebody waits for it
Quiet ==
    \A n \in Connection \ (deaf \cup closed) :
      wire[n] # "empty" => \E w \in Worker : stage[w] = "waiting" /\ hand[w] = n

\* and what is there is the request or a true answer to it; a refusal is the last
Spoken ==
    \A w \in Worker : hand[w] \notin deaf =>
      /\ stage[w] = "waiting" =>
           /\ wire[hand[w]] \in Answers \cup {do[w], "empty"}
           /\ wire[hand[w]] = "done" /\ do[w] # "call" => Told(do[w], work[hand[w]])
           /\ wire[hand[w]] = "thrown" => side[hand[w]] = "over"
      /\ stage[w] = "release" => Told(do[w], work[hand[w]])

TalkInv == AloneInv /\ WireTypes /\ Upright /\ Quiet /\ Spoken

LEMMA Numbered ==
  ASSUME TalkInv, NEW n \in 1..Made
  PROVE  n \in Connection
<1>1. Made \in Nat /\ MaxConnections \in Nat /\ Made <= MaxConnections
  BY RpcAssumption DEF TalkInv, AloneInv, PoolInv, RequestTypes, WireTypes, Made
<1> QED
  BY <1>1 DEF Connection

\* two requests do not talk over one connection, and it is a live one
LEMMA OneTalks ==
  ASSUME AloneInv, NEW w \in Worker, Talking(w)
  PROVE  /\ hand[w] \in (1..Made) \ closed
         /\ \A o \in Worker : Talking(o) /\ hand[o] = hand[w] => o = w
         /\ \A o \in Worker : InMaking(o) => hand[o] # hand[w]
<1>1. tx[w] \in Names /\ entries[tx[w]].connection = hand[w]
  BY DEF AloneInv, Found, Talking
<1>2. hand[w] \in (1..Made) \ closed
  BY <1>1 DEF AloneInv, PoolInv, Entries
<1>3. \A o \in Worker : Talking(o) /\ hand[o] = hand[w] => o = w
  BY DEF AloneInv, Uncrossed
<1>4. \A o \in Worker : InMaking(o) => hand[o] # hand[w]
  BY <1>1 DEF AloneInv, PoolInv, Making
<1> QED
  BY <1>2, <1>3, <1>4

\* a step that is not about an answer
LEMMA Elsewhere ==
  ASSUME TalkInv, AloneInv', UNCHANGED <<wire, work>>,
         \A n \in 1..Made : side[n] = "over" => side'[n] = "over",
         \A n \in Connection : side'[n] = "up" => side[n] = "up",
         deaf \subseteq deaf' \cup closed', closed \subseteq closed',
         \A o \in Worker : Talking(o)' => stage'[o] = stage[o] /\ hand'[o] = hand[o] /\ do'[o] = do[o],
         \A o \in Worker : Talking(o) =>
           (stage'[o] = stage[o] /\ hand'[o] = hand[o] /\ do'[o] = do[o]) \/ hand[o] \in closed'
  PROVE  Upright' /\ Quiet' /\ Spoken'
<1>1. Upright' /\ Quiet'
  BY DEF TalkInv, Upright, Quiet, Talking
<1>2. Spoken'
  <2>1. SUFFICES ASSUME NEW w \in Worker, hand'[w] \notin deaf', Talking(w)'
                 PROVE  /\ stage'[w] = "waiting" =>
                             /\ wire[hand'[w]] \in Answers \cup {do'[w], "empty"}
                             /\ wire[hand'[w]] = "done" /\ do'[w] # "call" => Told(do'[w], work[hand'[w]])
                             /\ wire[hand'[w]] = "thrown" => side'[hand'[w]] = "over"
                        /\ stage'[w] = "release" => Told(do'[w], work[hand'[w]])
    BY DEF Spoken, Told, Talking
  <2>2. hand'[w] \notin closed'
    <3>1. /\ tx'[w] \in Names' /\ entries'[tx'[w]].connection = hand'[w]
      BY <2>1 DEF AloneInv, Found, Talking
    <3> QED BY <3>1 DEF AloneInv, PoolInv, Entries
  <2>3. /\ stage'[w] = stage[w] /\ hand'[w] = hand[w] /\ do'[w] = do[w]
        /\ hand[w] \notin deaf
    BY <2>1, <2>2
  <2>4. hand[w] \in 1..Made
    BY <2>1, <2>3, OneTalks DEF TalkInv, Talking
  <2> QED BY <2>1, <2>3, <2>4 DEF TalkInv, Spoken
<1> QED
  BY <1>1, <1>2

\* a request that leaves, or goes on without a word
LEMMA Silent ==
  ASSUME TalkInv, AloneInv', NEW w \in Worker, Talking(w) => hand[w] \in closed', NEW s \in Stage \ {"waiting", "release"},
         stage' = [stage EXCEPT ![w] = s],
         \A o \in Worker \ {w} : hand'[o] = hand[o] /\ do'[o] = do[o],
         UNCHANGED <<wire, work>>, deaf \subseteq deaf' \cup closed', closed \subseteq closed',
         \A n \in 1..Made : side[n] = "over" => side'[n] = "over",
         \A n \in Connection : side'[n] = "up" => side[n] = "up"
  PROVE  Upright' /\ Quiet' /\ Spoken'
<1>1. stage \in [Worker -> Stage]
  BY DEF TalkInv, AloneInv, PoolInv, RequestTypes
<1>2. stage'[w] = s /\ \A o \in Worker \ {w} : stage'[o] = stage[o]
  BY <1>1
<1>3. \A o \in Worker : Talking(o)' => stage'[o] = stage[o] /\ hand'[o] = hand[o] /\ do'[o] = do[o]
  BY <1>2 DEF Talking
<1>4. \A o \in Worker : Talking(o) =>
         (stage'[o] = stage[o] /\ hand'[o] = hand[o] /\ do'[o] = do[o]) \/ hand[o] \in closed'
  BY <1>2
<1> QED
  BY <1>3, <1>4, Elsewhere

LEMMA InitTalk == Init => TalkInv
<1> SUFFICES ASSUME Init PROVE TalkInv
  OBVIOUS
<1>1. WireTypes /\ Upright /\ Quiet /\ Spoken
  BY RpcAssumption DEF Init, WireTypes, Upright, Quiet, Spoken, Talking, Made, Connection
<1> QED
  BY <1>1, InitPool DEF TalkInv

\* what a request does between its questions
LEMMA QuietSteps ==
  ASSUME TalkInv, AloneInv', NEW w \in Worker,
         \/ Visit(w) \/ (\E v \in Visitor : Request(w, v)) \/ Destroy(w) \/ Connect(w) \/ ReadId(w)
         \/ Insert(w) \/ Forget(w) \/ \E t \in 0..MaxConnections : NotHeld(w, t)
  PROVE  TalkInv'
<1>0. RequestTypes
  BY DEF TalkInv, AloneInv, PoolInv
<1>1. CASE Visit(w)
  <2>1. UNCHANGED <<requestVars, clientVars, serverVars>>
    BY <1>1 DEF Visit
  <2>2. UNCHANGED <<stage, visitor, do, tx, hand, opener, closed, deaf, side, wire, work>>
    BY <2>1 DEF requestVars, clientVars, serverVars
  <2>3. Upright' /\ Quiet' /\ Spoken'
    BY <2>2, Elsewhere DEF Talking
  <2> QED BY <2>2, <2>3 DEF TalkInv, WireTypes, Made
<1>2. CASE \E v \in Visitor : Request(w, v)
  <2>1. /\ stage[w] = "idle" /\ stage' = [stage EXCEPT ![w] = "owned"]
        /\ UNCHANGED <<do, hand, opener, closed, deaf, side, wire, work>>
    BY <1>2 DEF Request, Goes, clientVars, serverVars
  <2>2. Upright' /\ Quiet' /\ Spoken'
    BY <2>1, Silent DEF Stage, Talking
  <2> QED BY <2>1, <2>2 DEF TalkInv, WireTypes, Made
<1>3. CASE Destroy(w) \/ \E t \in 0..MaxConnections : NotHeld(w, t)
  <2>1. /\ stage[w] = "owned" /\ Leaves(w)
        /\ UNCHANGED <<opener, closed, deaf, side, wire, work>>
    BY <1>3 DEF Destroy, NotHeld, clientVars, serverVars
  <2>2. /\ stage' = [stage EXCEPT ![w] = "idle"]
        /\ \A o \in Worker \ {w} : hand'[o] = hand[o] /\ do'[o] = do[o]
    BY <1>0, <2>1 DEF Leaves, Goes, RequestTypes
  <2>3. Upright' /\ Quiet' /\ Spoken'
    BY <2>1, <2>2, Silent DEF Stage, Talking
  <2> QED BY <2>1, <2>3 DEF TalkInv, WireTypes, Made
<1>4. CASE Connect(w)
  <2>1. /\ stage[w] = "owned" /\ stage' = [stage EXCEPT ![w] = "opening"]
        /\ hand' = [hand EXCEPT ![w] = Made + 1] /\ opener' = Append(opener, visitor[w])
        /\ Made + 1 <= MaxConnections
        /\ UNCHANGED <<do, closed, deaf, wire, work>>
        /\ \E s \in {"waiting", "over"} : side' = [side EXCEPT ![Made + 1] = s]
    BY <1>4 DEF Connect, Goes
  <2>2. \A o \in Worker \ {w} : hand'[o] = hand[o] /\ do'[o] = do[o]
    BY <1>0, <2>1 DEF RequestTypes
  <2>3. Upright' /\ Quiet' /\ Spoken'
    <3>1. /\ \A n \in 1..Made : side[n] = "over" => side'[n] = "over"
          /\ \A n \in Connection : side'[n] = "up" => side[n] = "up"
      <4>1. Made \in Nat /\ side \in [Connection -> {"none", "waiting", "up", "over"}]
        BY <1>0 DEF RequestTypes, TalkInv, WireTypes, Made
      <4> QED BY <2>1, <4>1 DEF Connection
    <3> QED BY <2>1, <2>2, <3>1, Silent DEF Stage, Talking
  <2>4. Made' = Made + 1
    <3>1. opener \in Seq(Visitor) /\ visitor[w] \in Visitor
      BY <1>0, <2>1 DEF RequestTypes, TalkInv, AloneInv, PoolInv, Requests
    <3> QED BY <2>1, <3>1 DEF Made
  <2>5. WireTypes'
    BY <2>1, <2>4 DEF TalkInv, WireTypes
  <2> QED BY <2>3, <2>5 DEF TalkInv
<1>5. CASE ReadId(w)
  <2>1. /\ stage[w] = "opening" /\ stage' = [stage EXCEPT ![w] = "insert"]
        /\ UNCHANGED <<do, hand, opener, closed, side, wire, work>> /\ deaf \subseteq deaf'
    BY <1>5 DEF ReadId, Goes, serverVars
  <2>2. Upright' /\ Quiet' /\ Spoken'
    BY <2>1, Silent DEF Stage, Talking
  <2> QED BY <2>1, <2>2 DEF TalkInv, WireTypes, Made
<1>6. CASE Insert(w) \/ Forget(w)
  <2>1. /\ stage[w] \in {"insert", "release"} /\ Leaves(w)
        /\ deaf \subseteq deaf' \cup closed' /\ closed \subseteq closed'
        /\ UNCHANGED <<opener, side, wire, work>>
    BY <1>6 DEF Insert, Forget, Close, serverVars
  <2>2. /\ stage' = [stage EXCEPT ![w] = "idle"]
        /\ \A o \in Worker \ {w} : hand'[o] = hand[o] /\ do'[o] = do[o]
    BY <1>0, <2>1 DEF Leaves, Goes, RequestTypes
  <2>3. Talking(w) => hand[w] \in closed'
    <3>1. Talking(w) => Forget(w) /\ tx[w] \in DOMAIN entries /\ entries[tx[w]].connection = hand[w]
      BY <1>6 DEF Insert, Talking, TalkInv, AloneInv, Found, Names
    <3> QED BY <3>1 DEF Forget, Close
  <2>4. Upright' /\ Quiet' /\ Spoken'
    BY <2>1, <2>2, <2>3, Silent DEF Stage
  <2> QED BY <2>1, <2>4 DEF TalkInv, WireTypes, Made
<1> QED
  BY <1>1, <1>2, <1>3, <1>4, <1>5, <1>6

\* the question: nobody else talks over the connection
LEMMA AskTalk ==
  ASSUME TalkInv, AloneInv', NEW w \in Worker, NEW t, NEW op \in Ops, Ask(w, op, t)
  PROVE  TalkInv'
<1> DEFINE n == entries[t].connection
<1>0. RequestTypes
  BY DEF TalkInv, AloneInv, PoolInv
<1>1. /\ stage[w] = "owned" /\ stage' = [stage EXCEPT ![w] = "waiting"] /\ t \in Names
      /\ do' = [do EXCEPT ![w] = op] /\ hand' = [hand EXCEPT ![w] = n]
      /\ entries[t].owner = OwnerOf(w) /\ n \in 1..Made /\ n \notin closed
      /\ UNCHANGED <<opener, closed, deaf, side, work>>
      /\ wire' = IF n \in deaf \/ side[n] = "over" THEN wire ELSE [wire EXCEPT ![n] = op]
  BY DEF Ask, Held, Goes, Names, clientVars, TalkInv, AloneInv, PoolInv, Entries
<1>2. \A o \in Worker : Talking(o) => hand[o] # n
  <2>1. SUFFICES ASSUME NEW o \in Worker, Talking(o), hand[o] = n PROVE FALSE
    OBVIOUS
  <2>2. o # w
    BY <1>1, <2>1 DEF Talking
  <2>3. Talking(o)' /\ Talking(w)' /\ hand'[o] = hand'[w]
    BY <1>0, <1>1, <2>1, <2>2 DEF RequestTypes, Talking
  <2> QED BY <2>2, <2>3 DEF AloneInv, Uncrossed
<1>3. n \in Connection /\ (n \notin deaf => wire[n] = "empty")
  BY <1>1, <1>2, Numbered DEF TalkInv, Quiet, Talking
<1> HIDE DEF n
<1>4. /\ stage'[w] = "waiting" /\ hand'[w] = n /\ do'[w] = op
      /\ \A o \in Worker \ {w} : stage'[o] = stage[o] /\ hand'[o] = hand[o] /\ do'[o] = do[o]
  BY <1>0, <1>1 DEF RequestTypes
<1>5. /\ wire' \in [Connection -> Ops \cup Answers \cup {"empty"}]
      /\ \A m \in Connection \ {n} : wire'[m] = wire[m]
      /\ n \notin deaf => wire'[n] \in {op, "empty"}
  BY <1>1, <1>3 DEF TalkInv, WireTypes
<1>6. WireTypes' /\ Upright'
  <2>1. WireTypes'
    BY <1>1, <1>5 DEF TalkInv, WireTypes, Made
  <2>2. \A o \in Worker : Talking(o) => o # w /\ Talking(o)'
    BY <1>1, <1>4 DEF Talking
  <2>3. Upright'
    BY <1>1, <1>4, <2>2 DEF TalkInv, Upright
  <2> QED BY <2>1, <2>3
<1>7. Quiet'
  <2>1. SUFFICES ASSUME NEW m \in Connection \ (deaf \cup closed), wire'[m] # "empty"
                 PROVE  \E o \in Worker : stage'[o] = "waiting" /\ hand'[o] = m
    BY <1>1 DEF Quiet
  <2>2. CASE m = n
    BY <1>4, <2>2
  <2>3. CASE m # n
    BY <1>1, <1>4, <1>5, <2>1, <2>3 DEF TalkInv, Quiet
  <2> QED BY <2>2, <2>3
<1>8. Spoken'
  <2>1. SUFFICES ASSUME NEW o \in Worker, hand'[o] \notin deaf, Talking(o)'
                 PROVE  /\ stage'[o] = "waiting" =>
                             /\ wire'[hand'[o]] \in Answers \cup {do'[o], "empty"}
                             /\ wire'[hand'[o]] = "done" /\ do'[o] # "call" => Told(do'[o], work[hand'[o]])
                             /\ wire'[hand'[o]] = "thrown" => side[hand'[o]] = "over"
                        /\ stage'[o] = "release" => Told(do'[o], work[hand'[o]])
    BY <1>1 DEF Spoken, Told, Talking
  <2>2. CASE o = w
    BY <1>4, <1>5, <2>1, <2>2 DEF Ops
  <2>3. CASE o # w
    <3>1. Talking(o) /\ hand[o] # n /\ hand[o] \in 1..Made
      BY <1>2, <1>4, <2>1, <2>3, OneTalks DEF Talking, TalkInv
    <3>2. hand[o] \in Connection /\ wire'[hand[o]] = wire[hand[o]]
      BY <1>5, <3>1, Numbered
    <3> QED BY <1>4, <2>1, <2>3, <3>2 DEF TalkInv, Spoken
  <2> QED BY <2>2, <2>3
<1> QED
  BY <1>6, <1>7, <1>8 DEF TalkInv

\* the answer, or that there is none
LEMMA HearTalk ==
  ASSUME TalkInv, AloneInv', NEW w \in Worker, Hear(w) \/ HearNothing(w)
  PROVE  TalkInv'
<1> DEFINE n == hand[w]
<1>0. RequestTypes
  BY DEF TalkInv, AloneInv, PoolInv
<1>1. stage[w] = "waiting" /\ Talking(w) /\ UNCHANGED <<opener, closed, side, work>>
  BY DEF Hear, HearNothing, Talking, clientVars, serverVars
<1>2. /\ n \in 1..Made /\ n \in Connection /\ n \notin closed
      /\ \A o \in Worker : Talking(o) /\ hand[o] = n => o = w
  BY <1>1, OneTalks, Numbered DEF TalkInv
<1>3. /\ \/ stage' = [stage EXCEPT ![w] = "idle"]
         \/ stage' = [stage EXCEPT ![w] = "release"] /\ do'[w] = do[w] /\ hand'[w] = n /\ do[w] # "call"
         \/ stage' = stage /\ do' = do /\ hand'[w] = n /\ n \in deaf' /\ do[w] = "call"
      /\ \A o \in Worker \ {w} : hand'[o] = hand[o] /\ do'[o] = do[o]
  <2>1. CASE \E verdict \in Answers : Ends(w, verdict)
    BY <1>0, <2>1 DEF Ends, Leaves, Goes, RequestTypes
  <2>2. CASE HearNothing(w) /\ do[w] = "call" /\ UNCHANGED requestVars
    BY <1>0, <2>2 DEF HearNothing, requestVars, RequestTypes
  <2> QED BY <2>1, <2>2 DEF Hear, HearNothing
<1>4. \A o \in Worker \ {w} : stage'[o] = stage[o]
  BY <1>0, <1>3 DEF RequestTypes
<1>5. /\ deaf \subseteq deaf' /\ wire' \in [Connection -> Ops \cup Answers \cup {"empty"}]
      /\ \A m \in Connection \ {n} : wire'[m] = wire[m]
      /\ n \in deaf' \/ wire'[n] = "empty"
  BY <1>2 DEF Hear, HearNothing, TalkInv, WireTypes, clientVars, serverVars
<1>6. /\ n \notin deaf' /\ wire[n] # "thrown" /\ do[w] # "call" =>
           stage'[w] = "release" /\ do'[w] = do[w] /\ hand'[w] = n
      /\ stage'[w] = "release" => n \in deaf' \/ (wire[n] = "done" /\ n \notin deaf /\ do[w] # "call")
  <2>1. CASE Hear(w)
    BY <1>0, <1>1, <2>1 DEF Hear, Ends, Leaves, Goes, RequestTypes, Answers
  <2>2. CASE HearNothing(w)
    BY <2>2 DEF HearNothing
  <2> QED BY <2>1, <2>2
<1> HIDE DEF n
<1>7. WireTypes' /\ Upright'
  <2>1. WireTypes'
    BY <1>1, <1>5 DEF TalkInv, WireTypes, Made
  <2>2. SUFFICES ASSUME NEW m \in Connection \ (deaf' \cup closed), side[m] = "up", work[m] = "lost"
                 PROVE  \E o \in Worker : Talking(o)' /\ hand'[o] = m /\ do'[o] = "rollback"
    BY <1>1, <2>1 DEF Upright
  <2>3. PICK o \in Worker : Talking(o) /\ hand[o] = m /\ do[o] = "rollback"
    BY <1>5, <2>2 DEF TalkInv, Upright
  <2>4. CASE o # w
    BY <1>3, <1>4, <2>3, <2>4 DEF Talking
  <2>5. CASE o = w
    <3>1. m = n /\ n \notin deaf /\ n \notin deaf' /\ wire[n] # "thrown"
      BY <1>1, <1>5, <2>2, <2>3, <2>5 DEF TalkInv, Spoken, n
    <3>2. stage'[w] = "release" /\ do'[w] = do[w] /\ hand'[w] = n
      BY <1>0, <1>6, <2>3, <2>5, <3>1 DEF RequestTypes
    <3> QED BY <2>3, <2>5, <3>1, <3>2 DEF Talking
  <2> QED BY <2>4, <2>5
<1>8. Quiet'
  <2>1. SUFFICES ASSUME NEW m \in Connection \ (deaf' \cup closed), wire'[m] # "empty"
                 PROVE  \E o \in Worker : stage'[o] = "waiting" /\ hand'[o] = m
    BY <1>1 DEF Quiet
  <2>2. m # n /\ m \notin deaf /\ wire[m] # "empty"
    BY <1>5, <2>1
  <2>3. PICK o \in Worker : stage[o] = "waiting" /\ hand[o] = m
    BY <2>1, <2>2 DEF TalkInv, Quiet
  <2>4. o # w
    BY <2>2, <2>3 DEF n
  <2> QED BY <1>3, <1>4, <2>3, <2>4
<1>9. Spoken'
  <2>1. SUFFICES ASSUME NEW o \in Worker, hand'[o] \notin deaf', Talking(o)'
                 PROVE  /\ stage'[o] = "waiting" =>
                             /\ wire'[hand'[o]] \in Answers \cup {do'[o], "empty"}
                             /\ wire'[hand'[o]] = "done" /\ do'[o] # "call" => Told(do'[o], work[hand'[o]])
                             /\ wire'[hand'[o]] = "thrown" => side[hand'[o]] = "over"
                        /\ stage'[o] = "release" => Told(do'[o], work[hand'[o]])
    BY <1>1 DEF Spoken, Told, Talking
  <2>2. CASE o = w
    <3>1. stage'[w] = "release" /\ do'[w] = do[w] /\ hand'[w] = n /\ do[w] # "call"
      BY <1>0, <1>3, <2>1, <2>2 DEF Talking, RequestTypes
    <3>2. wire[n] = "done" /\ n \notin deaf
      BY <1>6, <2>1, <2>2, <3>1
    <3>3. Told(do[w], work[n])
      BY <1>1, <3>1, <3>2 DEF TalkInv, Spoken, n
    <3> QED BY <2>2, <3>1, <3>3
  <2>3. CASE o # w
    <3>1. Talking(o) /\ hand[o] # n /\ hand[o] \in 1..Made
      BY <1>2, <1>4, <2>1, <2>3, OneTalks DEF Talking, TalkInv
    <3>2. hand[o] \in Connection /\ wire'[hand[o]] = wire[hand[o]] /\ hand[o] \notin deaf
      BY <1>3, <1>5, <2>1, <2>3, <3>1, Numbered
    <3> QED BY <1>3, <1>4, <2>1, <2>3, <3>2 DEF TalkInv, Spoken
  <2> QED BY <2>2, <2>3
<1> QED
  BY <1>7, <1>8, <1>9 DEF TalkInv

\* the server: an answer is true when it is given, and stays so when the thread goes
LEMMA ServerTalk ==
  ASSUME TalkInv, AloneInv', NEW n \in Connection, ServerStep(n)
  PROVE  TalkInv'
<1>1. UNCHANGED <<stage, do, hand, opener, closed, deaf>>
  BY DEF ServerStep, Serve, Perform, Fail, HangUp, requestVars, clientVars
<1>2. /\ \A m \in Connection \ {n} : wire'[m] = wire[m] /\ work'[m] = work[m] /\ side'[m] = side[m]
      /\ WireTypes'
      /\ wire'[n] # "empty" => wire[n] # "empty"
      /\ side'[n] = "up" => \/ work'[n] # "lost"
                            \/ Perform(n) /\ (wire[n] = "rollback" \/ (side[n] = "up" /\ work[n] = "lost"))
  <2>1. WireTypes
    BY DEF TalkInv
  <2>2. CASE Serve(n)
    BY <1>1, <2>1, <2>2 DEF Serve, WireTypes, Made
  <2>3. CASE Perform(n)
    <3>1. PICK after \in Effect(wire[n], work[n]) : work' = [work EXCEPT ![n] = after]
      BY <2>3 DEF Perform
    <3>2. /\ after \in {"none", "clean", "staged", "kept", "lost"}
          /\ after = "lost" => wire[n] = "rollback" \/ work[n] = "lost"
      <4>1. wire[n] \in Ops /\ work[n] \in {"none", "clean", "staged", "kept", "lost"}
        BY <2>1, <2>3 DEF Perform, WireTypes
      <4>2. CASE wire[n] = "call"
        BY <3>1, <4>2 DEF Effect
      <4>3. CASE wire[n] = "commit"
        BY <3>1, <4>1, <4>3 DEF Effect
      <4>4. CASE wire[n] = "rollback"
        BY <3>1, <4>1, <4>4 DEF Effect
      <4> QED BY <4>1, <4>2, <4>3, <4>4 DEF Ops
    <3> QED BY <1>1, <2>1, <2>3, <3>1, <3>2 DEF Perform, WireTypes, Made, Ops, Answers
  <2>4. CASE Fail(n)
    BY <1>1, <2>1, <2>4 DEF Fail, RollBack, WireTypes, Made, Ops, Answers
  <2>5. CASE HangUp(n)
    BY <1>1, <2>1, <2>5 DEF HangUp, RollBack, WireTypes, Made
  <2> QED BY <2>2, <2>3, <2>4, <2>5 DEF ServerStep
<1>3. Quiet'
  BY <1>1, <1>2 DEF TalkInv, Quiet
\* the one the server answers is the one who asked
<1>4. ASSUME n \notin deaf \cup closed, wire[n] \in Ops
      PROVE  \E w \in Worker : stage[w] = "waiting" /\ hand[w] = n /\ do[w] = wire[n]
  <2>1. PICK w \in Worker : stage[w] = "waiting" /\ hand[w] = n
    BY <1>4 DEF TalkInv, Quiet, Ops
  <2> QED BY <1>4, <2>1 DEF TalkInv, Spoken, Ops, Answers
<1>5. Upright'
  <2>1. SUFFICES ASSUME n \notin deaf \cup closed, side'[n] = "up", work'[n] = "lost"
                 PROVE  \E w \in Worker : Talking(w) /\ hand[w] = n /\ do[w] = "rollback"
    BY <1>1, <1>2 DEF TalkInv, Upright, Talking
  <2>2. CASE side[n] = "up" /\ work[n] = "lost"
    BY <2>1, <2>2 DEF TalkInv, Upright
  <2>3. CASE Perform(n) /\ wire[n] = "rollback"
    BY <1>4, <2>1, <2>3 DEF Talking, Ops
  <2> QED BY <1>2, <2>1, <2>2, <2>3
<1>6. Spoken'
  <2>1. SUFFICES ASSUME NEW w \in Worker, hand[w] = n, n \notin deaf, Talking(w)
                 PROVE  /\ stage[w] = "waiting" =>
                             /\ wire'[n] \in Answers \cup {do[w], "empty"}
                             /\ wire'[n] = "done" /\ do[w] # "call" => Told(do[w], work'[n])
                             /\ wire'[n] = "thrown" => side'[n] = "over"
                        /\ stage[w] = "release" => Told(do[w], work'[n])
    <3>1. SUFFICES ASSUME NEW w \in Worker, hand[w] # n, hand[w] \notin deaf, Talking(w)
                   PROVE  /\ wire'[hand[w]] = wire[hand[w]] /\ work'[hand[w]] = work[hand[w]]
                          /\ side'[hand[w]] = side[hand[w]]
      BY <1>1, <2>1 DEF TalkInv, Spoken, Told, Talking
    <3>2. hand[w] \in Connection
      BY <3>1, OneTalks, Numbered DEF TalkInv
    <3> QED BY <1>2, <3>1, <3>2
  <2>2. /\ stage[w] = "waiting" =>
             /\ wire[n] \in Answers \cup {do[w], "empty"}
             /\ wire[n] = "done" /\ do[w] # "call" => Told(do[w], work[n])
             /\ wire[n] = "thrown" => side[n] = "over"
        /\ stage[w] = "release" => Told(do[w], work[n])
    BY <2>1 DEF TalkInv, Spoken
  <2>3. n \notin closed /\ \A o \in Worker : Talking(o) /\ hand[o] = n => o = w
    BY <2>1, OneTalks DEF TalkInv
  <2>4. stage[w] = "release" => wire[n] = "empty"
    BY <2>1, <2>3 DEF TalkInv, Quiet, Talking
  <2>5. WireTypes
    BY DEF TalkInv
  <2>6. CASE Serve(n)
    BY <2>2, <2>5, <2>6 DEF Serve, Waits, Told, WireTypes
  <2>7. CASE Perform(n)
    <3>1. stage[w] = "waiting" /\ wire[n] = do[w] /\ do[w] \in Ops /\ side[n] = "up"
      BY <2>1, <2>2, <2>4, <2>7 DEF Perform, Ops, Answers, Talking
    <3>2. wire'[n] = "done" /\ work'[n] \in Effect(do[w], work[n])
      BY <2>5, <2>7, <3>1 DEF Perform, WireTypes
    <3>3. do[w] = "commit" => work[n] # "lost"
      BY <2>1, <2>3, <3>1 DEF TalkInv, Upright
    <3>4. CASE do[w] = "commit"
      BY <3>2, <3>3, <3>4 DEF Effect, Told, Answers
    <3>5. CASE do[w] = "rollback"
      BY <3>2, <3>5 DEF Effect, Told, Answers
    <3> QED BY <3>1, <3>2, <3>4, <3>5 DEF Answers, Ops
  <2>8. CASE Fail(n)
    BY <2>1, <2>4, <2>5, <2>8 DEF Fail, WireTypes, Ops, Answers, Talking
  <2>9. CASE HangUp(n)
    BY <2>2, <2>5, <2>9 DEF HangUp, RollBack, Told, WireTypes
  <2> QED BY <2>6, <2>7, <2>8, <2>9 DEF ServerStep
<1> QED
  BY <1>2, <1>3, <1>5, <1>6 DEF TalkInv

LEMMA StepTalk == TalkInv /\ Uncrossed' /\ [Next]_vars => TalkInv'
<1> SUFFICES ASSUME TalkInv, Uncrossed', [Next]_vars PROVE TalkInv'
  OBVIOUS
<1>1. AloneInv'
  BY StepPool DEF TalkInv, AloneInv
<1>2. CASE UNCHANGED vars
  <2>1. UNCHANGED <<stage, hand, do, opener, closed, deaf, side, wire, work>>
    BY <1>2 DEF vars, requestVars, clientVars, serverVars
  <2> QED BY <1>1, <2>1 DEF TalkInv, WireTypes, Upright, Quiet, Spoken, Told, Talking, Made
<1>3. ASSUME NEW n \in Connection, ServerStep(n) PROVE TalkInv'
  BY <1>1, <1>3, ServerTalk
<1>4. ASSUME NEW w \in Worker, Visit(w) \/ (\E v \in Visitor : Request(w, v)) PROVE TalkInv'
  BY <1>1, <1>4, QuietSteps
<1>5. ASSUME NEW w \in Worker, PageStep(w) PROVE TalkInv'
  <2>1. ASSUME NEW t \in 0..MaxConnections, NEW op \in Ops, Ask(w, op, t) PROVE TalkInv'
    BY <1>1, <2>1, AskTalk
  <2>2. CASE Hear(w) \/ HearNothing(w)
    BY <1>1, <2>2, HearTalk
  <2>3. CASE \/ Destroy(w) \/ Connect(w) \/ ReadId(w) \/ Insert(w) \/ Forget(w)
             \/ \E t \in 0..MaxConnections : NotHeld(w, t)
    BY <1>1, <2>3, QuietSteps
  <2> QED BY <1>5, <2>1, <2>2, <2>3 DEF PageStep
<1> QED
  BY <1>2, <1>3, <1>4, <1>5 DEF Next

\* An answer that was read is true of the work it speaks of: what commit reports done
\* is kept and what rollback reports done is gone, on whatever thread and after
\* whatever timeouts, as long as no two requests are inside one connection, where
\* they would take each other's answers (Connector's reads, zigurat_handler's answers
\* and ~ConnectionScope).
THEOREM AnswersAreTrue == Spec /\ []Uncrossed => []TrueAnswers
<1> DEFINE Rest == PoolInv /\ Found /\ WireTypes /\ Upright /\ Quiet /\ Spoken
<1>1. Init => Rest
  BY InitTalk DEF TalkInv, AloneInv
<1>2. Rest /\ Uncrossed /\ Uncrossed' /\ [Next]_vars => Rest'
  BY StepTalk DEF TalkInv, AloneInv
<1>3. Rest => TrueAnswers
  <2>1. SUFFICES ASSUME Rest, NEW w \in Worker, stage[w] = "release", hand[w] \notin deaf
                 PROVE  work[hand[w]] # "staged" /\ (do[w] = "commit" => work[hand[w]] # "lost")
    BY DEF TrueAnswers
  <2> QED BY <2>1 DEF Spoken, Told
<1> HIDE DEF Rest
<1> QED
  BY <1>1, <1>2, <1>3, PTL DEF Spec
=============================================================================
