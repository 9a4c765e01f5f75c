----------------------------- MODULE MvccProofs -----------------------------
(***************************************************************************)
(* What holds of Mvcc for every set of sessions and addresses, every claim *)
(* of rows and every bound: its types, the semaphore of SERIALIZABLE, and  *)
(* that no lock is ever left without a transaction that will release it.   *)
(***************************************************************************)
EXTENDS Mvcc, WellFoundedInduction, TLAPS

-----------------------------------------------------------------------------
(* The operators of the model                                              *)

\* A walk that still has addresses ahead stops at one of them.
LEMMA LeastIsMember ==
    ASSUME NEW S, S \subseteq Nat, S # {}
    PROVE  Least(S) \in S /\ \A y \in S : Least(S) <= y
<1> DEFINE R == OpToRel(<, Nat)
<1>1. \A x, y \in Nat : <<x, y>> \in R <=> x < y
  BY DEF OpToRel
<1>2. IsWellFoundedOn(R, Nat)
  BY NatLessThanWellFounded
<1> HIDE DEF R
<1>3. \E x \in S : \A y \in S : ~(<<y, x>> \in R)
  BY <1>2, WFMin
<1>4. PICK x \in S : \A y \in S : ~(<<y, x>> \in R)
  BY <1>3
<1>5. ASSUME NEW y \in S PROVE x <= y
  <2>1. ~(y < x)
    BY <1>1, <1>4
  <2> QED
    BY <2>1
<1> QED
  BY <1>5 DEF Least

\* The control blocks rows start from.
LEMMA NewTypes == Blank \in Control /\ \A r \in Nat : Committed(r) \in Control
<1>1. Blank \in Control
  BY DEF Blank, Control, RowState, RowLock, NoAddr
<1>2. ASSUME NEW r \in Nat PROVE Committed(r) \in Control
  BY <1>1 DEF Committed, Control, RowState
<1> QED
  BY <1>1, <1>2

\* A staged new version is a control block.
LEMMA InsertType ==
    ASSUME NEW n \in Nat, NEW q \in Int, NEW p \in Nat, NEW r \in Nat
    PROVE  StagedInsert(n, q, p, r) \in Control
BY NewTypes DEF StagedInsert, Control, RowState, RowLock

\* Staging turns a control block into a control block.
LEMMA StagingTypes ==
    ASSUME NEW c \in Control, NEW n \in Nat, NEW q \in Int,
           NEW state \in RowState, NEW how \in RowLock
    PROVE  /\ Staged(c, state, how, n, q) \in Control
           /\ Staged(c, state, how, n, q).lock = how
BY DEF Staged, Control

\* Settling and undoing do too, and they give the lock back.
LEMMA SettlingTypes ==
    ASSUME NEW c \in Control, NEW n \in Nat
    PROVE  /\ Flip(c, n) \in Control /\ Flip(c, n).lock = "none"
           /\ RolledBack(c, n) \in Control /\ RolledBack(c, n).lock = "none"
<1>1. ASSUME NEW d \in Control
      PROVE  Unstaged(d) \in Control /\ Unstaged(d).lock = "none"
  <2>1. "none" \in RowState /\ "none" \in RowLock
    BY DEF RowState, RowLock
  <2> QED
    BY <2>1, StagingTypes DEF Unstaged
<1>2. ASSUME NEW state \in RowState
      PROVE  /\ [c EXCEPT !.off = state, !.born = n] \in Control
             /\ [c EXCEPT !.off = state, !.died = n] \in Control
             /\ [c EXCEPT !.off = state, !.died = n, !.born = n] \in Control
  BY DEF Control
<1>3. c.on \in RowState /\ "deleted" \in RowState
  BY DEF Control, RowState
<1>4. Flip(c, n) \in Control /\ Flip(c, n).lock = "none"
  BY <1>1, <1>2, <1>3 DEF Flip
<1>5. RolledBack(c, n) \in Control /\ RolledBack(c, n).lock = "none"
  BY <1>1, <1>2, <1>3 DEF RolledBack
<1> QED
  BY <1>4, <1>5

-----------------------------------------------------------------------------
(* The turn of SERIALIZABLE                                                *)

GateInv == level \in [Session -> Level] /\ SerialGate

\* A level and the slot change together: at a begin, at an end, or by hand.
LEMMA LevelsChange ==
    ASSUME [Next]_vars
    PROVE  \/ UNCHANGED <<slot, level>>
           \/ \E s \in Session : Reset(s)
           \/ \E s \in Session : \E l \in Level : SetLevel(s, l)
<1>1. CASE Done \/ UNCHANGED vars
  BY <1>1 DEF Done, vars, txnVars
<1>2. ASSUME NEW s \in Session, Step(s)
      PROVE  UNCHANGED <<slot, level>> \/ Reset(s) \/ \E l \in Level : SetLevel(s, l)
  <2>1. CASE StageNeedsTransaction(s)
    BY <2>1 DEF StageNeedsTransaction, OpenTransaction, txnVars
  <2>2. CASE Begin(s) \/ End(s)
    BY <2>2 DEF Begin, Continue, End, OpenTransaction
  <2>3. CASE Insert(s) \/ UpdateStart(s) \/ DeleteStart(s) \/ StampNext(s) \/ CheckNext(s)
    BY <2>1, <2>3 DEF Insert, UpdateStart, DeleteStart, StampNext, CheckNext
  <2>4. CASE Commit(s) \/ Rollback(s) \/ Abandon(s) \/ StmtBegin(s) \/ ReadNext(s)
             \/ ScanEnd(s) \/ CallbackReturn(s) \/ CallbackStop(s) \/ Reload(s) \/ Truncate(s)
    BY <2>4 DEF Commit, Rollback, Abandon, StmtBegin, ReadNext, ScanEnd, CallbackReturn,
                CallbackStop, Reload, Truncate, StmtOver, txnVars
  <2>5. CASE CheckMoves(s)
    BY <2>5 DEF CheckMoves, ReadGranted, ReadSkipped, Restart, UpdateGranted, DeleteGranted,
                WriteRefused, BreakStale, GiveUp, StmtOver, txnVars
  <2> QED
    BY <1>2, <2>2, <2>3, <2>4, <2>5 DEF Step
<1> QED
  BY <1>1, <1>2 DEF Next

\* The SERIALIZABLE slot is taken exactly as long as one transaction is at that
\* level, and there is never more than one (set_isolation_level, transaction_reset).
THEOREM SerialGateHolds == Spec => []SerialGate
<1>1. Init => GateInv
  BY ConstantsAssumption DEF Init, GateInv, Level, SerialGate, Serial
<1>2. GateInv /\ [Next]_vars => GateInv'
  <2> SUFFICES ASSUME GateInv, [Next]_vars PROVE GateInv'
    OBVIOUS
  <2>1. CASE UNCHANGED <<slot, level>>
    BY <2>1 DEF GateInv, SerialGate, Serial
  <2>2. ASSUME NEW s \in Session, Reset(s) PROVE GateInv'
    <3>1. level' = [level EXCEPT ![s] = Default]
      BY <2>2 DEF Reset
    <3>2. Serial' = Serial \ {s} /\ level' \in [Session -> Level]
      BY <3>1, ConstantsAssumption DEF Serial, GateInv
    <3>3. CASE level[s] = "SER"
      <4>1. slot = 1 /\ Serial = {s}
        BY <3>3 DEF GateInv, SerialGate, Serial
      <4> QED
        BY <2>2, <3>2, <3>3, <4>1 DEF Reset, GateInv, SerialGate
    <3>4. CASE level[s] # "SER"
      <4>1. Serial' = Serial /\ slot' = slot
        BY <2>2, <3>2, <3>4 DEF Reset, Serial
      <4> QED
        BY <3>2, <4>1 DEF GateInv, SerialGate
    <3> QED
      BY <3>3, <3>4
  <2>3. ASSUME NEW s \in Session, NEW l \in Level, SetLevel(s, l) PROVE GateInv'
    <3>1. level' = [level EXCEPT ![s] = l] /\ l # level[s]
      BY <2>3 DEF SetLevel
    <3>2. level' \in [Session -> Level]
      BY <3>1 DEF GateInv
    <3>3. CASE l = "SER"
      <4>1. Serial = {} /\ slot = 0
        BY <2>3, <3>1, <3>3 DEF SetLevel, GateInv, SerialGate, Serial
      <4>2. Serial' = {s}
        BY <3>1, <3>3, <4>1 DEF Serial, GateInv
      <4>3. slot' = 1
        BY <2>3, <3>3, <4>1 DEF SetLevel
      <4> QED
        BY <3>2, <4>2, <4>3 DEF GateInv, SerialGate
    <3>4. CASE l # "SER" /\ level[s] = "SER"
      <4>1. slot = 1 /\ Serial = {s}
        BY <3>4 DEF GateInv, SerialGate, Serial
      <4>2. Serial' = {}
        BY <3>1, <3>4, <4>1 DEF Serial, GateInv
      <4>3. slot' = 0
        BY <2>3, <3>4, <4>1 DEF SetLevel
      <4> QED
        BY <3>2, <4>2, <4>3 DEF GateInv, SerialGate
    <3>5. CASE l # "SER" /\ level[s] # "SER"
      <4>1. Serial' = Serial /\ slot' = slot
        BY <2>3, <3>1, <3>5 DEF SetLevel, Serial, GateInv
      <4> QED
        BY <3>2, <4>1 DEF GateInv, SerialGate
    <3> QED
      BY <3>3, <3>4, <3>5
  <2> QED
    BY <2>1, <2>2, <2>3, LevelsChange
<1>3. GateInv => SerialGate
  BY DEF GateInv
<1> QED
  BY <1>1, <1>2, <1>3, PTL DEF Spec

-----------------------------------------------------------------------------
(* The types                                                               *)

StoreType ==
    /\ clock \in Nat /\ used \subseteq Addr /\ ver \in [Addr -> Control]
    /\ ctx \in [Session -> SUBSET [at : Nat, addr : Addr]]
    /\ pc \in [Session -> PC]
TxnType ==
    /\ serial \in Nat /\ slot \in Nat /\ live \subseteq Nat
    /\ id \in [Session -> Nat] /\ open \in [Session -> BOOLEAN]
    /\ init \in [Session -> Nat] /\ qtime \in [Session -> Nat] /\ qid \in [Session -> Int]
    /\ level \in [Session -> Level] /\ base \in [Session -> SUBSET Addr]
ScanType ==
    /\ pos \in [Session -> Nat] /\ nstmt \in [Session -> Nat]
    /\ got \in [Session -> SUBSET Addr] /\ due \in [Session -> SUBSET Addr]
WorkType ==
    /\ op \in [Session -> {"read", "update", "delete"}] /\ at \in [Session -> Nat]
    /\ new \in [Session -> Nat] /\ seen \in [Session -> Control]

\* The row under a callback or under check_lock has an address, and so has the
\* version an update is about to write.
Placed ==
    \A s \in Session :
        /\ pc[s] \in {"callback", "check"} => at[s] \in Addr
        /\ pc[s] = "check" /\ op[s] = "update" => new[s] \in Addr

TypeInv == StoreType /\ TxnType /\ ScanType /\ WorkType /\ Placed

\* transaction_reset leaves the transaction's variables typed.
LEMMA ResetTypes ==
    ASSUME TypeInv, NEW s \in Session, Reset(s), UNCHANGED serial, live' \subseteq Nat,
           UNCHANGED <<id, open>>
    PROVE  TxnType'
<1>1. Default \in Level
  BY ConstantsAssumption
<1>2. Current \subseteq Addr
  BY DEF Current, TypeInv, StoreType
<1>3. slot' \in Nat
  BY DEF Reset, TypeInv, TxnType
<1>4. /\ init' \in [Session -> Nat] /\ qtime' \in [Session -> Nat] /\ qid' \in [Session -> Int]
      /\ level' \in [Session -> Level] /\ base' \in [Session -> SUBSET Addr]
  BY <1>1, <1>2 DEF Reset, TypeInv, TxnType, StoreType
<1> QED
  BY <1>3, <1>4 DEF TypeInv, TxnType

\* begin_transaction opens one transaction and moves no other.
LEMMA OpenTypes ==
    ASSUME TypeInv, NEW s \in Session, OpenTransaction(s)
    PROVE  /\ TxnType' /\ open'[s]
           /\ \A u \in Session \ {s} : open'[u] = open[u] /\ id'[u] = id[u]
<1>1. Default \in Level
  BY ConstantsAssumption
<1>2. Current \subseteq Addr
  BY DEF Current, TypeInv, StoreType
<1>3. serial' \in Nat /\ live' \subseteq Nat /\ slot' \in Nat
  BY DEF OpenTransaction, Reset, TypeInv, TxnType
<1>4. /\ init' \in [Session -> Nat] /\ qtime' \in [Session -> Nat] /\ qid' \in [Session -> Int]
      /\ level' \in [Session -> Level] /\ base' \in [Session -> SUBSET Addr]
  BY <1>1, <1>2 DEF OpenTransaction, Reset, TypeInv, TxnType, StoreType
<1>5. id' \in [Session -> Nat] /\ open' \in [Session -> BOOLEAN]
  BY DEF OpenTransaction, TypeInv, TxnType
<1> QED
  BY <1>3, <1>4, <1>5 DEF TypeInv, TxnType, OpenTransaction

\* A begin on an open transaction leaves it open under its id.
LEMMA ContinueTypes ==
    ASSUME TypeInv, NEW s \in Session, Continue(s)
    PROVE  TxnType' /\ UNCHANGED <<serial, id, live, open>>
<1>1. Default \in Level
  BY ConstantsAssumption
<1>2. Current \subseteq Addr
  BY DEF Current, TypeInv, StoreType
<1>3. slot' \in Nat
  BY DEF Continue, Reset, TypeInv, TxnType
<1>4. /\ init' \in [Session -> Nat] /\ qtime' \in [Session -> Nat] /\ qid' \in [Session -> Int]
      /\ level' \in [Session -> Level] /\ base' \in [Session -> SUBSET Addr]
  BY <1>1, <1>2 DEF Continue, Reset, TypeInv, TxnType, StoreType
<1> QED
  BY <1>3, <1>4 DEF TypeInv, TxnType, Continue

\* After stage_needs_transaction a transaction is open, and nobody else's moved.
LEMMA StageTypes ==
    ASSUME TypeInv, NEW s \in Session, StageNeedsTransaction(s)
    PROVE  /\ TxnType' /\ open'[s]
           /\ \A u \in Session \ {s} : open'[u] = open[u] /\ id'[u] = id[u]
           /\ open[s] => id'[s] = id[s]
BY OpenTypes DEF StageNeedsTransaction, TypeInv, TxnType, txnVars

\* What a commit leaves is a store of control blocks.
LEMMA CommitTypes ==
    ASSUME TypeInv, NEW s \in Session, NEW t \in Nat
    PROVE  StampedBy(s, FlippedBy(s, t)) \in [Addr -> Control]
<1> DEFINE after == FlippedBy(s, t)
<1>1. after \in [Addr -> Control]
  BY SettlingTypes DEF FlippedBy, TypeInv, StoreType
<1>2. ASSUME NEW p \in Addr, Successor(after, s, p) # {}
      PROVE  (CHOOSE a \in Successor(after, s, p) : TRUE) \in Int
  <2>1. Successor(after, s, p) \subseteq Touched(s)
    BY DEF Successor
  <2>2. Touched(s) \subseteq Addr
    BY DEF Touched, TypeInv, StoreType
  <2>3. (CHOOSE a \in Successor(after, s, p) : TRUE) \in Successor(after, s, p)
    BY <1>2
  <2>4. Addr \subseteq Int
    BY ConstantsAssumption
  <2> QED
    BY <2>1, <2>2, <2>3, <2>4
<1> HIDE DEF after
<1>3. ASSUME NEW c \in Control, NEW q \in Int PROVE [c EXCEPT !.qid = q] \in Control
  BY DEF Control
<1> QED
  BY <1>1, <1>2, <1>3 DEF StampedBy, after

\* And so is what a rollback leaves.
LEMMA UndoTypes ==
    ASSUME TypeInv, NEW s \in Session, NEW rows, NEW t \in Nat
    PROVE  UndoneBy(s, rows, t) \in [Addr -> Control]
BY SettlingTypes DEF UndoneBy, TypeInv, StoreType

\* A rollback gives back the locks it finds its own, and touches no other.
LEMMA UndoUnlocks ==
    ASSUME TypeInv, NEW s \in Session, NEW rows, NEW a \in Addr,
           UndoneBy(s, rows, clock + 1)[a].lock # "none"
    PROVE  UndoneBy(s, rows, clock + 1)[a] = ver[a] /\ ~(a \in rows /\ ver[a].txn = id[s])
<1>1. clock + 1 \in Nat /\ ver[a] \in Control
  BY DEF TypeInv, StoreType
<1> QED
  BY <1>1, SettlingTypes DEF UndoneBy

\* transaction_push adds entries of the context's type.
LEMMA PushTypes ==
    ASSUME TypeInv, NEW s \in Session, NEW rows \in SUBSET Addr, Push(s, rows)
    PROVE  ctx' \in [Session -> SUBSET [at : Nat, addr : Addr]]
BY DEF Push, TypeInv, StoreType, ScanType

\* The walk stops at an address and has a version to deliver there.
LEMMA WalkStops ==
    ASSUME TypeInv, NEW s \in Session, Ahead(s) # {}
    PROVE  /\ Least(Ahead(s)) \in Addr
           /\ ~Locking(s) => Shown(s, Least(Ahead(s))) \in Addr
<1>1. Ahead(s) \subseteq Addr
  BY DEF Ahead, Judged, TypeInv, StoreType
<1>2. Least(Ahead(s)) \in Ahead(s)
  BY <1>1, LeastIsMember, ConstantsAssumption
<1> QED
  BY <1>1, <1>2 DEF Ahead

\* The initial state is typed.
LEMMA TypeInvInit == Init => TypeInv
<1> SUFFICES ASSUME Init PROVE TypeInv
  OBVIOUS
<1>1. StoreType
  <2>1. Addr \subseteq Nat /\ InitRows \subseteq Addr
    BY ConstantsAssumption
  <2>2. ver \in [Addr -> Control]
    BY <2>1, NewTypes DEF Init
  <2> QED
    BY <2>1, <2>2 DEF Init, StoreType, PC
<1>2. TxnType
  BY ConstantsAssumption DEF Init, TxnType
<1>3. ScanType
  BY DEF Init, ScanType
<1>4. WorkType
  BY NewTypes DEF Init, WorkType, NoAddr
<1>5. Placed
  BY DEF Init, Placed
<1> QED
  BY <1>1, <1>2, <1>3, <1>4, <1>5 DEF TypeInv

\* A callback is entered with a row at hand.
LEMMA DeliverTypes ==
    ASSUME TypeInv, NEW s \in Session, NEW a \in Addr, NEW v \in Addr, Deliver(s, a, v),
           UNCHANGED <<nstmt, due>>, op' \in [Session -> {"read", "update", "delete"}],
           new' \in [Session -> Nat],
           \A u \in Session \ {s} : op'[u] = op[u] /\ new'[u] = new[u]
    PROVE  /\ pc' \in [Session -> PC] /\ ScanType' /\ at' \in [Session -> Nat] /\ Placed'
<1>1. Addr \subseteq Nat
  BY ConstantsAssumption
<1>2. pc' \in [Session -> PC] /\ pc'[s] = "callback" /\ \A u \in Session \ {s} : pc'[u] = pc[u]
  BY DEF Deliver, TypeInv, StoreType, PC
<1>3. at' \in [Session -> Nat] /\ at'[s] = v /\ \A u \in Session \ {s} : at'[u] = at[u]
  BY <1>1 DEF Deliver, TypeInv, WorkType
<1>4. ScanType'
  BY <1>1 DEF Deliver, TypeInv, ScanType
<1>5. Placed'
  BY <1>2, <1>3 DEF TypeInv, Placed
<1> QED
  BY <1>2, <1>3, <1>4, <1>5

\* The locals of check_lock are spent.
LEMMA CheckOverTypes ==
    ASSUME TypeInv, NEW s \in Session, CheckOver(s)
    PROVE  /\ op' \in [Session -> {"read", "update", "delete"}]
           /\ new' \in [Session -> Nat] /\ seen' \in [Session -> Control]
           /\ \A u \in Session \ {s} : op'[u] = op[u] /\ new'[u] = new[u]
BY NewTypes DEF CheckOver, TypeInv, WorkType, NoAddr

\* check_lock is left for the walk or for the callback, the row still at hand.
LEMMA CheckLeft ==
    ASSUME TypeInv, NEW s \in Session, CheckOver(s), UNCHANGED at, at[s] \in Addr,
           NEW where \in PC \ {"check"}, pc' = [pc EXCEPT ![s] = where]
    PROVE  pc' \in [Session -> PC] /\ WorkType' /\ Placed'
<1>1. pc' \in [Session -> PC] /\ pc'[s] # "check" /\ \A u \in Session \ {s} : pc'[u] = pc[u]
  BY DEF TypeInv, StoreType
<1>2. WorkType' /\ \A u \in Session \ {s} : op'[u] = op[u] /\ new'[u] = new[u]
  BY CheckOverTypes DEF TypeInv, WorkType
<1>3. Placed'
  BY <1>1, <1>2 DEF TypeInv, Placed
<1> QED
  BY <1>1, <1>2, <1>3

\* Leaving a statement puts the session back to ready.
LEMMA StmtOverTypes ==
    ASSUME TypeInv, NEW s \in Session, StmtOver(s),
           \A u \in Session \ {s} : op'[u] = op[u] /\ new'[u] = new[u]
    PROVE  /\ pc' \in [Session -> PC] /\ TxnType' /\ ScanType' /\ at' \in [Session -> Nat]
           /\ Placed'
<1>1. pc' \in [Session -> PC] /\ pc'[s] = "ready" /\ \A u \in Session \ {s} : pc'[u] = pc[u]
  BY DEF StmtOver, TypeInv, StoreType, PC
<1>2. at' \in [Session -> Nat] /\ \A u \in Session \ {s} : at'[u] = at[u]
  BY DEF StmtOver, TypeInv, WorkType, NoAddr
<1>3. TxnType' /\ ScanType'
  BY DEF StmtOver, TypeInv, TxnType, ScanType
<1>4. Placed'
  BY <1>1, <1>2 DEF TypeInv, Placed
<1> QED
  BY <1>1, <1>2, <1>3, <1>4

\* Every step keeps the types.
LEMMA TypeInvStep == TypeInv /\ [Next]_vars => TypeInv'
<1> SUFFICES ASSUME TypeInv, [Next]_vars PROVE TypeInv'
  OBVIOUS
<1> USE DEF TypeInv
<1>1. CASE Done \/ UNCHANGED vars
  BY <1>1 DEF Done, vars, txnVars, scanVars, workVars, StoreType, TxnType, ScanType, WorkType,
              Placed
<1>2. ASSUME NEW s \in Session, Begin(s) PROVE TypeInv'
  <2>1. TxnType'
    BY <1>2, OpenTypes, ContinueTypes DEF Begin
  <2> QED
    BY <1>2, <2>1 DEF Begin, scanVars, workVars, StoreType, ScanType, WorkType, Placed
<1>3. ASSUME NEW s \in Session, Commit(s) PROVE TypeInv'
  <2>1. clock' \in Nat /\ ver' \in [Addr -> Control]
    BY <1>3, CommitTypes DEF Commit, StoreType
  <2> QED
    BY <1>3, <2>1 DEF Commit, scanVars, workVars, StoreType, TxnType, ScanType, WorkType, Placed, PC
<1>4. ASSUME NEW s \in Session, Rollback(s) PROVE TypeInv'
  <2>1. clock' \in Nat /\ ver' \in [Addr -> Control]
    BY <1>4, UndoTypes DEF Rollback, Stamps, StoreType
  <2> QED
    BY <1>4, <2>1 DEF Rollback, scanVars, workVars, StoreType, TxnType, ScanType, WorkType, Placed,
                     PC
<1>5. ASSUME NEW s \in Session, End(s) PROVE TypeInv'
  <2>1. TxnType'
    BY <1>5, ResetTypes DEF End, TxnType
  <2> QED
    BY <1>5, <2>1 DEF End, scanVars, workVars, StoreType, ScanType, WorkType, Placed, PC
<1>6. ASSUME NEW s \in Session, Abandon(s) \/ \E l \in Level : SetLevel(s, l) PROVE TypeInv'
  <2>1. CASE Abandon(s)
    BY <2>1 DEF Abandon, scanVars, workVars, StoreType, TxnType, ScanType, WorkType, Placed, PC
  <2>2. ASSUME NEW l \in Level, SetLevel(s, l) PROVE TypeInv'
    BY <2>2 DEF SetLevel, scanVars, workVars, StoreType, TxnType, ScanType, WorkType, Placed
  <2> QED
    BY <1>6, <2>1, <2>2
<1>7. ASSUME NEW s \in Session, StmtBegin(s) PROVE TypeInv'
  <2>1. Due(s) \in SUBSET Addr
    BY DEF Due, Current, Adding, StoreType, TxnType
  <2>2. StoreType'
    BY <1>7 DEF StmtBegin, StoreType, PC
  <2>3. TxnType'
    <3>1. -(nstmt[s] + 1) \in Int /\ clock \in Nat
      BY DEF ScanType, StoreType
    <3> QED
      BY <1>7, <3>1 DEF StmtBegin, TxnType
  <2>4. ScanType' /\ WorkType'
    BY <1>7, <2>1 DEF StmtBegin, workVars, ScanType, WorkType
  <2>5. Placed'
    BY <1>7 DEF StmtBegin, workVars, StoreType, Placed
  <2> QED
    BY <2>2, <2>3, <2>4, <2>5
<1>8. ASSUME NEW s \in Session, ReadNext(s) PROVE TypeInv'
  <2>1. PICK a \in Addr : Shown(s, a) \in Addr /\ Deliver(s, a, Shown(s, a))
    BY <1>8, WalkStops DEF ReadNext
  <2> QED
    <3>1. pc' \in [Session -> PC] /\ ScanType' /\ at' \in [Session -> Nat] /\ Placed'
      BY <1>8, <2>1, DeliverTypes DEF ReadNext, WorkType
    <3> QED
      BY <1>8, <3>1 DEF ReadNext, txnVars, StoreType, TxnType, WorkType
<1>9. ASSUME NEW s \in Session, StampNext(s) PROVE TypeInv'
  <2>1. PICK a \in Addr : /\ ver' = [ver EXCEPT ![a] = Staged(@, "none", "shared", id'[s], qid'[s])]
                          /\ Push(s, {a}) /\ Deliver(s, a, a)
    BY <1>9, WalkStops DEF StampNext
  <2>2. TxnType'
    BY <1>9, StageTypes DEF StampNext
  <2>3. Staged(ver[a], "none", "shared", id'[s], qid'[s]) \in Control
    BY <2>2, StagingTypes DEF TxnType, StoreType, RowState, RowLock
  <2>4. ctx' \in [Session -> SUBSET [at : Nat, addr : Addr]]
    BY <2>1, PushTypes
  <2>5. pc' \in [Session -> PC] /\ ScanType' /\ at' \in [Session -> Nat] /\ Placed'
    BY <1>9, <2>1, DeliverTypes DEF StampNext, WorkType
  <2> QED
    BY <1>9, <2>1, <2>2, <2>3, <2>4, <2>5 DEF StampNext, StoreType, WorkType
<1>10. ASSUME NEW s \in Session, CheckNext(s) PROVE TypeInv'
  <2>1. PICK a \in Addr : /\ pos' = [pos EXCEPT ![s] = a] /\ at' = [at EXCEPT ![s] = a]
                          /\ seen' = [seen EXCEPT ![s] = ver[a]]
    BY <1>10, WalkStops DEF CheckNext
  <2>2. TxnType'
    BY <1>10, StageTypes DEF CheckNext
  <2>3. StoreType'
    BY <1>10 DEF CheckNext, StoreType, PC
  <2>4. Addr \subseteq Nat
    BY ConstantsAssumption
  <2>5. ScanType' /\ WorkType'
    BY <1>10, <2>1, <2>4 DEF CheckNext, ScanType, WorkType, StoreType
  <2>6. Placed'
    BY <1>10, <2>1 DEF CheckNext, Placed, StoreType, WorkType
  <2> QED
    BY <2>2, <2>3, <2>5, <2>6
<1>11. ASSUME NEW s \in Session, ScanEnd(s) \/ CallbackReturn(s) \/ CallbackStop(s) PROVE TypeInv'
  <2>1. CASE CallbackReturn(s)
    BY <2>1 DEF CallbackReturn, txnVars, scanVars, workVars, StoreType, TxnType, ScanType, WorkType,
                Placed, PC
  <2>2. CASE ScanEnd(s) \/ CallbackStop(s)
    BY <2>2, StmtOverTypes DEF ScanEnd, CallbackStop, StoreType, WorkType
  <2> QED
    BY <1>11, <2>1, <2>2
<1>12. ASSUME NEW s \in Session, Insert(s) PROVE TypeInv'
  <2>1. PICK a \in Addr \ used :
            /\ used' = used \union {a} /\ Push(s, {a})
            /\ ver' = [ver EXCEPT ![a] =
                          StagedInsert(id'[s], qid'[s], NoAddr, Least(Unnamed(s)))]
    BY <1>12 DEF Insert
  <2>2. TxnType'
    BY <1>12, StageTypes DEF Insert
  <2>3. Least(Unnamed(s)) \in Nat
    <3>1. Unnamed(s) \subseteq Nat
      BY ConstantsAssumption DEF Unnamed
    <3> QED
      BY <1>12, <3>1, LeastIsMember DEF Insert
  <2>4. StagedInsert(id'[s], qid'[s], NoAddr, Least(Unnamed(s))) \in Control
    BY <2>2, <2>3, InsertType DEF TxnType, NoAddr
  <2>5. ctx' \in [Session -> SUBSET [at : Nat, addr : Addr]]
    BY <2>1, PushTypes
  <2>6. StoreType'
    BY <1>12, <2>1, <2>4, <2>5 DEF Insert, StoreType
  <2> QED
    BY <1>12, <2>2, <2>6 DEF Insert, scanVars, workVars, ScanType, WorkType, Placed
<1>13. ASSUME NEW s \in Session, UpdateStart(s) PROVE TypeInv'
  <2>1. PICK n \in Addr \ used : /\ used' = used \union {n} /\ new' = [new EXCEPT ![s] = n]
                                 /\ Push(s, {at[s], n})
    BY <1>13 DEF UpdateStart
  <2>2. at[s] \in Addr /\ n \in Nat
    BY <1>13, ConstantsAssumption DEF UpdateStart, Handed, Placed
  <2>3. TxnType'
    BY <1>13, StageTypes DEF UpdateStart
  <2>4. ctx' \in [Session -> SUBSET [at : Nat, addr : Addr]]
    BY <2>1, <2>2, PushTypes
  <2>5. StoreType'
    BY <1>13, <2>1, <2>4 DEF UpdateStart, StoreType, PC
  <2>6. WorkType' /\ ScanType'
    BY <1>13, <2>1, <2>2 DEF UpdateStart, scanVars, WorkType, ScanType, StoreType
  <2>7. Placed'
    BY <1>13, <2>1, <2>2 DEF UpdateStart, Placed, StoreType, WorkType
  <2> QED
    BY <2>3, <2>5, <2>6, <2>7
<1>14. ASSUME NEW s \in Session, DeleteStart(s) PROVE TypeInv'
  <2>1. at[s] \in Addr
    BY <1>14 DEF DeleteStart, Handed, Placed
  <2>2. TxnType'
    BY <1>14, StageTypes DEF DeleteStart
  <2>3. ctx' \in [Session -> SUBSET [at : Nat, addr : Addr]]
    BY <1>14, <2>1, PushTypes DEF DeleteStart
  <2>4. StoreType'
    BY <1>14, <2>3 DEF DeleteStart, StoreType, PC
  <2>5. WorkType' /\ ScanType'
    BY <1>14, <2>1 DEF DeleteStart, scanVars, WorkType, ScanType, StoreType
  <2>6. Placed'
    BY <1>14, <2>1 DEF DeleteStart, Placed, StoreType, WorkType
  <2> QED
    BY <2>2, <2>4, <2>5, <2>6
<1>15. ASSUME NEW s \in Session, CheckMoves(s) PROVE TypeInv'
  <2>0. pc[s] = "check" /\ at[s] \in Addr /\ seen[s] \in Control /\ ver[at[s]] \in Control
    BY <1>15 DEF CheckMoves, ReadGranted, ReadSkipped, Restart, UpdateGranted, DeleteGranted,
                 WriteRefused, BreakStale, GiveUp, Answered, Waiting, Placed, WorkType, StoreType
  <2>1. CASE ReadGranted(s)
    <3>1. /\ Deliver(s, at[s], at[s]) /\ CheckOver(s)
          /\ UNCHANGED <<clock, used, ver, ctx, txnVars, nstmt, due>>
      BY <2>1 DEF ReadGranted
    <3>2. WorkType' /\ pc' \in [Session -> PC] /\ ScanType' /\ Placed'
      BY <2>0, <3>1, CheckOverTypes, DeliverTypes DEF WorkType
    <3> QED
      BY <3>1, <3>2 DEF txnVars, StoreType, TxnType
  <2>2. CASE ReadSkipped(s)
    <3>1. "scan" \in PC \ {"check"}
      BY DEF PC
    <3>2. pc' \in [Session -> PC] /\ WorkType' /\ Placed'
      BY <2>0, <2>2, <3>1, CheckLeft DEF ReadSkipped
    <3> QED
      BY <2>2, <3>2 DEF ReadSkipped, txnVars, scanVars, StoreType, TxnType, ScanType
  <2>3. CASE Restart(s)
    <3>1. PICK gone \in SUBSET ctx[s] :
              /\ ver' = UndoneBy(s, {e.addr : e \in gone}, clock + 1)
              /\ ctx' = [ctx EXCEPT ![s] = @ \ gone]
              /\ Stamps(s, {e.addr : e \in gone})
      BY <2>3 DEF Restart
    <3>2. clock' \in Nat /\ ver' \in [Addr -> Control]
      BY <3>1, UndoTypes DEF Stamps, StoreType
    <3>3. "scan" \in PC \ {"check"}
      BY DEF PC
    <3>4. pc' \in [Session -> PC] /\ WorkType' /\ Placed'
      BY <2>0, <2>3, <3>3, CheckLeft DEF Restart
    <3>5. StoreType'
      BY <2>3, <3>1, <3>2, <3>4 DEF Restart, StoreType
    <3>6. TxnType'
      <4>1. -nstmt[s] \in Int
        BY DEF ScanType
      <4> QED
        BY <2>3, <3>2, <4>1 DEF Restart, TxnType
    <3>7. ScanType'
      BY <2>3 DEF Restart, ScanType
    <3> QED
      BY <3>4, <3>5, <3>6, <3>7
  <2>4. ASSUME NEW state \in RowState PROVE Restage(s, state) \in Control
    <3>1. Staged(seen[s], state, "exclusive", id[s], qid[s]) \in Control
      BY <2>0, StagingTypes DEF TxnType, RowLock
    <3> QED
      BY <2>0, <3>1 DEF Restage, Control
  <2>5. "callback" \in PC \ {"check"} /\ "updated" \in RowState /\ "deleted" \in RowState
    BY DEF PC, RowState
  <2>6. CASE UpdateGranted(s)
    <3>1. pc' \in [Session -> PC] /\ WorkType' /\ Placed'
      BY <2>0, <2>5, <2>6, CheckLeft DEF UpdateGranted
    <3>2. StagedInsert(id[s], qid[s], at[s], ver[at[s]].row) \in Control
      BY <2>0, InsertType, ConstantsAssumption DEF TxnType, Control
    <3>3. ver' \in [Addr -> Control]
      BY <2>4, <2>5, <2>6, <3>2 DEF UpdateGranted, StoreType
    <3> QED
      BY <2>6, <3>1, <3>3 DEF UpdateGranted, txnVars, scanVars, StoreType, TxnType, ScanType
  <2>7. CASE DeleteGranted(s)
    <3>1. pc' \in [Session -> PC] /\ WorkType' /\ Placed'
      BY <2>0, <2>5, <2>7, CheckLeft DEF DeleteGranted
    <3>2. ver' \in [Addr -> Control]
      BY <2>4, <2>5, <2>7 DEF DeleteGranted, StoreType
    <3> QED
      BY <2>7, <3>1, <3>2 DEF DeleteGranted, txnVars, scanVars, StoreType, TxnType, ScanType
  <2>8. CASE WriteRefused(s)
    <3>1. pc' \in [Session -> PC] /\ WorkType' /\ Placed'
      BY <2>0, <2>5, <2>8, CheckLeft DEF WriteRefused
    <3> QED
      BY <2>8, <3>1 DEF WriteRefused, txnVars, scanVars, StoreType, TxnType, ScanType
  <2>9. CASE BreakStale(s)
    <3>1. clock + 1 \in Nat
      BY DEF StoreType
    <3>2. RolledBack(ver[at[s]], clock + 1) \in Control
      BY <2>0, <3>1, SettlingTypes
    <3>3. StoreType' /\ WorkType'
      BY <2>9, <3>1, <3>2 DEF BreakStale, StoreType, WorkType
    <3> QED
      BY <2>9, <3>3 DEF BreakStale, txnVars, scanVars, TxnType, ScanType, Placed
  <2>10. CASE GiveUp(s)
    <3>1. WorkType' /\ pc' \in [Session -> PC] /\ TxnType' /\ ScanType' /\ Placed'
      BY <2>10, CheckOverTypes, StmtOverTypes DEF GiveUp, WorkType
    <3> QED
      BY <2>10, <3>1 DEF GiveUp, StoreType
  <2> QED
    BY <1>15, <2>1, <2>2, <2>3, <2>6, <2>7, <2>8, <2>9, <2>10 DEF CheckMoves
<1>16. ASSUME NEW s \in Session, Reload(s) PROVE TypeInv'
  BY <1>16 DEF Reload, txnVars, scanVars, StoreType, TxnType, ScanType, WorkType, Placed, Waiting
<1>17. ASSUME NEW s \in Session, Truncate(s) PROVE TypeInv'
  BY <1>17, NewTypes DEF Truncate, txnVars, scanVars, workVars, StoreType, TxnType, ScanType,
                         WorkType, Placed
<1> QED
  BY <1>1, <1>2, <1>3, <1>4, <1>5, <1>6, <1>7, <1>8, <1>9, <1>10, <1>11, <1>12, <1>13, <1>14,
     <1>15, <1>16, <1>17 DEF Next, Step

\* Every variable has its type, and check_lock always has a row to look at.
THEOREM TypesHold == Spec => []TypeOK
<1>1. TypeInv => TypeOK
  BY DEF TypeInv, StoreType, TxnType, ScanType, WorkType, TypeOK
<1> QED
  BY <1>1, TypeInvInit, TypeInvStep, PTL DEF Spec

-----------------------------------------------------------------------------
(* The locks                                                               *)

Owns(s, a) == open[s] /\ id[s] = ver[a].txn /\ a \in Touched(s)

\* A session waits in check_lock with its transaction open, and what it is about
\* to stage is on its list already: online_update pushes before it waits.
PushedFirst ==
    \A s \in Session : pc[s] = "check" =>
        /\ open[s]
        /\ op[s] \in {"update", "delete"} => at[s] \in Touched(s)
        /\ op[s] = "update" => new[s] \in Touched(s)

LockInv == LocksHaveOwners /\ PushedFirst

\* A step that stages one row for an open transaction, the row on its list, and
\* takes nothing from anybody.
LEMMA StageKeepsOwners ==
    ASSUME TypeInv, TypeInv', LocksHaveOwners, NEW s \in Session,
           StageNeedsTransaction(s),
           \A u \in Session : Touched(u) \subseteq Touched(u)',
           \A a \in Addr : \/ ver'[a].lock # "none" => ver'[a] = ver[a]
                           \/ ver'[a].txn = id'[s] /\ a \in Touched(s)'
    PROVE  LocksHaveOwners'
<1> SUFFICES ASSUME NEW a \in Addr, ver'[a].lock # "none"
             PROVE  \E u \in Session : Owns(u, a)'
  BY DEF LocksHaveOwners, Owns
<1>1. CASE ver'[a].txn = id'[s] /\ a \in Touched(s)'
  BY <1>1, StageTypes DEF Owns
<1>2. CASE ver'[a] = ver[a]
  <2>1. PICK u \in Session : Owns(u, a)
    BY <1>2 DEF LocksHaveOwners, Owns
  <2>2. open'[u] /\ id'[u] = id[u]
    BY <2>1, StageTypes DEF Owns
  <2> QED
    BY <1>2, <2>1, <2>2 DEF Owns
<1> QED
  BY <1>1, <1>2

\* A step that settles rows: what s owned and no longer lists is unlocked.
LEMMA SettleKeepsOwners ==
    ASSUME LocksHaveOwners, NEW s \in Session, UNCHANGED id,
           \A u \in Session \ {s} : open'[u] = open[u] /\ Touched(u)' = Touched(u),
           \A a \in Addr : ver'[a].lock # "none" =>
               /\ ver[a].lock # "none" /\ ver'[a].txn = ver[a].txn
               /\ Owns(s, a) => Owns(s, a)'
    PROVE  LocksHaveOwners'
<1> SUFFICES ASSUME NEW a \in Addr, ver'[a].lock # "none"
             PROVE  \E u \in Session : Owns(u, a)'
  BY DEF LocksHaveOwners, Owns
<1>1. PICK u \in Session : Owns(u, a)
  BY DEF LocksHaveOwners, Owns
<1>2. CASE u = s
  BY <1>1, <1>2
<1>3. CASE u # s
  BY <1>1, <1>3 DEF Owns
<1> QED
  BY <1>2, <1>3

\* PushedFirst survives a step after which s does not wait.
LEMMA NotWaiting ==
    ASSUME TypeInv, TypeInv', PushedFirst, NEW s \in Session, pc'[s] # "check",
           \A u \in Session \ {s} :
               /\ pc'[u] = pc[u] /\ op'[u] = op[u] /\ at'[u] = at[u] /\ new'[u] = new[u]
               /\ open'[u] = open[u] /\ Touched(u)' = Touched(u)
    PROVE  PushedFirst'
BY DEF PushedFirst

\* A session's list of touched rows is its own.
LEMMA OthersTouched ==
    ASSUME TypeInv, NEW s \in Session, NEW S, ctx' = [ctx EXCEPT ![s] = S]
    PROVE  /\ \A u \in Session \ {s} : Touched(u)' = Touched(u)
           /\ Touched(s)' = {e.addr : e \in S}
BY DEF Touched, TypeInv, StoreType

\* transaction_push puts rows on the list and takes none off.
LEMMA PushTouches ==
    ASSUME TypeInv, NEW s \in Session, NEW rows \in SUBSET Addr, Push(s, rows)
    PROVE  /\ \A u \in Session \ {s} : Touched(u)' = Touched(u)
           /\ Touched(s)' = Touched(s) \union rows
<1>1. \A u \in Session \ {s} : Touched(u)' = Touched(u)
  BY OthersTouched DEF Push
<1>2. Touched(s)' = {e.addr : e \in ctx[s] \union {[at |-> nstmt[s], addr |-> a] : a \in rows}}
  BY OthersTouched DEF Push
<1>3. {e.addr : e \in ctx[s] \union {[at |-> nstmt[s], addr |-> a] : a \in rows}}
        = Touched(s) \union rows
  <2> DEFINE S == ctx[s] \union {[at |-> nstmt[s], addr |-> a] : a \in rows}
  <2>1. ASSUME NEW e \in S PROVE e.addr \in Touched(s) \union rows
    BY DEF Touched
  <2>2. ASSUME NEW b \in Touched(s) PROVE \E e \in S : e.addr = b
    BY DEF Touched
  <2>3. ASSUME NEW b \in rows PROVE \E e \in S : e.addr = b
    <3>1. [at |-> nstmt[s], addr |-> b] \in S
      OBVIOUS
    <3>2. [at |-> nstmt[s], addr |-> b].addr = b
      OBVIOUS
    <3> QED
      BY <3>1, <3>2
  <2> QED
    BY <2>1, <2>2, <2>3
<1> QED
  BY <1>1, <1>2, <1>3

\* Every step keeps the locks owned.
LEMMA LockInvStep == TypeInv /\ TypeInv' /\ LockInv /\ [Next]_vars => LockInv'
<1> SUFFICES ASSUME TypeInv, TypeInv', LockInv, [Next]_vars PROVE LockInv'
  OBVIOUS
<1> USE DEF LockInv
<1>1. ASSUME UNCHANGED <<ver, open, id, ctx>> PROVE LocksHaveOwners'
  BY <1>1 DEF LocksHaveOwners, Touched
<1>2. CASE Done \/ UNCHANGED vars
  BY <1>1, <1>2 DEF Done, vars, txnVars, workVars, PushedFirst, Touched
<1>3. ASSUME NEW s \in Session, Begin(s) PROVE LockInv'
  <2>1. UNCHANGED <<ver, ctx, pc, workVars>> /\ pc[s] = "ready"
    BY <1>3 DEF Begin
  <2>2. CASE OpenTransaction(s) /\ ~open[s]
    <3>1. StageNeedsTransaction(s)
      BY <2>2 DEF StageNeedsTransaction
    <3>2. LocksHaveOwners'
      BY <2>1, <3>1, StageKeepsOwners DEF Touched
    <3>3. PushedFirst'
      BY <2>1, <3>1, StageTypes, NotWaiting DEF workVars, Touched
    <3> QED
      BY <3>2, <3>3
  <2>3. CASE Continue(s)
    <3>1. UNCHANGED <<id, open>>
      BY <2>3 DEF Continue
    <3>2. PushedFirst'
      BY <2>1, <3>1 DEF PushedFirst, workVars, Touched
    <3> QED
      BY <1>1, <2>1, <3>1, <3>2
  <2> QED
    BY <1>3, <2>2, <2>3 DEF Begin
<1>4. ASSUME NEW s \in Session, Commit(s) PROVE LockInv'
  <2>1. /\ UNCHANGED <<id, workVars>> /\ ctx' = [ctx EXCEPT ![s] = {}]
        /\ \A u \in Session \ {s} : open'[u] = open[u] /\ pc'[u] = pc[u]
        /\ pc'[s] = "ending"
    BY <1>4 DEF Commit, TypeInv, StoreType, TxnType
  <2>2. \A u \in Session \ {s} : Touched(u)' = Touched(u)
    BY <2>1, OthersTouched
  <2>3. ASSUME NEW a \in Addr, ver'[a].lock # "none"
        PROVE  ver[a].lock # "none" /\ ver'[a].txn = ver[a].txn /\ ~Owns(s, a)
    <3>1. CASE ctx[s] = {}
      BY <1>4, <2>3, <3>1 DEF Commit, Owns, Touched
    <3>2. CASE ctx[s] # {}
      <4> DEFINE flipped == FlippedBy(s, clock + 1)
      <4>1. clock + 1 \in Nat /\ ver[a] \in Control
        BY DEF TypeInv, StoreType
      <4>2. /\ flipped[a] \in Control
            /\ (flipped[a] = ver[a] /\ ~Owns(s, a)) \/ flipped[a].lock = "none"
        BY <4>1, SettlingTypes DEF FlippedBy, Owns
      <4> HIDE DEF flipped
      <4>3. ver'[a].lock = flipped[a].lock /\ ver'[a].txn = flipped[a].txn
        BY <1>4, <3>2, <4>2 DEF Commit, StampedBy, Control, flipped
      <4> QED
        BY <2>3, <4>2, <4>3
    <3> QED
      BY <3>1, <3>2
  <2>4. LocksHaveOwners'
    BY <2>1, <2>2, <2>3, SettleKeepsOwners
  <2>5. PushedFirst'
    BY <2>1, <2>2, NotWaiting DEF workVars
  <2> QED
    BY <2>4, <2>5
<1>5. ASSUME NEW s \in Session, Rollback(s) PROVE LockInv'
  <2>1. /\ UNCHANGED <<id, workVars>> /\ ctx' = [ctx EXCEPT ![s] = {}]
        /\ \A u \in Session \ {s} : open'[u] = open[u] /\ pc'[u] = pc[u]
        /\ pc'[s] = "ending"
    BY <1>5 DEF Rollback, TypeInv, StoreType, TxnType
  <2>2. \A u \in Session \ {s} : Touched(u)' = Touched(u)
    BY <2>1, OthersTouched
  <2>3. ASSUME NEW a \in Addr, ver'[a].lock # "none"
        PROVE  ver[a].lock # "none" /\ ver'[a].txn = ver[a].txn /\ ~Owns(s, a)
    <3>1. ver' = UndoneBy(s, Touched(s), clock + 1)
      BY <1>5 DEF Rollback
    <3> QED
      BY <2>3, <3>1, UndoUnlocks DEF Owns
  <2>4. LocksHaveOwners'
    BY <2>1, <2>2, <2>3, SettleKeepsOwners
  <2>5. PushedFirst'
    BY <2>1, <2>2, NotWaiting DEF workVars
  <2> QED
    BY <2>4, <2>5
<1>6. ASSUME NEW s \in Session,
             \/ End(s) \/ Abandon(s) \/ StmtBegin(s) \/ ReadNext(s) \/ ScanEnd(s)
             \/ CallbackReturn(s) \/ CallbackStop(s) \/ \E l \in Level : SetLevel(s, l)
      PROVE  LockInv'
  <2>1. UNCHANGED <<ver, open, id, ctx, op, new>> /\ pc'[s] # "check"
        /\ \A u \in Session \ {s} : pc'[u] = pc[u] /\ at'[u] = at[u]
    <3>1. CASE End(s) \/ Abandon(s) \/ \E l \in Level : SetLevel(s, l)
      BY <1>6, <3>1 DEF End, Abandon, SetLevel, workVars, TypeInv, StoreType
    <3>2. CASE StmtBegin(s) \/ ReadNext(s)
      BY <3>2 DEF StmtBegin, ReadNext, Deliver, workVars, txnVars, TypeInv, StoreType, WorkType
    <3>3. CASE ScanEnd(s) \/ CallbackReturn(s) \/ CallbackStop(s)
      BY <3>3 DEF ScanEnd, CallbackReturn, CallbackStop, StmtOver, workVars, txnVars, TypeInv,
                  StoreType, WorkType
    <3> QED
      BY <1>6, <3>1, <3>2, <3>3
  <2>2. PushedFirst'
    BY <2>1, NotWaiting DEF Touched
  <2> QED
    BY <1>1, <2>1, <2>2
<1>7. ASSUME NEW s \in Session, StampNext(s) PROVE LockInv'
  <2>1. PICK a \in Addr : /\ ver' = [ver EXCEPT ![a] = Staged(@, "none", "shared", id'[s], qid'[s])]
                          /\ Push(s, {a}) /\ Deliver(s, a, a)
    BY <1>7, WalkStops DEF StampNext
  <2>2. StageNeedsTransaction(s) /\ UNCHANGED <<op, new>>
    BY <1>7 DEF StampNext
  <2>3. /\ \A u \in Session \ {s} : Touched(u)' = Touched(u)
        /\ Touched(s)' = Touched(s) \union {a}
    BY <2>1, PushTouches
  <2>4. ver'[a].txn = id'[s] /\ \A b \in Addr \ {a} : ver'[b] = ver[b]
    BY <2>1 DEF Staged, TypeInv, StoreType, Control
  <2>5. LocksHaveOwners'
    BY <2>2, <2>3, <2>4, StageKeepsOwners
  <2>6. /\ pc'[s] # "check"
        /\ \A u \in Session \ {s} : pc'[u] = pc[u] /\ at'[u] = at[u]
    BY <2>1 DEF Deliver, TypeInv, StoreType, WorkType
  <2>7. PushedFirst'
    BY <2>2, <2>3, <2>6, StageTypes, NotWaiting
  <2> QED
    BY <2>5, <2>7
<1>8. ASSUME NEW s \in Session, CheckNext(s) PROVE LockInv'
  <2>1. StageNeedsTransaction(s) /\ UNCHANGED <<ver, ctx, new>> /\ op' = [op EXCEPT ![s] = "read"]
        /\ \A u \in Session \ {s} : pc'[u] = pc[u] /\ at'[u] = at[u]
    BY <1>8 DEF CheckNext, TypeInv, StoreType, WorkType
  <2>2. LocksHaveOwners'
    BY <2>1, StageKeepsOwners DEF Touched
  <2>3. op'[s] = "read" /\ \A u \in Session \ {s} : op'[u] = op[u]
    BY <2>1 DEF TypeInv, WorkType
  <2>4. PushedFirst'
    BY <2>1, <2>3, StageTypes DEF PushedFirst, Touched
  <2> QED
    BY <2>2, <2>4
<1>9. ASSUME NEW s \in Session, Insert(s) PROVE LockInv'
  <2>1. PICK a \in Addr \ used :
            /\ Push(s, {a})
            /\ ver' = [ver EXCEPT ![a] =
                          StagedInsert(id'[s], qid'[s], NoAddr, Least(Unnamed(s)))]
    BY <1>9 DEF Insert
  <2>2. StageNeedsTransaction(s) /\ UNCHANGED <<pc, workVars>> /\ pc[s] # "check"
    BY <1>9 DEF Insert
  <2>3. /\ \A u \in Session \ {s} : Touched(u)' = Touched(u)
        /\ Touched(s)' = Touched(s) \union {a}
    BY <2>1, PushTouches
  <2>4. ver'[a].txn = id'[s] /\ \A b \in Addr \ {a} : ver'[b] = ver[b]
    BY <2>1 DEF StagedInsert, Blank, TypeInv, StoreType
  <2>5. LocksHaveOwners'
    BY <2>2, <2>3, <2>4, StageKeepsOwners
  <2>6. PushedFirst'
    BY <2>2, <2>3, StageTypes, NotWaiting DEF workVars
  <2> QED
    BY <2>5, <2>6
<1>10. ASSUME NEW s \in Session, UpdateStart(s) \/ DeleteStart(s) PROVE LockInv'
  <2>1. PICK rows \in SUBSET Addr : Push(s, rows) /\ at[s] \in rows
                                    /\ (op'[s] = "update" => new'[s] \in rows)
    <3>1. CASE UpdateStart(s)
      BY <3>1 DEF UpdateStart, Handed, TypeInv, Placed, WorkType
    <3>2. CASE DeleteStart(s)
      BY <3>2 DEF DeleteStart, Handed, TypeInv, Placed, WorkType
    <3> QED
      BY <1>10, <3>1, <3>2
  <2>2. /\ StageNeedsTransaction(s) /\ UNCHANGED <<ver, at>>
        /\ \A u \in Session \ {s} : pc'[u] = pc[u] /\ op'[u] = op[u] /\ new'[u] = new[u]
    BY <1>10 DEF UpdateStart, DeleteStart, TypeInv, StoreType, WorkType
  <2>3. /\ \A u \in Session \ {s} : Touched(u)' = Touched(u)
        /\ Touched(s)' = Touched(s) \union rows
    BY <2>1, PushTouches
  <2>4. LocksHaveOwners'
    BY <2>2, <2>3, StageKeepsOwners
  <2>5. PushedFirst'
    BY <2>1, <2>2, <2>3, StageTypes DEF PushedFirst
  <2> QED
    BY <2>4, <2>5
<1>11. ASSUME NEW s \in Session, ReadGranted(s) \/ ReadSkipped(s) \/ WriteRefused(s) \/ GiveUp(s)
       PROVE  LockInv'
  <2>1. UNCHANGED <<ver, open, id, ctx>> /\ pc'[s] # "check"
        /\ \A u \in Session \ {s} :
               pc'[u] = pc[u] /\ at'[u] = at[u] /\ op'[u] = op[u] /\ new'[u] = new[u]
    <3>1. CASE ReadGranted(s)
      BY <3>1 DEF ReadGranted, Deliver, CheckOver, txnVars, TypeInv, StoreType, WorkType
    <3>2. CASE ReadSkipped(s) \/ WriteRefused(s)
      BY <3>2 DEF ReadSkipped, WriteRefused, CheckOver, txnVars, TypeInv, StoreType, WorkType
    <3>3. CASE GiveUp(s)
      BY <3>3 DEF GiveUp, StmtOver, CheckOver, TypeInv, StoreType, WorkType
    <3> QED
      BY <1>11, <3>1, <3>2, <3>3
  <2>2. PushedFirst'
    BY <2>1, NotWaiting DEF Touched
  <2> QED
    BY <1>1, <2>1, <2>2
<1>12. ASSUME NEW s \in Session, Restart(s) PROVE LockInv'
  <2>1. PICK gone \in SUBSET ctx[s] :
            /\ ver' = UndoneBy(s, {e.addr : e \in gone}, clock + 1)
            /\ ctx' = [ctx EXCEPT ![s] = ctx[s] \ gone]
    BY <1>12 DEF Restart, TypeInv, StoreType
  <2>2. /\ UNCHANGED <<id, open, at>> /\ pc'[s] # "check"
        /\ \A u \in Session \ {s} : pc'[u] = pc[u] /\ op'[u] = op[u] /\ new'[u] = new[u]
    BY <1>12 DEF Restart, CheckOver, TypeInv, StoreType, WorkType
  <2>3. /\ \A u \in Session \ {s} : Touched(u)' = Touched(u)
        /\ Touched(s)' = {e.addr : e \in ctx[s] \ gone}
    BY <2>1, OthersTouched
  <2>4. ASSUME NEW a \in Addr, ver'[a].lock # "none"
        PROVE  /\ ver[a].lock # "none" /\ ver'[a].txn = ver[a].txn
               /\ Owns(s, a) => Owns(s, a)'
    <3>1. ver'[a] = ver[a] /\ ~(a \in {e.addr : e \in gone} /\ ver[a].txn = id[s])
      BY <2>1, <2>4, UndoUnlocks
    <3>2. a \in Touched(s) /\ a \notin {e.addr : e \in gone} => a \in Touched(s)'
      BY <2>3 DEF Touched
    <3> QED
      BY <2>2, <2>4, <3>1, <3>2 DEF Owns
  <2>5. LocksHaveOwners'
    BY <2>2, <2>3, <2>4, SettleKeepsOwners
  <2>6. PushedFirst'
    BY <2>2, <2>3, NotWaiting
  <2> QED
    BY <2>5, <2>6
<1>13. ASSUME NEW s \in Session, UpdateGranted(s) \/ DeleteGranted(s) PROVE LockInv'
  <2>1. /\ UNCHANGED <<id, open, ctx, txnVars, at>> /\ pc'[s] # "check" /\ open[s]
        /\ \A u \in Session \ {s} : pc'[u] = pc[u] /\ op'[u] = op[u] /\ new'[u] = new[u]
    BY <1>13 DEF UpdateGranted, DeleteGranted, Answered, CheckOver, PushedFirst, txnVars, TypeInv,
                 StoreType, WorkType
  <2>2. StageNeedsTransaction(s)
    BY <2>1 DEF StageNeedsTransaction
  <2>3. ASSUME NEW state
        PROVE  Restage(s, state).txn = id[s]
    BY DEF Restage, Staged, TypeInv, WorkType, Control
  <2>4. StagedInsert(id[s], qid[s], at[s], ver[at[s]].row).txn = id[s]
    BY DEF StagedInsert, Blank
  <2>5. ASSUME NEW a \in Addr
        PROVE  ver'[a] = ver[a] \/ (ver'[a].txn = id'[s] /\ a \in Touched(s)')
    <3>1. CASE UpdateGranted(s)
      <4>1. at[s] \in Touched(s) /\ new[s] \in Touched(s)
        BY <3>1 DEF UpdateGranted, Answered, PushedFirst
      <4> QED
        BY <2>1, <2>3, <2>4, <3>1, <4>1 DEF UpdateGranted, Touched, TypeInv, StoreType
    <3>2. CASE DeleteGranted(s)
      <4>1. at[s] \in Touched(s)
        BY <3>2 DEF DeleteGranted, Answered, PushedFirst
      <4> QED
        BY <2>1, <2>3, <3>2, <4>1 DEF DeleteGranted, Touched, TypeInv, StoreType
    <3> QED
      BY <1>13, <3>1, <3>2
  <2>6. LocksHaveOwners'
    BY <2>1, <2>2, <2>5, StageKeepsOwners DEF Touched
  <2>7. PushedFirst'
    BY <2>1, NotWaiting DEF Touched
  <2> QED
    BY <2>6, <2>7
<1>14. ASSUME NEW s \in Session, BreakStale(s) PROVE LockInv'
  <2>1. UNCHANGED <<ctx, pc, id, open, op, at, new>>
        /\ ver' = [ver EXCEPT ![at[s]] = RolledBack(ver[at[s]], clock + 1)]
        /\ pc[s] = "check"
    BY <1>14 DEF BreakStale, Waiting, txnVars
  <2>2. at[s] \in Addr /\ clock + 1 \in Nat /\ ver[at[s]] \in Control
    BY <2>1 DEF TypeInv, Placed, StoreType
  <2>3. ver'[at[s]].lock = "none" /\ \A a \in Addr \ {at[s]} : ver'[a] = ver[a]
    BY <2>1, <2>2, SettlingTypes DEF TypeInv, StoreType
  <2>4. LocksHaveOwners'
    BY <2>1, <2>3 DEF LocksHaveOwners, Touched
  <2>5. PushedFirst'
    BY <2>1 DEF PushedFirst, Touched
  <2> QED
    BY <2>4, <2>5
<1>15. ASSUME NEW s \in Session, Reload(s) PROVE LockInv'
  BY <1>1, <1>15 DEF Reload, txnVars, PushedFirst, Touched
<1>16. ASSUME NEW s \in Session, Truncate(s) PROVE LockInv'
  <2>1. UNCHANGED <<ctx, pc, id, open, op, at, new>>
        /\ \A a \in Addr : ver'[a].lock # "none" => ver'[a] = ver[a]
    BY <1>16 DEF Truncate, txnVars, workVars, Blank
  <2>2. LocksHaveOwners'
    BY <2>1 DEF LocksHaveOwners, Touched
  <2>3. PushedFirst'
    BY <2>1 DEF PushedFirst, Touched
  <2> QED
    BY <2>2, <2>3
<1> QED
  BY <1>2, <1>3, <1>4, <1>5, <1>6, <1>7, <1>8, <1>9, <1>10, <1>11, <1>12, <1>13, <1>14, <1>15, <1>16
     DEF Next, Step, CheckMoves

\* Every lock belongs to a transaction that has yet to end and that lists the row,
\* so its commit or its rollback will give it back (_online_insert, _online_update,
\* _online_delete push before they stage; commit and rollback walk the list).
THEOREM LocksAlwaysHaveOwners == Spec => []LocksHaveOwners
<1>1. Init => LockInv
  <2>1. Blank.lock = "none" /\ \A r : Committed(r).lock = "none"
    BY DEF Committed, Blank
  <2>2. Init => LocksHaveOwners
    BY <2>1 DEF Init, LocksHaveOwners
  <2>3. Init => PushedFirst
    BY DEF Init, PushedFirst
  <2> QED
    BY <2>2, <2>3 DEF LockInv
<1>2. LockInv => LocksHaveOwners
  BY DEF LockInv
<1> QED
  BY <1>1, <1>2, LockInvStep, TypeInvInit, TypeInvStep, PTL DEF Spec

=============================================================================
