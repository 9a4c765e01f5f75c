--------------------------- MODULE MvccRowProofs ---------------------------
(***************************************************************************)
(* What holds of the row versions of Mvcc, and of what a reader is shown.  *)
(*                                                                         *)
(* For all values of the constants: NothingUnborn.  For all values too, in *)
(* every behaviour in which a writer or the breaker decides on the row as  *)
(* it is (Fresh): StagedIsLeftAlone and CommittedStays, whatever sessions  *)
(* write the same row, displace shared stamps or truncate.  Where the      *)
(* layer above begins before it stages (BeginsFirst) and nothing is        *)
(* truncated: NothingFromTheFuture.                                        *)
(*                                                                         *)
(* Where the sessions write apart (Apart): StampsReach and DeliveredIsDue; *)
(* and where nothing is truncated besides, NoRowTwice and                  *)
(* NothingDueIsSkipped.  The inductive invariant ApartInv relates the      *)
(* versions of a row to one another (Rows) and each session to the rows on *)
(* its list, under its cursor and under its check_lock (Sessions).         *)
(*                                                                         *)
(* Without Fresh two sessions that load one control block write two        *)
(* current versions (the run twin).                                        *)
(***************************************************************************)
EXTENDS MvccProofs

-----------------------------------------------------------------------------
(* Control blocks, field by field                                          *)

\* What settling leaves in each field, and what undoing does.
LEMMA FlipFields ==
    ASSUME NEW c \in Control, NEW n \in Nat
    PROVE  /\ Flip(c, n).row = c.row /\ Flip(c, n).ref = c.ref
           /\ Flip(c, n).on = "none" /\ Flip(c, n).lock = "none"
           /\ Flip(c, n).txn = 0 /\ Flip(c, n).qid = 0
           /\ Flip(c, n).off = IF c.on = "none" THEN c.off ELSE c.on
           /\ Flip(c, n).born = IF c.on = "inserted" THEN n ELSE c.born
           /\ Flip(c, n).died = IF c.on \in {"updated", "deleted"} THEN n ELSE c.died
<1>1. c.on \in RowState /\ c.off \in RowState /\ "none" \in RowState /\ "deleted" \in RowState
  BY DEF Control, RowState
<1>2. ASSUME NEW d \in Control
      PROVE  /\ Unstaged(d).row = d.row /\ Unstaged(d).ref = d.ref /\ Unstaged(d).off = d.off
             /\ Unstaged(d).born = d.born /\ Unstaged(d).died = d.died
             /\ Unstaged(d).on = "none" /\ Unstaged(d).lock = "none"
             /\ Unstaged(d).txn = 0 /\ Unstaged(d).qid = 0
  BY DEF Unstaged, Staged, Control
<1>3. CASE c.on = "inserted"
  <2> DEFINE d == [c EXCEPT !.off = c.on, !.born = n]
  <2>1. d \in Control /\ d.row = c.row /\ d.ref = c.ref /\ d.off = c.on /\ d.born = n /\ d.died = c.died
    BY <1>1 DEF Control
  <2>2. Flip(c, n) = Unstaged(d)
    BY <1>3 DEF Flip
  <2> HIDE DEF d
  <2> QED BY <1>2, <1>3, <2>1, <2>2
<1>4. CASE c.on \in {"updated", "deleted"}
  <2> DEFINE d == [c EXCEPT !.off = c.on, !.died = n]
  <2>1. d \in Control /\ d.row = c.row /\ d.ref = c.ref /\ d.off = c.on /\ d.born = c.born /\ d.died = n
    BY <1>1 DEF Control
  <2>2. Flip(c, n) = Unstaged(d)
    BY <1>4 DEF Flip
  <2> HIDE DEF d
  <2> QED BY <1>2, <1>4, <2>1, <2>2
<1>5. CASE c.on = "none"
  <2>1. Flip(c, n) = Unstaged(c)
    BY <1>5 DEF Flip
  <2> QED BY <1>2, <1>5, <2>1
<1> QED BY <1>1, <1>3, <1>4, <1>5 DEF RowState

\* A blank block settles to a blank block.
LEMMA BlankStays == \A n \in Nat : Flip(Blank, n) = Blank
<1>1. Blank.on = "none"
  BY DEF Blank
<1>2. Blank = [on |-> Blank.on, lock |-> Blank.lock, off |-> Blank.off, txn |-> Blank.txn,
               qid |-> Blank.qid, ref |-> Blank.ref, died |-> Blank.died, born |-> Blank.born,
               row |-> Blank.row]
  BY DEF Blank
<1>3. Unstaged(Blank) = Blank
  BY <1>2 DEF Unstaged, Staged, Blank
<1> QED BY <1>1, <1>3 DEF Flip

LEMMA RolledBackFields ==
    ASSUME NEW c \in Control, NEW n \in Nat
    PROVE  /\ RolledBack(c, n).row = c.row /\ RolledBack(c, n).ref = c.ref
           /\ RolledBack(c, n).on = "none" /\ RolledBack(c, n).lock = "none"
           /\ RolledBack(c, n).txn = 0 /\ RolledBack(c, n).qid = 0
           /\ RolledBack(c, n).off = IF c.off = "none" THEN "deleted" ELSE c.off
           /\ RolledBack(c, n).born = IF c.off = "none" THEN n ELSE c.born
           /\ RolledBack(c, n).died = IF c.off = "none" THEN n ELSE c.died
<1>1. c.on \in RowState /\ c.off \in RowState /\ "none" \in RowState /\ "deleted" \in RowState
  BY DEF Control, RowState
<1>2. ASSUME NEW d \in Control
      PROVE  /\ Unstaged(d).row = d.row /\ Unstaged(d).ref = d.ref /\ Unstaged(d).off = d.off
             /\ Unstaged(d).born = d.born /\ Unstaged(d).died = d.died
             /\ Unstaged(d).on = "none" /\ Unstaged(d).lock = "none"
             /\ Unstaged(d).txn = 0 /\ Unstaged(d).qid = 0
  BY DEF Unstaged, Staged, Control
<1>3. CASE c.off = "none"
  <2> DEFINE d == [c EXCEPT !.off = "deleted", !.died = n, !.born = n]
  <2>1. d \in Control /\ d.row = c.row /\ d.ref = c.ref /\ d.off = "deleted" /\ d.born = n /\ d.died = n
    BY <1>1 DEF Control
  <2>2. RolledBack(c, n) = Unstaged(d)
    BY <1>3 DEF RolledBack
  <2> HIDE DEF d
  <2> QED BY <1>2, <1>3, <2>1, <2>2
<1>4. CASE c.off # "none"
  <2>1. RolledBack(c, n) = Unstaged(c)
    BY <1>4 DEF RolledBack
  <2> QED BY <1>2, <1>4, <2>1
<1> QED BY <1>3, <1>4

\* And staging: the committed part stays.
LEMMA StagedFields ==
    ASSUME NEW c, c \in Control, NEW on, NEW lock, NEW n, NEW q
    PROVE  /\ Staged(c, on, lock, n, q).row = c.row /\ Staged(c, on, lock, n, q).ref = c.ref
           /\ Staged(c, on, lock, n, q).off = c.off /\ Staged(c, on, lock, n, q).born = c.born
           /\ Staged(c, on, lock, n, q).died = c.died
           /\ Staged(c, on, lock, n, q).on = on /\ Staged(c, on, lock, n, q).lock = lock
           /\ Staged(c, on, lock, n, q).txn = n /\ Staged(c, on, lock, n, q).qid = q
BY DEF Staged, Control

LEMMA InsertFields ==
    ASSUME NEW n, NEW q, NEW p, NEW r
    PROVE  /\ StagedInsert(n, q, p, r).row = r /\ StagedInsert(n, q, p, r).ref = p
           /\ StagedInsert(n, q, p, r).off = "none" /\ StagedInsert(n, q, p, r).born = 0
           /\ StagedInsert(n, q, p, r).died = 0
           /\ StagedInsert(n, q, p, r).on = "inserted" /\ StagedInsert(n, q, p, r).lock = "exclusive"
           /\ StagedInsert(n, q, p, r).txn = n /\ StagedInsert(n, q, p, r).qid = q
BY DEF StagedInsert, Blank

-----------------------------------------------------------------------------
(* What a step does to a row                                               *)

\* the version at a, changed by a step of s, in the seven ways there are
Settles(s, a) ==
    /\ Commit(s) /\ clock' = clock + 1
    /\ LET c == FlippedBy(s, clock + 1)[a]
       IN  ver'[a] = c \/ (SettledSuperseded(c) /\ \E q \in Int : ver'[a] = [c EXCEPT !.qid = q])
Undoes(s, a) ==
    /\ \/ (Rollback(s) \/ Restart(s)) /\ a \in Touched(s) /\ ver[a].txn = id[s]
       \/ BreakStale(s) /\ a = at[s]
    /\ ver'[a] = RolledBack(ver[a], clock + 1)
    /\ ver[a].off = "none" => clock' = clock + 1
Marks(s, a) ==
    /\ StampNext(s) /\ ver[a].lock = "none"
    /\ ver'[a] = Staged(ver[a], "none", "shared", id'[s], qid'[s])
Adds(s, a) ==
    /\ Insert(s) /\ a \notin used /\ a \in used'
    /\ ver'[a] = StagedInsert(id'[s], qid'[s], NoAddr, Least(Unnamed(s)))
Takes(s, a) ==
    /\ UpdateGranted(s) \/ DeleteGranted(s)
    /\ a = at[s] /\ \E state \in {"updated", "deleted"} : ver'[a] = Restage(s, state)
Replaces(s, a) ==
    /\ UpdateGranted(s) /\ a = new[s]
    /\ ver'[a] = StagedInsert(id[s], qid[s], at[s], ver[at[s]].row)
Frees(s, a) == Truncate(s) /\ a \in DeadRows /\ ver'[a] = Blank

Changes(s, a) ==
    \/ Settles(s, a) \/ Undoes(s, a) \/ Marks(s, a) \/ Adds(s, a)
    \/ Takes(s, a) \/ Replaces(s, a) \/ Frees(s, a)

\* Every change of a control block is one of these.
LEMMA RowStep ==
    ASSUME TypeInv, NEW s \in Session, Step(s), NEW a \in Addr, ver'[a] # ver[a]
    PROVE  Changes(s, a)
<1>1. ver \in [Addr -> Control]
  BY DEF TypeInv, StoreType
<1>3. ver' # ver
  OBVIOUS
<1>4. CASE Begin(s) \/ End(s) \/ Abandon(s) \/ (\E l \in Level : SetLevel(s, l)) \/ StmtBegin(s)
  BY <1>3, <1>4 DEF Begin, End, Abandon, SetLevel, StmtBegin
<1>5. CASE ReadNext(s) \/ CheckNext(s) \/ ScanEnd(s) \/ CallbackReturn(s) \/ CallbackStop(s)
           \/ UpdateStart(s) \/ DeleteStart(s) \/ Reload(s)
  BY <1>3, <1>5 DEF ReadNext, CheckNext, ScanEnd, CallbackReturn, CallbackStop, UpdateStart,
                    DeleteStart, Reload
<1>6. CASE ReadGranted(s) \/ ReadSkipped(s) \/ WriteRefused(s) \/ GiveUp(s)
  BY <1>3, <1>6 DEF ReadGranted, ReadSkipped, WriteRefused, GiveUp
<1>7. CASE Commit(s)
  <2>1. clock' = clock + 1 /\ ver' = StampedBy(s, FlippedBy(s, clock + 1))
    BY <1>3, <1>7 DEF Commit
  <2> DEFINE after == FlippedBy(s, clock + 1)
             succ  == Successor(after, s, a)
  <2>2. CASE a \in used /\ SettledSuperseded(after[a]) /\ succ # {}
    <3>1. (CHOOSE x \in succ : TRUE) \in succ
      BY <2>2
    <3>2. succ \subseteq Addr
      BY DEF Successor, Touched, TypeInv, StoreType
    <3> HIDE DEF succ
    <3>3. (CHOOSE x \in succ : TRUE) \in Int
      <4>1. Addr \subseteq Int
        BY ConstantsAssumption
      <4> QED BY <3>1, <3>2, <4>1
    <3>4. ver'[a] = [after[a] EXCEPT !.qid = CHOOSE x \in succ : TRUE]
      BY <2>1, <2>2 DEF StampedBy, succ
    <3> QED BY <1>7, <2>1, <2>2, <3>3, <3>4 DEF Changes, Settles
  <2>3. CASE ~(a \in used /\ SettledSuperseded(after[a]) /\ succ # {})
    <3>1. ver'[a] = after[a]
      BY <2>1, <2>3 DEF StampedBy
    <3> QED BY <1>7, <2>1, <3>1 DEF Changes, Settles
  <2> QED BY <2>2, <2>3
<1>8. ASSUME NEW rows \in SUBSET Touched(s), Stamps(s, rows), ver' = UndoneBy(s, rows, clock + 1),
             Rollback(s) \/ Restart(s)
      PROVE  Undoes(s, a)
  <2>1. a \in rows /\ ver[a].txn = id[s] /\ ver'[a] = RolledBack(ver[a], clock + 1)
    BY <1>8 DEF UndoneBy
  <2> QED BY <1>8, <2>1 DEF Stamps, Undoes
<1>9. CASE Rollback(s)
  BY <1>8, <1>9 DEF Rollback, Changes
<1>10. CASE Restart(s)
  <2> DEFINE gone == {e \in ctx[s] : qtime[s] = 0 \/ e.at >= nstmt[s]}
             rows == {e.addr : e \in gone}
  <2>1. ver' = UndoneBy(s, rows, clock + 1) /\ Stamps(s, rows)
    BY <1>10 DEF Restart
  <2>2. rows \subseteq Touched(s)
    BY DEF Touched
  <2> QED BY <1>8, <1>10, <2>1, <2>2 DEF Changes
<1>11. CASE BreakStale(s)
  <2>1. a = at[s]
    BY <1>1, <1>11 DEF BreakStale
  <2> QED BY <1>1, <1>11, <2>1 DEF BreakStale, Changes, Undoes
<1>12. CASE StampNext(s)
  <2>1. a = Least(Ahead(s)) /\ ver[a].lock = "none"
        /\ ver'[a] = Staged(ver[a], "none", "shared", id'[s], qid'[s])
    BY <1>1, <1>12 DEF StampNext
  <2> QED BY <1>12, <2>1 DEF Changes, Marks
<1>13. CASE Insert(s)
  BY <1>1, <1>13 DEF Insert, Changes, Adds
<1>14. CASE UpdateGranted(s)
  <2>1. ver' = [ver EXCEPT ![at[s]]  = Restage(s, "updated"),
                           ![new[s]] = StagedInsert(id[s], qid[s], at[s], ver[at[s]].row)]
    BY <1>14 DEF UpdateGranted
  <2>2. CASE a = new[s]
    BY <1>1, <1>14, <2>1, <2>2 DEF Changes, Replaces
  <2>3. CASE a # new[s]
    BY <1>1, <1>14, <2>1, <2>3 DEF Changes, Takes
  <2> QED BY <2>2, <2>3
<1>15. CASE DeleteGranted(s)
  BY <1>1, <1>15 DEF DeleteGranted, Changes, Takes
<1>16. CASE Truncate(s)
  BY <1>1, <1>16 DEF Truncate, Changes, Frees
<1> QED BY <1>4, <1>5, <1>6, <1>7, <1>9, <1>10, <1>11, <1>12, <1>13, <1>14, <1>15, <1>16
        DEF Step, CheckMoves

LEMMA RowSteps ==
    ASSUME TypeInv, [Next]_vars, NEW a \in Addr, ver'[a] # ver[a]
    PROVE  \E s \in Session : Changes(s, a)
<1>1. PICK s \in Session : Step(s)
  BY DEF Next, Done, vars
<1> QED BY <1>1, RowStep

\* What check_lock has loaded is a copy of a row as it is, or nothing.
LEMMA SeenSteps ==
    ASSUME TypeInv, [Next]_vars, NEW u \in Session, seen'[u] # seen[u]
    PROVE  seen'[u] = Blank \/ \E b \in Addr : seen'[u] = ver'[b]
<1>1. seen \in [Session -> Control] /\ seen' # seen /\ ver \in [Addr -> Control]
  BY DEF TypeInv, WorkType, StoreType
<1>2. PICK s \in Session : Step(s)
  BY DEF Next, Done, vars, workVars
<1>3. CASE Begin(s) \/ End(s) \/ Abandon(s) \/ (\E l \in Level : SetLevel(s, l)) \/ StmtBegin(s)
           \/ Commit(s) \/ Rollback(s) \/ ReadNext(s) \/ StampNext(s) \/ ScanEnd(s)
           \/ CallbackReturn(s) \/ CallbackStop(s) \/ Insert(s) \/ Truncate(s)
  BY <1>1, <1>3 DEF Begin, End, Abandon, SetLevel, StmtBegin, Commit, Rollback, ReadNext, StampNext,
                    ScanEnd, CallbackReturn, CallbackStop, Insert, Truncate, workVars
<1>4. CASE ReadGranted(s) \/ ReadSkipped(s) \/ Restart(s) \/ UpdateGranted(s) \/ DeleteGranted(s)
           \/ WriteRefused(s) \/ GiveUp(s)
  <2>1. CheckOver(s)
    BY <1>4 DEF ReadGranted, ReadSkipped, Restart, UpdateGranted, DeleteGranted, WriteRefused, GiveUp
  <2> QED BY <1>1, <2>1 DEF CheckOver
<1>5. CASE CheckNext(s)
  <2>1. Least(Ahead(s)) \in Addr /\ ver' = ver /\ seen' = [seen EXCEPT ![s] = ver[Least(Ahead(s))]]
    BY <1>5, WalkStops DEF CheckNext
  <2> QED BY <1>1, <2>1
<1>6. CASE UpdateStart(s) \/ DeleteStart(s)
  <2>1. at[s] \in Addr /\ ver' = ver /\ seen' = [seen EXCEPT ![s] = ver[at[s]]]
    BY <1>6 DEF UpdateStart, DeleteStart, Handed, TypeInv, Placed
  <2> QED BY <1>1, <2>1
<1>7. CASE Reload(s)
  <2>1. at[s] \in Addr /\ ver' = ver /\ seen' = [seen EXCEPT ![s] = ver[at[s]]]
    BY <1>7 DEF Reload, Waiting, TypeInv, Placed
  <2> QED BY <1>1, <2>1
<1>8. CASE BreakStale(s)
  <2>1. at[s] \in Addr
    BY <1>8 DEF BreakStale, Waiting, TypeInv, Placed
  <2>2. ver'[at[s]] = seen'[s] /\ \A v \in Session : v # s => seen'[v] = seen[v]
    BY <1>1, <1>8, <2>1 DEF BreakStale
  <2> QED BY <2>1, <2>2
<1> QED BY <1>2, <1>3, <1>4, <1>5, <1>6, <1>7, <1>8 DEF Step, CheckMoves

\* The version clock does not go back.
LEMMA ClockSteps ==
    ASSUME TypeInv, [Next]_vars
    PROVE  clock' \in Nat /\ clock <= clock'
<1>1. clock \in Nat
  BY DEF TypeInv, StoreType
<1>2. clock' \in {clock, clock + 1}
  <2>1. CASE UNCHANGED clock
    BY <2>1
  <2>2. CASE \E s \in Session : Commit(s) \/ Rollback(s) \/ Restart(s) \/ BreakStale(s)
    BY <2>2 DEF Commit, Rollback, Restart, BreakStale, Stamps
  <2>3. ASSUME NEW s \in Session, Step(s) PROVE UNCHANGED clock \/ Commit(s) \/ Rollback(s) \/ Restart(s) \/ BreakStale(s)
    BY <2>3 DEF Step, Begin, End, Abandon, SetLevel, StmtBegin, ReadNext, StampNext, CheckNext,
                ScanEnd, CallbackReturn, CallbackStop, Insert, UpdateStart, DeleteStart, CheckMoves,
                ReadGranted, ReadSkipped, UpdateGranted, DeleteGranted, WriteRefused, GiveUp, Reload,
                Truncate
  <2>4. [Next]_vars => UNCHANGED clock \/ \E s \in Session : Step(s)
    BY DEF Next, Done, vars
  <2> QED BY <2>1, <2>2, <2>3, <2>4
<1> QED BY <1>1, <1>2

-----------------------------------------------------------------------------
(* Control blocks: birth, death and ownership                              *)

\* what is committed has been born, what is dead has died, both by now, and who has a
\* row has it locked
Sound(c, now) ==
    /\ c.off = "inserted" => c.born # 0
    /\ Dead(c) => c.died # 0
    /\ c.txn # 0 => c.lock # "none"
    /\ c.born <= now /\ c.died <= now

BlocksSound ==
    /\ \A a \in Addr : Sound(ver[a], clock)
    /\ \A s \in Session : Sound(seen[s], clock)

\* Each way to write a control block keeps it sound.
LEMMA SoundBlocks ==
    ASSUME NEW c \in Control, NEW now \in Nat, NEW then \in Nat, now <= then, Sound(c, now)
    PROVE  /\ Sound(c, then) /\ Sound(Blank, then)
           /\ then = now + 1 => Sound(Flip(c, then), then)
           /\ (c.off = "none" => then = now + 1) => Sound(RolledBack(c, now + 1), then)
           /\ \A q \in Int : Sound([c EXCEPT !.qid = q], then)
           /\ \A n \in Nat, q \in Int, state \in RowState :
                /\ Sound(Staged(c, state, "exclusive", n, q), then)
                /\ Sound(Staged(c, state, "shared", n, q), then)
           /\ \A n \in Nat, q \in Int, p \in Nat, r \in Nat : Sound(StagedInsert(n, q, p, r), then)
<1>1. Sound(c, then)
  BY DEF Sound, Control
<1>2. Sound(Blank, then) /\ \A n \in Nat, q \in Int, p \in Nat, r \in Nat : Sound(StagedInsert(n, q, p, r), then)
  BY DEF Sound, Blank, StagedInsert, Dead, NoAddr
<1>3. ASSUME NEW d \in Control, Sound(d, then), NEW q \in Int, NEW n \in Nat, NEW state \in RowState
      PROVE  /\ Sound([d EXCEPT !.qid = q], then)
             /\ Sound(Staged(d, state, "exclusive", n, q), then)
             /\ Sound(Staged(d, state, "shared", n, q), then)
  BY <1>3 DEF Sound, Staged, Control, Dead
<1>4. ASSUME NEW d \in Control, Sound(d, then) PROVE Sound(Unstaged(d), then)
  BY <1>4 DEF Sound, Unstaged, Staged, Control, Dead
<1>5. ASSUME then = now + 1 PROVE Sound(Flip(c, then), then)
  <2>1. [c EXCEPT !.off = c.on, !.born = then] \in Control /\ [c EXCEPT !.off = c.on, !.died = then] \in Control
    BY DEF Control
  <2>2. CASE c.on = "inserted"
    <3>1. Sound([c EXCEPT !.off = c.on, !.born = then], then)
      BY <1>5, <2>2 DEF Sound, Control, Dead
    <3>2. Flip(c, then) = Unstaged([c EXCEPT !.off = c.on, !.born = then])
      BY <2>2 DEF Flip
    <3> QED BY <1>4, <2>1, <3>1, <3>2
  <2>3. CASE c.on \in {"updated", "deleted"}
    <3>1. Sound([c EXCEPT !.off = c.on, !.died = then], then)
      BY <1>5, <2>3 DEF Sound, Control, Dead
    <3>2. Flip(c, then) = Unstaged([c EXCEPT !.off = c.on, !.died = then])
      BY <2>3 DEF Flip
    <3> QED BY <1>4, <2>1, <3>1, <3>2
  <2>4. CASE c.on \notin {"inserted", "updated", "deleted"}
    <3>1. Flip(c, then) = Unstaged(c)
      BY <2>4 DEF Flip
    <3> QED BY <1>1, <1>4, <3>1
  <2> QED BY <2>2, <2>3, <2>4
<1>6. ASSUME c.off = "none" => then = now + 1 PROVE Sound(RolledBack(c, now + 1), then)
  <2>1. CASE c.off = "none"
    <3> DEFINE d == [c EXCEPT !.off = "deleted", !.died = now + 1, !.born = now + 1]
    <3>1. now + 1 \in Nat /\ "deleted" \in RowState
      BY DEF RowState
    <3>2. d \in Control
      BY <3>1 DEF Control
    <3>3. Sound(d, then)
      BY <1>6, <2>1, <3>2 DEF Sound, Control, Dead
    <3>4. RolledBack(c, now + 1) = Unstaged(d)
      BY <2>1 DEF RolledBack
    <3> HIDE DEF d
    <3> QED BY <1>4, <3>2, <3>3, <3>4
  <2>2. CASE c.off # "none"
    <3>1. RolledBack(c, now + 1) = Unstaged(c)
      BY <2>2 DEF RolledBack
    <3> QED BY <1>1, <1>4, <3>1
  <2> QED BY <2>1, <2>2
<1>7. \A q \in Int : Sound([c EXCEPT !.qid = q], then)
  <2>1. "none" \in RowState
    BY DEF RowState
  <2> QED BY <1>1, <1>3, <2>1
<1> QED BY <1>1, <1>2, <1>3, <1>5, <1>6, <1>7

\* Who is born when, and who has what, is kept by every step.
LEMMA BlocksSoundStep ==
    ASSUME TypeInv, TypeInv', BlocksSound, [Next]_vars
    PROVE  BlocksSound'
<1>1. clock \in Nat /\ clock' \in Nat /\ clock <= clock'
  BY ClockSteps DEF TypeInv, StoreType
<1>2. ver \in [Addr -> Control] /\ seen \in [Session -> Control]
  BY DEF TypeInv, StoreType, WorkType
<1>3. id \in [Session -> Nat] /\ qid \in [Session -> Int] /\ id' \in [Session -> Nat] /\ qid' \in [Session -> Int]
  BY DEF TypeInv, TxnType
<1>4. ASSUME NEW a \in Addr PROVE Sound(ver'[a], clock')
  <2>1. CASE ver'[a] = ver[a]
    BY <1>1, <1>2, <2>1, SoundBlocks DEF BlocksSound
  <2>2. CASE ver'[a] # ver[a]
    <3>1. PICK s \in Session : Changes(s, a)
      BY <2>2, RowSteps
    <3>2. CASE Settles(s, a)
      <4> DEFINE f == FlippedBy(s, clock + 1)[a]
      <4>1. f = ver[a] \/ f = Flip(ver[a], clock + 1)
        BY DEF FlippedBy
      <4>2. clock' = clock + 1
        BY <3>2 DEF Settles
      <4>3. f \in Control /\ Sound(f, clock')
        BY <1>1, <1>2, <4>1, <4>2, SoundBlocks, SettlingTypes DEF BlocksSound
      <4>4. ver'[a] = f \/ \E q \in Int : ver'[a] = [f EXCEPT !.qid = q]
        BY <3>2 DEF Settles
      <4> HIDE DEF f
      <4>5. clock' <= clock'
        BY <1>1
      <4>6. \A q \in Int : Sound([f EXCEPT !.qid = q], clock')
        BY <1>1, <4>3, <4>5, SoundBlocks
      <4> QED BY <4>3, <4>4, <4>6
    <3>3. CASE Undoes(s, a)
      BY <1>1, <1>2, <3>3, SoundBlocks DEF Undoes, BlocksSound
    <3>4. CASE Marks(s, a)
      <4>1. "none" \in RowState
        BY DEF RowState
      <4> QED BY <1>1, <1>2, <1>3, <3>4, <4>1, SoundBlocks DEF Marks, BlocksSound
    <3>5. CASE Adds(s, a)
      <4>1. ver'[a] = StagedInsert(id'[s], qid'[s], NoAddr, ver'[a].row)
        BY <3>5 DEF Adds, StagedInsert, Blank
      <4>2. ver'[a].row \in Nat /\ NoAddr \in Nat
        BY DEF TypeInv, StoreType, Control, NoAddr
      <4> QED BY <1>1, <1>2, <1>3, <4>1, <4>2, SoundBlocks DEF BlocksSound
    <3>6. CASE Takes(s, a)
      <4>1. PICK state \in {"updated", "deleted"} : ver'[a] = Restage(s, state)
        BY <3>6 DEF Takes
      <4> DEFINE d == Staged(seen[s], state, "exclusive", id[s], qid[s])
      <4>2. Sound(d, clock')
        BY <1>1, <1>2, <1>3, SoundBlocks DEF BlocksSound, RowState
      <4>3. d \in Control
        <5>1. state \in RowState /\ "exclusive" \in RowLock
          BY DEF RowState, RowLock
        <5>2. seen[s] \in Control /\ id[s] \in Nat /\ qid[s] \in Int
          BY <1>2, <1>3
        <5> QED BY <5>1, <5>2, StagingTypes
      <4>4. ver'[a] = [d EXCEPT !.row = ver[at[s]].row]
        BY <4>1 DEF Restage
      <4> HIDE DEF d
      <4> QED BY <4>2, <4>3, <4>4 DEF Sound, Dead, Control
    <3>7. CASE Replaces(s, a)
      <4>1. at[s] \in Nat /\ ver'[a] = StagedInsert(id[s], qid[s], at[s], ver'[a].row)
        BY <3>7 DEF Replaces, StagedInsert, Blank, TypeInv, WorkType
      <4>2. ver'[a].row \in Nat
        BY DEF TypeInv, StoreType, Control
      <4> QED BY <1>1, <1>2, <1>3, <4>1, <4>2, SoundBlocks DEF BlocksSound
    <3>8. CASE Frees(s, a)
      BY <1>1, <1>2, <3>8, SoundBlocks DEF Frees, BlocksSound
    <3> QED BY <3>1, <3>2, <3>3, <3>4, <3>5, <3>6, <3>7, <3>8 DEF Changes
  <2> QED BY <2>1, <2>2
<1>5. ASSUME NEW u \in Session PROVE Sound(seen'[u], clock')
  <2>1. CASE seen'[u] = seen[u]
    BY <1>1, <1>2, <2>1, SoundBlocks DEF BlocksSound
  <2>2. CASE seen'[u] = Blank
    BY <1>1, <1>2, <2>2, SoundBlocks DEF BlocksSound
  <2>3. CASE \E b \in Addr : seen'[u] = ver'[b]
    BY <1>4, <2>3
  <2> QED BY <2>1, <2>2, <2>3, SeenSteps
<1> QED BY <1>4, <1>5 DEF BlocksSound

LEMMA BlocksSoundInit == Init => BlocksSound
<1> SUFFICES ASSUME Init PROVE BlocksSound
  OBVIOUS
<1>1. Sound(Blank, 1) /\ \A r : Sound(Committed(r), 1)
  BY DEF Sound, Blank, Committed, Dead
<1> QED BY <1>1 DEF Init, BlocksSound

LEMMA AllBlocksSound == Spec => [](TypeInv /\ BlocksSound)
BY TypeInvInit, TypeInvStep, BlocksSoundInit, BlocksSoundStep, PTL DEF Spec

\* What a level that reads without writing hands to the callback.
LEMMA Handing ==
    ASSUME TypeInv, [Next]_vars, NEW s \in Session, Reads(s), ~Locking(s)
    PROVE  /\ ReadNext(s) /\ Ahead(s) # {} /\ ver' = ver /\ clock' = clock
           /\ Least(Ahead(s)) \in Ahead(s) /\ Least(Ahead(s)) \in Addr
           /\ at'[s] = Shown(s, Least(Ahead(s))) /\ pos'[s] = Least(Ahead(s))
<1>1. pc \in [Session -> PC] /\ at \in [Session -> Nat] /\ pos \in [Session -> Nat]
  BY DEF TypeInv, StoreType, WorkType, ScanType
<1>2. pc[s] = "scan" /\ pc'[s] = "callback"
  BY DEF Reads
<1>3. PICK u \in Session : Step(u)
  BY <1>2 DEF Next, Done, vars
<1>4. u = s /\ ReadNext(s)
  <2>1. CASE ReadNext(u)
    BY <1>1, <1>2, <2>1 DEF ReadNext, Deliver
  <2>2. CASE StampNext(u) \/ CheckNext(u)
    BY <1>1, <1>2, <2>2 DEF StampNext, CheckNext, Deliver
  <2>3. CASE Begin(u) \/ Commit(u) \/ Rollback(u) \/ End(u) \/ Abandon(u)
             \/ (\E l \in Level : SetLevel(u, l)) \/ StmtBegin(u) \/ ScanEnd(u) \/ CallbackReturn(u)
             \/ CallbackStop(u) \/ Insert(u) \/ UpdateStart(u) \/ DeleteStart(u) \/ Reload(u) \/ Truncate(u)
    BY <1>1, <1>2, <2>3 DEF Begin, Commit, Rollback, End, Abandon, SetLevel, StmtBegin, ScanEnd,
         CallbackReturn, CallbackStop, Insert, UpdateStart, DeleteStart, Reload, Truncate, StmtOver
  <2>4. CASE CheckMoves(u)
    <3>1. pc[u] = "check"
      BY <2>4 DEF CheckMoves, ReadGranted, ReadSkipped, Restart, UpdateGranted, DeleteGranted,
                  WriteRefused, BreakStale, GiveUp, Answered, Waiting
    <3>2. u # s
      BY <1>2, <3>1
    <3>3. pc'[s] = pc[s]
      BY <1>1, <2>4, <3>2 DEF CheckMoves, ReadGranted, ReadSkipped, Restart, UpdateGranted,
         DeleteGranted, WriteRefused, BreakStale, GiveUp, Deliver, StmtOver
    <3> QED BY <1>2, <3>3
  <2> QED BY <1>3, <2>1, <2>2, <2>3, <2>4 DEF Step
<1>5. Ahead(s) # {} /\ ver' = ver /\ clock' = clock
      /\ Deliver(s, Least(Ahead(s)), Shown(s, Least(Ahead(s))))
  BY <1>4 DEF ReadNext
<1>6. Ahead(s) \subseteq Nat /\ Ahead(s) \subseteq Addr
  BY ConstantsAssumption DEF Ahead, Judged, TypeInv, StoreType
<1>7. Least(Ahead(s)) \in Ahead(s)
  BY <1>5, <1>6, LeastIsMember
<1> QED BY <1>1, <1>4, <1>5, <1>6, <1>7 DEF Deliver

\* Nor does READ COMMITTED show a version that never lived: one replaced or
\* rolled back by the transaction that made it was current at no instant.
THEOREM UnbornIsNeverShown == Spec => NothingUnborn
<1>1. TypeInv /\ BlocksSound /\ [Next]_vars =>
        \A s \in Session : Reads(s) /\ level[s] = "RC" =>
          LET c == ver[at'[s]] IN Mine(s, c) \/ (c.born # 0 /\ (Dead(c) => c.born < c.died))
  <2> SUFFICES ASSUME TypeInv, BlocksSound, [Next]_vars, NEW s \in Session, Reads(s), level[s] = "RC"
               PROVE  LET c == ver[at'[s]] IN Mine(s, c) \/ (c.born # 0 /\ (Dead(c) => c.born < c.died))
    OBVIOUS
  <2>1. ~Locking(s)
    BY DEF Locking
  <2> DEFINE a == Least(Ahead(s))
             c == ver[a]
  <2>2. a \in Addr /\ at'[s] = Shown(s, a) /\ Shown(s, a) \in Addr
    BY <2>1, Handing DEF Ahead
  <2>3. ReadCommitted(s, c) /\ at'[s] = a
    <3>1. Shown(s, a) = IF ReadCommitted(s, c) THEN a ELSE NoAddr
      BY DEF Shown
    <3>2. NoAddr \notin Addr
      BY ConstantsAssumption DEF NoAddr
    <3> QED BY <2>2, <3>1, <3>2
  <2>4. Sound(c, clock) /\ c \in Control /\ SnapshotTime(s) \in Nat
    BY <2>2 DEF BlocksSound, TypeInv, StoreType, TxnType, SnapshotTime
  <2> HIDE DEF a
  <2>5. CASE Mine(s, c)
    BY <2>3, <2>5
  <2>6. CASE AliveAt(c, SnapshotTime(s))
    <3>1. c.off \in RowState /\ c.born \in Nat /\ c.died \in Nat
      BY <2>4 DEF Control
    <3>2. c.born # 0
      BY <2>4, <2>6, <3>1 DEF AliveAt, Sound, RowState, Dead
    <3>3. Dead(c) => c.born < c.died
      BY <2>4, <2>6, <3>1, <3>2 DEF AliveAt, Sound
    <3> QED BY <2>3, <3>2, <3>3
  <2> QED BY <2>3, <2>5, <2>6 DEF ReadCommitted
<1> QED BY <1>1, AllBlocksSound, PTL DEF Spec, NothingUnborn

-----------------------------------------------------------------------------
(* What a step does to a session                                           *)

\* the transaction, the statement and the wait of u, as they were
Still(u) ==
    /\ id'[u] = id[u] /\ open'[u] = open[u] /\ init'[u] = init[u] /\ qtime'[u] = qtime[u]
    /\ qid'[u] = qid[u] /\ level'[u] = level[u] /\ ctx'[u] = ctx[u]
    /\ pos'[u] = pos[u] /\ nstmt'[u] = nstmt[u] /\ got'[u] = got[u] /\ due'[u] = due[u]
    /\ pc'[u] = pc[u] /\ op'[u] = op[u] /\ at'[u] = at[u] /\ new'[u] = new[u]

\* A step of one session moves no other, but for the rows and the registry they share.
LEMMA OthersStay ==
    ASSUME TypeInv, NEW s \in Session, NEW u \in Session, u # s, Step(s)
    PROVE  Still(u) /\ seen'[u] = seen[u]
<1> DEFINE TxnStill == /\ id'[u] = id[u] /\ open'[u] = open[u] /\ init'[u] = init[u]
                       /\ qtime'[u] = qtime[u] /\ qid'[u] = qid[u] /\ level'[u] = level[u]
           ScanStill == /\ pos'[u] = pos[u] /\ nstmt'[u] = nstmt[u]
                        /\ got'[u] = got[u] /\ due'[u] = due[u]
           WorkStill == op'[u] = op[u] /\ at'[u] = at[u] /\ new'[u] = new[u] /\ seen'[u] = seen[u]
<1>1. /\ id \in [Session -> Nat] /\ open \in [Session -> BOOLEAN] /\ init \in [Session -> Nat]
      /\ qtime \in [Session -> Nat] /\ qid \in [Session -> Int] /\ level \in [Session -> Level]
      /\ pos \in [Session -> Nat] /\ nstmt \in [Session -> Nat]
      /\ got \in [Session -> SUBSET Addr] /\ due \in [Session -> SUBSET Addr]
      /\ op \in [Session -> {"read", "update", "delete"}] /\ at \in [Session -> Nat]
      /\ new \in [Session -> Nat] /\ seen \in [Session -> Control]
      /\ ctx \in [Session -> SUBSET [at : Nat, addr : Addr]] /\ pc \in [Session -> PC]
  BY DEF TypeInv, StoreType, TxnType, ScanType, WorkType
<1>2. UNCHANGED txnVars => TxnStill
  BY DEF txnVars
<1>3. UNCHANGED scanVars => ScanStill
  BY DEF scanVars
<1>4. UNCHANGED workVars => WorkStill
  BY DEF workVars
<1>5. OpenTransaction(s) => TxnStill
  BY <1>1 DEF OpenTransaction, Reset
<1>6. StageNeedsTransaction(s) => TxnStill
  BY <1>2, <1>5 DEF StageNeedsTransaction
<1>7. CheckOver(s) => op'[u] = op[u] /\ new'[u] = new[u] /\ seen'[u] = seen[u]
  BY <1>1 DEF CheckOver
<1>8. StmtOver(s) => TxnStill /\ ScanStill /\ at'[u] = at[u] /\ pc'[u] = pc[u]
  BY <1>1 DEF StmtOver
<1>9. ASSUME NEW a, NEW v, Deliver(s, a, v)
      PROVE  pos'[u] = pos[u] /\ at'[u] = at[u] /\ got'[u] = got[u] /\ pc'[u] = pc[u]
  BY <1>1, <1>9 DEF Deliver
<1>10. ASSUME NEW rows, Push(s, rows) PROVE ctx'[u] = ctx[u]
  BY <1>1, <1>10 DEF Push
<1> HIDE DEF TxnStill, ScanStill, WorkStill
<1>11. TxnStill /\ ScanStill /\ WorkStill /\ ctx'[u] = ctx[u] /\ pc'[u] = pc[u]
         => Still(u) /\ seen'[u] = seen[u]
  BY DEF Still, TxnStill, ScanStill, WorkStill
<1>12. CASE Begin(s)
  <2>1. Continue(s) => TxnStill
    BY <1>1 DEF Continue, Reset, TxnStill
  <2> QED BY <1>3, <1>4, <1>5, <1>11, <1>12, <2>1 DEF Begin
<1>13. CASE \E l \in Level : SetLevel(s, l)
  <2>1. TxnStill
    BY <1>1, <1>13 DEF SetLevel, TxnStill
  <2> QED BY <1>3, <1>4, <1>11, <1>13, <2>1 DEF SetLevel
<1>14. CASE Commit(s) \/ Rollback(s) \/ End(s) \/ Abandon(s)
  <2>1. TxnStill
    BY <1>1, <1>14 DEF Commit, Rollback, End, Abandon, Reset, TxnStill
  <2>2. ctx'[u] = ctx[u] /\ pc'[u] = pc[u]
    BY <1>1, <1>14 DEF Commit, Rollback, End, Abandon
  <2> QED BY <1>3, <1>4, <1>11, <1>14, <2>1, <2>2 DEF Commit, Rollback, End, Abandon
<1>15. CASE StmtBegin(s)
  <2>1. TxnStill
    BY <1>1, <1>15 DEF StmtBegin, TxnStill
  <2>2. ScanStill /\ pc'[u] = pc[u]
    BY <1>1, <1>15 DEF StmtBegin, ScanStill
  <2> QED BY <1>4, <1>11, <1>15, <2>1, <2>2 DEF StmtBegin
<1>16. CASE ReadNext(s)
  <2>1. ScanStill
    BY <1>9, <1>16 DEF ReadNext, ScanStill
  <2> QED BY <1>2, <1>9, <1>11, <1>16, <2>1 DEF ReadNext, WorkStill
<1>17. CASE StampNext(s)
  <2>1. ScanStill
    BY <1>9, <1>17 DEF StampNext, ScanStill
  <2> QED BY <1>6, <1>9, <1>10, <1>11, <1>17, <2>1 DEF StampNext, WorkStill
<1>18. CASE CheckNext(s)
  <2>1. ScanStill /\ WorkStill /\ pc'[u] = pc[u]
    BY <1>1, <1>18 DEF CheckNext, ScanStill, WorkStill
  <2> QED BY <1>6, <1>11, <1>18, <2>1 DEF CheckNext
<1>19. CASE ScanEnd(s) \/ CallbackStop(s)
  <2>1. StmtOver(s) /\ UNCHANGED <<ctx, op, new, seen>>
    BY <1>19 DEF ScanEnd, CallbackStop
  <2> QED BY <1>8, <1>11, <2>1 DEF WorkStill
<1>20. CASE CallbackReturn(s) \/ Truncate(s)
  BY <1>1, <1>2, <1>3, <1>4, <1>11, <1>20 DEF CallbackReturn, Truncate
<1>21. CASE Insert(s)
  BY <1>3, <1>4, <1>6, <1>10, <1>11, <1>21 DEF Insert
<1>22. CASE UpdateStart(s) \/ DeleteStart(s)
  <2>1. WorkStill /\ pc'[u] = pc[u]
    BY <1>1, <1>22 DEF UpdateStart, DeleteStart, WorkStill
  <2> QED BY <1>3, <1>6, <1>10, <1>11, <1>22, <2>1 DEF UpdateStart, DeleteStart
<1>23. CASE ReadGranted(s)
  <2>1. ScanStill
    BY <1>9, <1>23 DEF ReadGranted, ScanStill
  <2> QED BY <1>2, <1>7, <1>9, <1>11, <1>23, <2>1 DEF ReadGranted, WorkStill
<1>24. CASE ReadSkipped(s) \/ UpdateGranted(s) \/ DeleteGranted(s) \/ WriteRefused(s)
  <2>1. pc'[u] = pc[u]
    BY <1>1, <1>24 DEF ReadSkipped, UpdateGranted, DeleteGranted, WriteRefused
  <2> QED BY <1>2, <1>3, <1>7, <1>11, <1>24, <2>1
          DEF ReadSkipped, UpdateGranted, DeleteGranted, WriteRefused, WorkStill
<1>25. CASE Restart(s)
  <2>1. TxnStill
    BY <1>1, <1>25 DEF Restart, TxnStill
  <2>2. ScanStill /\ ctx'[u] = ctx[u] /\ pc'[u] = pc[u]
    BY <1>1, <1>25 DEF Restart, ScanStill
  <2> QED BY <1>7, <1>11, <1>25, <2>1, <2>2 DEF Restart, WorkStill
<1>26. CASE Reload(s) \/ BreakStale(s)
  <2>1. WorkStill
    BY <1>1, <1>26 DEF Reload, BreakStale, WorkStill
  <2> QED BY <1>2, <1>3, <1>11, <1>26, <2>1 DEF Reload, BreakStale
<1>27. CASE GiveUp(s)
  BY <1>7, <1>8, <1>11, <1>27 DEF GiveUp, WorkStill
<1> QED BY <1>12, <1>13, <1>14, <1>15, <1>16, <1>17, <1>18, <1>19, <1>20, <1>21, <1>22, <1>23, <1>24,
           <1>25, <1>26, <1>27 DEF Step, CheckMoves

-----------------------------------------------------------------------------
(* A layer above that begins first                                         *)

Busy == {"scan", "callback", "check"}

\* a statement runs in an open transaction, with its instant and its number
Underway(s) ==
    /\ pc[s] \in Busy => open[s] /\ qtime[s] \in 1 .. clock /\ qid[s] = -nstmt[s]
    /\ pc[s] = "ready" => qtime[s] = 0

Begun == clock # 0 /\ \A s \in Session : Underway(s)

\* Then no stage opens a transaction.
LEMMA StagesFindOpen ==
    ASSUME BeginsFirst, TypeInv, Begun, NEW s \in Session
    PROVE  /\ MayStage(s) => open[s]
           /\ pc[s] \in Busy => open[s]
           /\ open[s] /\ StageNeedsTransaction(s) => UNCHANGED txnVars
BY DEF MayStage, Begun, Underway, StageNeedsTransaction

LEMMA BegunStep ==
    ASSUME BeginsFirst, TypeInv, TypeInv', Begun, [Next]_vars
    PROVE  Begun'
<1>1. clock \in Nat /\ clock' \in Nat /\ clock <= clock'
  BY ClockSteps DEF TypeInv, StoreType
<1>2. clock # 0 /\ \A s \in Session : Underway(s)
  BY DEF Begun
<1>3. ASSUME NEW u \in Session, Still(u) PROVE Underway(u)'
  <2>1. qtime[u] \in Nat
    BY DEF TypeInv, TxnType
  <2> QED BY <1>1, <1>2, <1>3, <2>1 DEF Underway, Still
<1>4. ASSUME NEW s \in Session, Step(s) PROVE Underway(s)'
  <2>1. /\ id \in [Session -> Nat] /\ open \in [Session -> BOOLEAN]
        /\ qtime \in [Session -> Nat] /\ qid \in [Session -> Int] /\ level \in [Session -> Level]
        /\ nstmt \in [Session -> Nat] /\ pc \in [Session -> PC]
    BY DEF TypeInv, StoreType, TxnType, ScanType
  <2>2. Underway(s) /\ clock # 0 /\ qtime[s] \in Nat /\ nstmt[s] \in Nat
    BY <1>2, <2>1
  <2>3. ASSUME pc'[s] \in Busy, pc[s] \in Busy, nstmt' = nstmt, UNCHANGED txnVars PROVE Underway(s)'
    BY <1>1, <2>2, <2>3 DEF Underway, txnVars, Busy
  <2>4. ASSUME pc'[s] = pc[s], nstmt' = nstmt, UNCHANGED txnVars PROVE Underway(s)'
    BY <1>1, <2>2, <2>4 DEF Underway, txnVars
  <2>5. StmtOver(s) => Underway(s)' \/ pc[s] \notin Busy
    BY <2>1, <2>2 DEF StmtOver, Underway, Busy
  <2>6. CASE Begin(s)
    BY <2>1, <2>6 DEF Begin, Continue, OpenTransaction, Reset, Underway, Busy
  <2>7. CASE \E l \in Level : SetLevel(s, l)
    BY <2>1, <2>2, <2>7, StagesFindOpen DEF SetLevel, Underway, Busy
  <2>8. CASE Commit(s) \/ Rollback(s) \/ Abandon(s)
    BY <2>1, <2>8 DEF Commit, Rollback, Abandon, Underway, Busy
  <2>9. CASE End(s)
    BY <2>1, <2>9 DEF End, Reset, Underway, Busy
  <2>10. CASE StmtBegin(s)
    <3>1. open'[s] /\ qtime'[s] = clock /\ qid'[s] = -nstmt'[s] /\ pc'[s] = "scan" /\ clock' = clock
      BY <2>1, <2>10, StagesFindOpen DEF StmtBegin
    <3> QED BY <1>1, <1>2, <3>1 DEF Underway
  <2>11. CASE ReadNext(s) \/ CallbackReturn(s)
    <3>1. pc'[s] \in Busy /\ pc[s] \in Busy /\ nstmt' = nstmt /\ UNCHANGED txnVars
      BY <2>1, <2>11 DEF ReadNext, CallbackReturn, Deliver, Busy, scanVars
    <3> QED BY <2>3, <3>1
  <2>12. CASE StampNext(s) \/ CheckNext(s) \/ UpdateStart(s) \/ DeleteStart(s)
    <3>1. /\ pc'[s] \in Busy /\ pc[s] \in Busy /\ nstmt' = nstmt
          /\ StageNeedsTransaction(s)
      BY <2>1, <2>12 DEF StampNext, CheckNext, UpdateStart, DeleteStart, Handed, Deliver, Busy, scanVars
    <3> QED BY <2>3, <3>1, StagesFindOpen
  <2>13. CASE Insert(s)
    <3>1. pc'[s] = pc[s] /\ nstmt' = nstmt /\ StageNeedsTransaction(s) /\ MayStage(s)
      BY <2>13 DEF Insert, scanVars
    <3> QED BY <2>4, <3>1, StagesFindOpen
  <2>14. CASE Truncate(s) \/ Reload(s) \/ BreakStale(s)
    <3>1. pc'[s] = pc[s] /\ nstmt' = nstmt /\ UNCHANGED txnVars
      BY <2>14 DEF Truncate, Reload, BreakStale, scanVars
    <3> QED BY <2>4, <3>1
  <2>15. CASE ScanEnd(s) \/ CallbackStop(s) \/ GiveUp(s)
    <3>1. StmtOver(s) /\ pc[s] \in Busy
      BY <2>15 DEF ScanEnd, CallbackStop, GiveUp, Waiting, Busy
    <3> QED BY <2>5, <3>1
  <2>16. CASE ReadGranted(s) \/ ReadSkipped(s) \/ UpdateGranted(s) \/ DeleteGranted(s) \/ WriteRefused(s)
    <3>1. pc'[s] \in Busy /\ pc[s] \in Busy /\ nstmt' = nstmt /\ UNCHANGED txnVars
      BY <2>1, <2>16 DEF ReadGranted, ReadSkipped, UpdateGranted, DeleteGranted, WriteRefused, Answered,
                         Deliver, Busy, scanVars
    <3> QED BY <2>3, <3>1
  <2>17. CASE Restart(s)
    <3>1. /\ open' = open /\ qtime'[s] = qtime[s] /\ qid'[s] = -nstmt[s] /\ nstmt' = nstmt
          /\ pc[s] = "check" /\ pc'[s] = "scan"
      <4>1. qtime[s] # 0
        BY <2>2, <2>17 DEF Restart, Answered, Underway, Busy
      <4> QED BY <2>1, <2>17, <4>1 DEF Restart, Answered
    <3> QED BY <1>1, <2>2, <3>1 DEF Underway, Busy
  <2> QED BY <1>4, <2>6, <2>7, <2>8, <2>9, <2>10, <2>11, <2>12, <2>13, <2>14, <2>15, <2>16, <2>17
          DEF Step, CheckMoves
<1>5. CASE UNCHANGED vars
  BY <1>2, <1>5 DEF vars, txnVars, scanVars, Begun, Underway
<1>6. CASE \E s \in Session : Step(s)
  <2>1. PICK s \in Session : Step(s)
    BY <1>6
  <2>2. \A u \in Session : Underway(u)'
    BY <1>3, <1>4, <2>1, OthersStay
  <2> QED BY <1>1, <1>2, <2>2 DEF Begun
<1> QED BY <1>5, <1>6 DEF Next, Done

LEMMA AlwaysBegun ==
    ASSUME BeginsFirst
    PROVE  Spec => [](TypeInv /\ Begun)
<1>1. Init => Begun
  BY DEF Init, Begun, Underway, Busy
<1>2. TypeInv /\ TypeInv' /\ Begun /\ [Next]_vars => Begun'
  BY BegunStep
<1> QED BY <1>1, <1>2, TypeInvInit, TypeInvStep, PTL DEF Spec

-----------------------------------------------------------------------------
(* The SNAPSHOT walk                                                       *)

\* the references lead from newer versions to older ones, and nowhere in a circle
Ranked ==
    \E n \in Nat : \E f \in [Addr -> 0 .. n] :
        \A a \in Addr : ver[a].ref # NoAddr => ver[a].ref \in Addr /\ f[ver[a].ref] < f[a]

\* one look of the walk w at the version a
WalkStep(s, w, a) ==
    LET c == ver[a] IN
    IF OwnWork(s, c) THEN IF c.on = "inserted" THEN a ELSE NoAddr
    ELSE IF c.off = "none" THEN NoAddr
    ELSE IF InSnapshot(s, c) THEN a
    ELSE IF c.ref \in Addr THEN w[c.ref] ELSE NoAddr

\* The walk is what its definition says, for the references end.
LEMMA WalkIsDefined ==
    ASSUME TypeInv, Ranked, NEW s \in Session
    PROVE  SnapshotWalk(s) = [a \in Addr |-> WalkStep(s, SnapshotWalk(s), a)]
<1>0. PICK n \in Nat : \E f \in [Addr -> 0 .. n] :
        \A a \in Addr : ver[a].ref # NoAddr => ver[a].ref \in Addr /\ f[ver[a].ref] < f[a]
  BY DEF Ranked
<1>1. PICK f \in [Addr -> 0 .. n] :
        \A a \in Addr : ver[a].ref # NoAddr => ver[a].ref \in Addr /\ f[ver[a].ref] < f[a]
  BY <1>0
<1>2. NoAddr \notin Addr
  BY ConstantsAssumption DEF NoAddr
<1> DEFINE Right(w, k) == \A a \in Addr : f[a] < k => w[a] = WalkStep(s, w, a)
           K == {k \in Nat : \E w : Right(w, k)}
<1>3. \A a \in Addr : f[a] \in Nat /\ f[a] < n + 1 /\ ~(f[a] < 0)
  BY <1>1
<1>4. 0 \in K
  BY <1>3
<1>5. ASSUME NEW k \in K PROVE k + 1 \in K
  <2>1. PICK w : Right(w, k)
    OBVIOUS
  <2> DEFINE w1 == [a \in Addr |-> WalkStep(s, w, a)]
  <2>2. ASSUME NEW a \in Addr, f[a] < k + 1 PROVE w1[a] = WalkStep(s, w1, a)
    <3>1. CASE ver[a].ref \in Addr
      <4>1. f[ver[a].ref] < k
        BY <1>1, <1>2, <1>3, <2>2, <3>1
      <4>2. w[ver[a].ref] = w1[ver[a].ref]
        BY <2>1, <3>1, <4>1
      <4> QED BY <4>2 DEF WalkStep
    <3>2. CASE ver[a].ref \notin Addr
      BY <3>2 DEF WalkStep
    <3> QED BY <3>1, <3>2
  <2>3. Right(w1, k + 1)
    BY <2>2
  <2> HIDE DEF Right
  <2> QED BY <2>3
<1> HIDE DEF Right, K
<1>6. n + 1 \in K
  <2> DEFINE L == Nat \ K
  <2>1. SUFFICES ASSUME n + 1 \notin K PROVE FALSE
    OBVIOUS
  <2>2. L \subseteq Nat /\ L # {}
    BY <2>1
  <2> DEFINE m == Least(L)
  <2>3. m \in L /\ \A y \in L : m <= y
    BY <2>2, LeastIsMember
  <2> HIDE DEF m
  <2>4. m \in Nat /\ m # 0
    BY <1>4, <2>3
  <2>5. m - 1 \in Nat /\ ~(m <= m - 1) /\ (m - 1) + 1 = m
    BY <2>4
  <2>6. m - 1 \in K
    BY <2>3, <2>5
  <2> QED BY <1>5, <2>3, <2>5, <2>6
<1>7. PICK w : Right(w, n + 1)
  BY <1>6 DEF K
<1> DEFINE w1 == [a \in Addr |-> w[a]]
<1>8. ASSUME NEW a \in Addr PROVE w1[a] = WalkStep(s, w1, a)
  <2>1. w[a] = WalkStep(s, w, a)
    BY <1>3, <1>7 DEF Right
  <2>2. CASE ver[a].ref \in Addr
    BY <2>1, <2>2 DEF WalkStep
  <2>3. CASE ver[a].ref \notin Addr
    BY <2>1, <2>3 DEF WalkStep
  <2> QED BY <2>2, <2>3
<1>9. w1 = [a \in Addr |-> WalkStep(s, w1, a)]
  BY <1>8
<1>10. SnapshotWalk(s) = CHOOSE walk : walk = [a \in Addr |-> WalkStep(s, walk, a)]
  BY DEF SnapshotWalk, WalkStep
<1> HIDE DEF w1
<1> QED BY <1>9, <1>10

\* the walk of s may end at the version b: its own insert, or one of its snapshot
Ends(s, b) ==
    \/ OwnWork(s, ver[b]) /\ ver[b].on = "inserted"
    \/ ver[b].off # "none" /\ InSnapshot(s, ver[b])

\* And where it ends at a version, the version is one of these.
LEMMA WalkEndsWell ==
    ASSUME TypeInv, Ranked, NEW s \in Session, NEW a \in Addr, SnapshotWalk(s)[a] \in Addr
    PROVE  Ends(s, SnapshotWalk(s)[a])
<1>0. PICK n \in Nat : \E f \in [Addr -> 0 .. n] :
        \A b \in Addr : ver[b].ref # NoAddr => ver[b].ref \in Addr /\ f[ver[b].ref] < f[b]
  BY DEF Ranked
<1>1. PICK f \in [Addr -> 0 .. n] :
        \A b \in Addr : ver[b].ref # NoAddr => ver[b].ref \in Addr /\ f[ver[b].ref] < f[b]
  BY <1>0
<1>2. NoAddr \notin Addr /\ Addr \subseteq Nat
  BY ConstantsAssumption DEF NoAddr
<1> DEFINE W == SnapshotWalk(s)
           Bad(b) == W[b] \in Addr /\ ~Ends(s, W[b])
           K == {f[b] : b \in {c \in Addr : Bad(c)}}
<1>3. \A b \in Addr : W[b] = WalkStep(s, W, b)
  <2>1. W = [b \in Addr |-> WalkStep(s, W, b)]
    BY WalkIsDefined
  <2> HIDE DEF W
  <2> QED BY <2>1
<1> HIDE DEF W
<1>4. SUFFICES ASSUME Bad(a) PROVE FALSE
  BY DEF W
<1>5. K \subseteq Nat /\ K # {}
  <2>1. \A b \in Addr : f[b] \in Nat
    BY <1>1
  <2> QED BY <1>4, <2>1
<1> DEFINE m == Least(K)
<1>6. m \in K /\ \A y \in K : m <= y
  BY <1>5, LeastIsMember
<1> HIDE DEF m
<1>7. PICK b \in Addr : Bad(b) /\ m = f[b]
  BY <1>6
<1>8. W[b] = WalkStep(s, W, b) /\ W[b] \in Addr /\ ~Ends(s, W[b])
  BY <1>3, <1>7
<1>9. ver[b].ref \in Addr /\ W[b] = W[ver[b].ref]
  BY <1>2, <1>8 DEF WalkStep, Ends
<1>10. Bad(ver[b].ref)
  BY <1>8, <1>9
<1>11. f[ver[b].ref] \in K /\ f[ver[b].ref] < f[b]
  BY <1>1, <1>2, <1>9, <1>10
<1>12. f[b] \in Nat /\ f[ver[b].ref] \in Nat
  BY <1>1, <1>9
<1>13. m <= f[ver[b].ref]
  BY <1>6, <1>11
<1> HIDE DEF K, Bad
<1> QED BY <1>7, <1>11, <1>12, <1>13

-----------------------------------------------------------------------------
(* Transactions, rows and versions, where nothing is truncated             *)

\* ids are handed out once
Ids ==
    /\ \A s \in Session : id[s] <= serial /\ (open[s] => id[s] # 0)
    /\ \A s, u \in Session : s # u /\ id[s] = id[u] => id[s] = 0

\* A step begins the session's next transaction, or leaves it the one it has.
LEMMA Beginning ==
    ASSUME TypeInv, NEW s \in Session, Step(s)
    PROVE  \/ serial' = serial + 1 /\ id'[s] = serial + 1
           \/ serial' = serial /\ id'[s] = id[s] /\ (open'[s] => open[s])
<1>1. id \in [Session -> Nat] /\ open \in [Session -> BOOLEAN]
  BY DEF TypeInv, TxnType
<1> DEFINE Begins == serial' = serial + 1 /\ id'[s] = serial + 1
           Keeps  == serial' = serial /\ id'[s] = id[s] /\ (open'[s] => open[s])
<1>2. OpenTransaction(s) => Begins
  BY <1>1 DEF OpenTransaction
<1>3. UNCHANGED txnVars => Keeps
  BY DEF txnVars
<1>4. StageNeedsTransaction(s) => Begins \/ Keeps
  BY <1>2, <1>3 DEF StageNeedsTransaction
<1>5. StmtOver(s) => Keeps
  BY DEF StmtOver
<1>13. Continue(s) => Keeps
  BY DEF Continue
<1>6. CASE Begin(s) \/ Insert(s) \/ StampNext(s) \/ CheckNext(s) \/ UpdateStart(s) \/ DeleteStart(s)
  BY <1>2, <1>4, <1>6, <1>13 DEF Begin, Insert, StampNext, CheckNext, UpdateStart, DeleteStart
<1>7. CASE Commit(s) \/ Rollback(s) \/ End(s) \/ Abandon(s) \/ (\E l \in Level : SetLevel(s, l))
           \/ StmtBegin(s)
  BY <1>1, <1>7 DEF Commit, Rollback, End, Abandon, SetLevel, StmtBegin
<1>8. CASE ScanEnd(s) \/ CallbackStop(s) \/ GiveUp(s)
  BY <1>5, <1>8 DEF ScanEnd, CallbackStop, GiveUp
<1>9. CASE ReadNext(s) \/ CallbackReturn(s) \/ Reload(s) \/ Truncate(s) \/ ReadGranted(s)
           \/ ReadSkipped(s) \/ UpdateGranted(s) \/ DeleteGranted(s) \/ WriteRefused(s) \/ BreakStale(s)
  BY <1>3, <1>9 DEF ReadNext, CallbackReturn, Reload, Truncate, ReadGranted, ReadSkipped,
       UpdateGranted, DeleteGranted, WriteRefused, BreakStale
<1>10. CASE Restart(s)
  BY <1>10 DEF Restart
<1> QED BY <1>6, <1>7, <1>8, <1>9, <1>10 DEF Step, CheckMoves

LEMMA IdsStep ==
    ASSUME TypeInv, TypeInv', Ids, [Next]_vars
    PROVE  Ids'
<1>1. id \in [Session -> Nat] /\ serial \in Nat
  BY DEF TypeInv, TxnType
<1>2. CASE UNCHANGED vars
  BY <1>2 DEF vars, txnVars, Ids
<1>3. ASSUME NEW s \in Session, Step(s) PROVE Ids'
  <2>1. \/ serial' = serial + 1 /\ id'[s] = serial + 1
        \/ serial' = serial /\ id'[s] = id[s] /\ (open'[s] => open[s])
    BY <1>3, Beginning
  <2>2. \A u \in Session : u # s => id'[u] = id[u] /\ open'[u] = open[u]
    BY <1>3, OthersStay DEF Still
  <2>3. \A u \in Session : id[u] \in Nat /\ id[u] <= serial /\ (open[u] => id[u] # 0)
    BY <1>1 DEF Ids
  <2>4. CASE serial' = serial + 1 /\ id'[s] = serial + 1
    <3>1. \A u \in Session : u # s => id'[u] # id'[s]
      BY <1>1, <2>2, <2>3, <2>4
    <3>2. \A u \in Session : id'[u] <= serial' /\ (open'[u] => id'[u] # 0)
      BY <1>1, <2>2, <2>3, <2>4
    <3> QED BY <2>2, <3>1, <3>2 DEF Ids
  <2>5. CASE serial' = serial /\ id'[s] = id[s] /\ (open'[s] => open[s])
    BY <2>2, <2>5 DEF Ids
  <2> QED BY <2>1, <2>4, <2>5
<1> QED BY <1>2, <1>3 DEF Next, Done

\* the versions that hold a row
Written == {a \in Addr : ver[a].row # 0}

\* what an update is about to write: an address allocated, and by this update alone
Allotted(s) ==
    /\ new[s] \in used \ Written
    /\ \A u \in Session : u # s /\ pc[u] = "check" /\ op[u] = "update" => new[u] # new[s]

\* a version is in the table, an address without one is blank, references lead to
\* versions, and so does every cursor
Kept ==
    /\ Written \subseteq used
    /\ \A a \in Addr \ Written : ver[a] = Blank
    /\ \A a \in Addr : ver[a].ref # NoAddr => ver[a].ref \in Written
    /\ \A s \in Session :
        /\ pc[s] \in {"callback", "check"} => at[s] \in Written
        /\ pc[s] = "check" => seen[s].ref = ver[at[s]].ref
        /\ pc[s] = "check" /\ op[s] = "update" => Allotted(s)

History == LockInv /\ Ids /\ Kept /\ Ranked

\* A version keeps its row and its predecessor; an address is written by an insert
\* or by the end of an update.
LEMMA VersionsStay ==
    ASSUME TypeInv, LockInv, Ids, Kept, Truncators = {}, NEW s \in Session, Step(s),
           NEW a \in Addr, ver'[a] # ver[a]
    PROVE  \/ a \in Written /\ ver'[a].row = ver[a].row /\ ver'[a].ref = ver[a].ref
           \/ a \notin Written /\ (Adds(s, a) \/ Replaces(s, a))
<1>1. ver \in [Addr -> Control] /\ id \in [Session -> Nat] /\ clock \in Nat
  BY DEF TypeInv, StoreType, TxnType
<1>2. a \notin Written => ver[a] = Blank
  BY DEF Kept
<1>3. CASE Settles(s, a)
  <2> DEFINE f == FlippedBy(s, clock + 1)[a]
  <2>1. f = ver[a] \/ f = Flip(ver[a], clock + 1)
    BY DEF FlippedBy
  <2>2. clock + 1 \in Nat /\ ver[a] \in Control
    BY <1>1
  <2>3. f \in Control
    BY <2>1, <2>2, SettlingTypes
  <2>4. ver'[a] = f \/ (SettledSuperseded(f) /\ \E q \in Int : ver'[a] = [f EXCEPT !.qid = q])
    BY <1>3 DEF Settles
  <2>5. f.row = ver[a].row /\ f.ref = ver[a].ref
    BY <2>1, <2>2, FlipFields
  <2>6. ver[a] = Blank => f = Blank
    BY <2>1, <2>2, BlankStays
  <2> HIDE DEF f
  <2>7. ver'[a].row = ver[a].row /\ ver'[a].ref = ver[a].ref
    BY <2>3, <2>4, <2>5 DEF Control
  <2>8. ~SettledSuperseded(Blank)
    BY DEF SettledSuperseded, Blank
  <2>9. a \in Written
    BY <1>2, <2>4, <2>6, <2>8
  <2> QED BY <2>7, <2>9
<1>4. CASE Undoes(s, a)
  <2>1. ver'[a].row = ver[a].row /\ ver'[a].ref = ver[a].ref
    BY <1>1, <1>4 DEF Undoes, RolledBack, Unstaged, Staged, Control
  <2>2. CASE BreakStale(s) /\ a = at[s]
    BY <2>1, <2>2 DEF BreakStale, Waiting, Kept
  <2>3. CASE (Rollback(s) \/ Restart(s)) /\ ver[a].txn = id[s]
    <3>1. open[s]
      BY <2>3 DEF Rollback, Restart, Answered, LockInv, PushedFirst
    <3>2. ver[a].txn # 0
      BY <2>3, <3>1 DEF Ids
    <3> QED BY <1>2, <2>1, <3>2 DEF Blank
  <2> QED BY <1>4, <2>2, <2>3 DEF Undoes
<1>5. CASE Marks(s, a)
  <2>1. ver'[a].row = ver[a].row /\ ver'[a].ref = ver[a].ref
    BY <1>1, <1>5 DEF Marks, Staged, Control
  <2>2. a = Least(Ahead(s)) /\ Ahead(s) # {}
    BY <1>1, <1>5 DEF Marks, StampNext
  <2>3. Ahead(s) \subseteq Nat
    BY ConstantsAssumption DEF Ahead, Judged, TypeInv, StoreType
  <2>4. a \in Judged(s)
    BY <2>2, <2>3, LeastIsMember DEF Ahead
  <2>5. ver[a].off # "none" \/ ver[a].on # "none"
    BY <2>4 DEF Judged
  <2> QED BY <1>2, <2>1, <2>5 DEF Blank
<1>6. CASE Adds(s, a)
  BY <1>6 DEF Adds, Kept
<1>7. CASE Takes(s, a)
  <2>1. pc[s] = "check" /\ a = at[s]
    BY <1>7 DEF Takes, UpdateGranted, DeleteGranted, Answered
  <2>2. a \in Written /\ seen[s].ref = ver[a].ref
    BY <2>1 DEF Kept
  <2>3. PICK state \in {"updated", "deleted"} : ver'[a] = Restage(s, state)
    BY <1>7 DEF Takes
  <2>4. seen[s] \in Control
    BY DEF TypeInv, WorkType
  <2> QED BY <2>1, <2>2, <2>3, <2>4 DEF Restage, Staged, Control
<1>8. CASE Replaces(s, a)
  <2>1. pc[s] = "check" /\ op[s] = "update" /\ a = new[s]
    BY <1>8 DEF Replaces, UpdateGranted, Answered
  <2> QED BY <1>8, <2>1 DEF Kept, Allotted
<1>9. ~Frees(s, a)
  BY DEF Frees, Truncate
<1> QED BY <1>3, <1>4, <1>5, <1>6, <1>7, <1>8, <1>9, RowStep DEF Changes

\* An update that waits has its address from before, or has just been given one.
LEMMA NewSteps ==
    ASSUME TypeInv, NEW s \in Session, Step(s), pc'[s] = "check", op'[s] = "update"
    PROVE  \/ pc[s] = "check" /\ op[s] = "update" /\ new'[s] = new[s] /\ (Reload(s) \/ BreakStale(s))
           \/ UpdateStart(s) /\ new'[s] \in used' \ used
<1>1. /\ pc \in [Session -> PC] /\ op \in [Session -> {"read", "update", "delete"}]
      /\ new \in [Session -> Nat]
  BY DEF TypeInv, StoreType, WorkType
<1>2. CASE Begin(s) \/ Commit(s) \/ Rollback(s) \/ End(s) \/ Abandon(s) \/ (\E l \in Level : SetLevel(s, l))
           \/ StmtBegin(s) \/ ScanEnd(s) \/ CallbackReturn(s) \/ CallbackStop(s) \/ Insert(s) \/ Truncate(s)
  BY <1>1, <1>2 DEF Begin, Commit, Rollback, End, Abandon, SetLevel, StmtBegin, ScanEnd, CallbackReturn,
                    CallbackStop, Insert, Truncate, StmtOver
<1>3. CASE ReadNext(s) \/ StampNext(s) \/ CheckNext(s) \/ DeleteStart(s)
  BY <1>1, <1>3 DEF ReadNext, StampNext, CheckNext, DeleteStart, Deliver
<1>4. CASE ReadGranted(s) \/ ReadSkipped(s) \/ Restart(s) \/ UpdateGranted(s) \/ DeleteGranted(s)
           \/ WriteRefused(s) \/ GiveUp(s)
  BY <1>1, <1>4 DEF ReadGranted, ReadSkipped, Restart, UpdateGranted, DeleteGranted, WriteRefused,
                    GiveUp, Deliver, StmtOver
<1>5. CASE Reload(s) \/ BreakStale(s)
  BY <1>1, <1>5 DEF Reload, BreakStale
<1>6. CASE UpdateStart(s)
  BY <1>1, <1>6 DEF UpdateStart
<1> QED BY <1>2, <1>3, <1>4, <1>5, <1>6 DEF Step, CheckMoves

\* A walk stops at versions.
LEMMA WalkStopsAtVersions ==
    ASSUME TypeInv, Kept, Ranked, NEW s \in Session, Ahead(s) # {}
    PROVE  /\ Least(Ahead(s)) \in Written /\ Least(Ahead(s)) \in Ahead(s)
           /\ ~Locking(s) => Shown(s, Least(Ahead(s))) \in Written
<1> DEFINE a == Least(Ahead(s))
<1>1. Ahead(s) \subseteq Nat /\ Ahead(s) \subseteq Addr
  BY ConstantsAssumption DEF Ahead, Judged, TypeInv, StoreType
<1>2. a \in Ahead(s) /\ a \in Addr
  BY <1>1, LeastIsMember
<1> HIDE DEF a
<1>3. \A b \in Addr : ver[b].off # "none" \/ ver[b].on # "none" \/ ver[b].txn # 0 => b \in Written
  BY DEF Kept, Blank
<1>4. a \in Written
  BY <1>2, <1>3 DEF Ahead, Judged
<1>5. ASSUME ~Locking(s) PROVE Shown(s, a) \in Written
  <2>1. Shown(s, a) \in Addr
    BY <1>2, <1>5 DEF Ahead
  <2>2. CASE level[s] \in {"RU", "RC"}
    <3>1. Shown(s, a) \in {a, NoAddr} /\ NoAddr \notin Addr
      BY <2>2, ConstantsAssumption DEF Shown, NoAddr
    <3> QED BY <1>4, <2>1, <3>1
  <2>3. CASE level[s] \notin {"RU", "RC"}
    <3>1. Shown(s, a) = SnapshotWalk(s)[a]
      BY <2>3 DEF Shown
    <3>2. Ends(s, Shown(s, a))
      BY <1>2, <2>1, <3>1, WalkEndsWell
    <3> QED BY <1>3, <2>1, <3>2 DEF Ends
  <2> QED BY <2>2, <2>3
<1> QED BY <1>2, <1>4, <1>5 DEF a

\* The cursor of s, as Kept has it.
Cursor(s) ==
    /\ pc[s] \in {"callback", "check"} => at[s] \in Written
    /\ pc[s] = "check" => seen[s].ref = ver[at[s]].ref
    /\ pc[s] = "check" /\ op[s] = "update" => Allotted(s)

LEMMA KeptStep ==
    ASSUME TypeInv, TypeInv', History, Truncators = {}, NEW s \in Session, Step(s)
    PROVE  Kept'
<1> USE DEF History
<1>1. /\ ver \in [Addr -> Control] /\ at \in [Session -> Nat] /\ seen \in [Session -> Control]
      /\ pc \in [Session -> PC] /\ op \in [Session -> {"read", "update", "delete"}]
      /\ new \in [Session -> Nat] /\ ver' \in [Addr -> Control] /\ used \subseteq Addr
  BY DEF TypeInv, StoreType, WorkType
<1>2. ASSUME NEW a \in Written PROVE a \in Written' /\ ver'[a].row = ver[a].row /\ ver'[a].ref = ver[a].ref
  <2>1. a \in Addr /\ ver[a].row # 0
    BY DEF Written
  <2>2. ver'[a].row = ver[a].row /\ ver'[a].ref = ver[a].ref
    BY <2>1, VersionsStay
  <2> QED BY <2>1, <2>2 DEF Written
<1>3. used \subseteq used'
  BY DEF Step, Begin, Commit, Rollback, End, Abandon, SetLevel, StmtBegin, ReadNext, StampNext, CheckNext,
         ScanEnd, CallbackReturn, CallbackStop, Insert, UpdateStart, DeleteStart, CheckMoves, ReadGranted,
         ReadSkipped, Restart, UpdateGranted, DeleteGranted, WriteRefused, BreakStale, GiveUp, Reload,
         Truncate
<1>4. ASSUME NEW a \in Addr \ Written
      PROVE  \/ ver'[a] = ver[a] /\ a \notin Written'
             \/ Adds(s, a) /\ a \in Written' \cap used' /\ ver'[a].ref = NoAddr
             \/ Replaces(s, a) /\ a \in Written' \cap used' /\ ver'[a].ref = at[s] /\ at[s] \in Written
  <2>1. CASE ver'[a] = ver[a]
    BY <2>1 DEF Written
  <2>2. CASE Adds(s, a)
    <3>1. Unnamed(s) # {} /\ Unnamed(s) \subseteq Claims[s]
      BY <2>2 DEF Adds, Insert, Unnamed
    <3>2. Claims[s] \subseteq Nat \ {0}
      BY ConstantsAssumption
    <3>3. Least(Unnamed(s)) \in Nat \ {0}
      BY <3>1, <3>2, LeastIsMember
    <3> QED BY <2>2, <3>3, InsertFields DEF Adds, Written
  <2>3. CASE Replaces(s, a)
    <3>1. pc[s] = "check" /\ op[s] = "update" /\ a = new[s]
      BY <2>3 DEF Replaces, UpdateGranted, Answered
    <3>2. at[s] \in Written /\ new[s] \in used
      BY <3>1 DEF Kept, Allotted
    <3> QED BY <1>3, <2>3, <3>1, <3>2, InsertFields DEF Replaces, Written
  <2> QED BY <2>1, <2>2, <2>3, VersionsStay
<1>5. Written' \subseteq used'
  BY <1>3, <1>4 DEF Kept, Written
<1>6. ASSUME NEW a \in Addr, a \notin Written' PROVE ver'[a] = Blank
  <2>1. a \in Addr \ Written
    BY <1>2, <1>6
  <2> QED BY <1>4, <1>6, <2>1 DEF Kept
<1>7. ASSUME NEW a \in Addr, ver'[a].ref # NoAddr PROVE ver'[a].ref \in Written'
  <2>1. CASE a \in Written
    BY <1>2, <1>7, <2>1 DEF Kept
  <2>2. CASE a \notin Written
    <3>1. ver'[a].ref = at[s] /\ at[s] \in Written
      BY <1>4, <1>7, <2>2 DEF Kept, Blank
    <3> QED BY <1>2, <3>1
  <2> QED BY <2>1, <2>2
<1>8. ASSUME NEW u \in Session, u # s PROVE Cursor(u)'
  <2>1. Still(u) /\ seen'[u] = seen[u] /\ Cursor(u)
    BY <1>8, OthersStay DEF Kept, Cursor
  <2>2. pc'[u] \in {"callback", "check"} => at'[u] \in Written'
    BY <1>2, <2>1 DEF Still, Cursor
  <2>3. pc'[u] = "check" => seen'[u].ref = ver'[at'[u]].ref
    BY <1>2, <2>1 DEF Still, Cursor
  <2>4. ASSUME pc'[u] = "check", op'[u] = "update" PROVE Allotted(u)'
    <3>1. pc[u] = "check" /\ op[u] = "update" /\ new'[u] = new[u] /\ Allotted(u)
      BY <2>1, <2>4 DEF Still, Cursor
    <3>2. new[u] \in Addr \ Written /\ new[u] \in used
      BY <1>1, <3>1 DEF Allotted
    <3>3. ~Adds(s, new[u])
      BY <3>2 DEF Adds
    <3>4. ~Replaces(s, new[u])
      BY <1>8, <3>1 DEF Replaces, UpdateGranted, Answered, Allotted
    <3>5. new[u] \notin Written'
      BY <1>4, <3>2, <3>3, <3>4
    <3>6. ASSUME NEW v \in Session, v # u, pc'[v] = "check", op'[v] = "update" PROVE new'[v] # new'[u]
      <4>1. CASE v # s
        <5>1. Still(v)
          BY <4>1, OthersStay
        <5> QED BY <3>1, <3>6, <5>1 DEF Still, Allotted
      <4>2. CASE v = s
        BY <3>1, <3>2, <3>6, <4>2, NewSteps DEF Allotted
      <4> QED BY <4>1, <4>2
    <3> QED BY <1>3, <3>1, <3>2, <3>5, <3>6 DEF Allotted
  <2> QED BY <2>2, <2>3, <2>4 DEF Cursor
<1>9. Cursor(s)'
  <2>1. Cursor(s)
    BY DEF Kept, Cursor
  <2>2. pc'[s] \in {"callback", "check"} =>
          /\ at'[s] \in Written
          /\ pc'[s] = "check" => seen'[s] = ver'[at'[s]] \/ (seen'[s] = seen[s] /\ pc[s] = "check" /\ at'[s] = at[s])
    <3>1. CASE Begin(s) \/ Commit(s) \/ Rollback(s) \/ End(s) \/ Abandon(s) \/ (\E l \in Level : SetLevel(s, l))
               \/ StmtBegin(s) \/ ScanEnd(s) \/ CallbackReturn(s) \/ CallbackStop(s) \/ ReadSkipped(s)
               \/ Restart(s) \/ GiveUp(s)
      <4>1. pc'[s] \notin {"callback", "check"}
        BY <1>1, <3>1 DEF Begin, Commit, Rollback, End, Abandon, SetLevel, StmtBegin, ScanEnd,
             CallbackReturn, CallbackStop, ReadSkipped, Restart, GiveUp, StmtOver
      <4> QED BY <4>1
    <3>2. CASE Insert(s)
      BY <2>1, <3>2 DEF Insert, workVars, Cursor
    <3>3. CASE ReadNext(s)
      <4>1. at'[s] = Shown(s, Least(Ahead(s))) /\ pc'[s] = "callback" /\ ~Locking(s) /\ Ahead(s) # {}
        BY <1>1, <3>3 DEF ReadNext, Deliver
      <4> QED BY <4>1, WalkStopsAtVersions
    <3>4. CASE StampNext(s)
      <4>1. at'[s] = Least(Ahead(s)) /\ pc'[s] = "callback" /\ Ahead(s) # {}
        BY <1>1, <3>4 DEF StampNext, Deliver
      <4> QED BY <4>1, WalkStopsAtVersions
    <3>5. CASE CheckNext(s)
      <4>1. at'[s] = Least(Ahead(s)) /\ Ahead(s) # {} /\ ver' = ver /\ seen'[s] = ver[Least(Ahead(s))]
        BY <1>1, <3>5 DEF CheckNext
      <4> QED BY <4>1, WalkStopsAtVersions
    <3>6. CASE UpdateStart(s) \/ DeleteStart(s) \/ Reload(s)
      <4>1. at' = at /\ ver' = ver /\ seen'[s] = ver[at[s]] /\ pc[s] \in {"callback", "check"}
        BY <1>1, <3>6 DEF UpdateStart, DeleteStart, Reload, Handed, Waiting
      <4> QED BY <2>1, <4>1 DEF Cursor
    <3>7. CASE ReadGranted(s) \/ UpdateGranted(s) \/ DeleteGranted(s) \/ WriteRefused(s)
      <4>1. at'[s] = at[s] /\ pc'[s] = "callback" /\ pc[s] = "check"
        BY <1>1, <3>7 DEF ReadGranted, UpdateGranted, DeleteGranted, WriteRefused, Answered, Deliver
      <4> QED BY <2>1, <4>1 DEF Cursor
    <3>8. CASE BreakStale(s)
      <4>1. at' = at /\ pc[s] = "check"
        BY <3>8 DEF BreakStale, Waiting
      <4>2. at[s] \in Addr /\ at[s] \in Written
        BY <2>1, <4>1 DEF Cursor, Written
      <4>3. seen'[s] = ver'[at[s]]
        BY <1>1, <3>8, <4>2 DEF BreakStale
      <4> QED BY <4>1, <4>2, <4>3
    <3> QED BY <3>1, <3>2, <3>3, <3>4, <3>5, <3>6, <3>7, <3>8 DEF Step, CheckMoves, Truncate
  <2>3. pc'[s] \in {"callback", "check"} => at'[s] \in Written'
    BY <1>2, <2>2
  <2>4. pc'[s] = "check" => seen'[s].ref = ver'[at'[s]].ref
    BY <1>2, <2>1, <2>2 DEF Cursor
  <2>5. ASSUME pc'[s] = "check", op'[s] = "update" PROVE Allotted(s)'
    <3>1. \A v \in Session : v # s => pc'[v] = pc[v] /\ op'[v] = op[v] /\ new'[v] = new[v]
      BY OthersStay DEF Still
    <3>2. CASE pc[s] = "check" /\ op[s] = "update" /\ new'[s] = new[s] /\ (Reload(s) \/ BreakStale(s))
      <4>1. Allotted(s) /\ new[s] \in Addr \ Written
        BY <1>1, <2>1, <3>2 DEF Cursor, Allotted
      <4>2. ~Adds(s, new[s]) /\ ~Replaces(s, new[s])
        BY <1>1, <2>5, <3>2 DEF Adds, Replaces, Insert, UpdateGranted
      <4>3. new[s] \notin Written'
        BY <1>4, <4>1, <4>2
      <4> QED BY <1>3, <3>1, <3>2, <4>1, <4>3 DEF Allotted
    <3>3. CASE UpdateStart(s) /\ new'[s] \in used' \ used
      <4>1. ver' = ver /\ Written' = Written
        BY <3>3 DEF UpdateStart, Written
      <4>2. \A v \in Session : v # s /\ pc[v] = "check" /\ op[v] = "update" => new[v] \in used
        BY DEF Kept, Allotted
      <4>3. new'[s] \notin Written'
        BY <3>3, <4>1 DEF Kept
      <4> QED BY <3>1, <3>3, <4>2, <4>3 DEF Allotted
    <3> QED BY <2>5, <3>2, <3>3, NewSteps
  <2> QED BY <2>3, <2>4, <2>5 DEF Cursor
<1> QED BY <1>5, <1>6, <1>7, <1>8, <1>9 DEF Kept, Cursor

LEMMA RankedStep ==
    ASSUME TypeInv, TypeInv', History, Truncators = {}, NEW s \in Session, Step(s)
    PROVE  Ranked'
<1> USE DEF History
<1>1. PICK n \in Nat : \E f \in [Addr -> 0 .. n] :
        \A a \in Addr : ver[a].ref # NoAddr => ver[a].ref \in Addr /\ f[ver[a].ref] < f[a]
  BY DEF Ranked
<1>2. PICK f \in [Addr -> 0 .. n] :
        \A a \in Addr : ver[a].ref # NoAddr => ver[a].ref \in Addr /\ f[ver[a].ref] < f[a]
  BY <1>1
<1>3. Written \subseteq Addr /\ \A a \in Addr \ Written : ver[a].ref = NoAddr
  BY DEF Written, Kept, Blank
<1>4. CASE \E x \in Addr : ver'[x] # ver[x] /\ Replaces(s, x)
  <2>1. PICK x \in Addr : ver'[x] # ver[x] /\ Replaces(s, x)
    BY <1>4
  <2>2. UpdateGranted(s) /\ x = new[s] /\ ver'[x].ref = at[s]
    BY <2>1, InsertFields DEF Replaces
  <2>3. at[s] \in Written /\ x \notin Written
    BY <2>2 DEF UpdateGranted, Answered, Kept, Allotted
  <2> DEFINE g == [f EXCEPT ![x] = f[at[s]] + 1]
  <2>4. g \in [Addr -> 0 .. n + 1] /\ n + 1 \in Nat
    BY <1>1, <1>2, <1>3, <2>3
  <2>5. ASSUME NEW a \in Addr, ver'[a].ref # NoAddr
        PROVE  ver'[a].ref \in Addr /\ g[ver'[a].ref] < g[a]
    <3>1. CASE a = x
      <4>1. at[s] \in Addr /\ at[s] # x /\ g[at[s]] = f[at[s]] /\ g[a] = f[at[s]] + 1 /\ f[at[s]] \in Int
        BY <1>2, <1>3, <2>3, <3>1
      <4> QED BY <2>2, <3>1, <4>1
    <3>2. CASE a # x
      <4>1. ~Adds(s, a) /\ ~Replaces(s, a)
        BY <2>2, <3>2 DEF Adds, Replaces, Insert, UpdateGranted, Answered
      <4>2. ver'[a].ref = ver[a].ref
        BY <4>1, VersionsStay
      <4>3. ver[a].ref \in Written /\ ver[a].ref # x
        BY <2>3, <2>5, <4>2 DEF Kept
      <4> QED BY <1>2, <1>3, <2>5, <3>2, <4>2, <4>3
    <3> QED BY <3>1, <3>2
  <2> HIDE DEF g
  <2>6. \E h \in [Addr -> 0 .. n + 1] :
          \A a \in Addr : ver'[a].ref # NoAddr => ver'[a].ref \in Addr /\ h[ver'[a].ref] < h[a]
    BY <2>4, <2>5
  <2> QED BY <2>4, <2>6 DEF Ranked
<1>5. CASE ~\E x \in Addr : ver'[x] # ver[x] /\ Replaces(s, x)
  <2>1. \A a \in Addr : ver'[a].ref = ver[a].ref \/ ver'[a].ref = NoAddr
    <3>1. TAKE a \in Addr
    <3>2. CASE ver'[a] = ver[a]
      BY <3>2
    <3>3. CASE ver'[a] # ver[a]
      BY <1>5, <3>3, VersionsStay, InsertFields DEF Adds
    <3> QED BY <3>2, <3>3
  <2>2. \A a \in Addr : ver'[a].ref # NoAddr => ver'[a].ref \in Addr /\ f[ver'[a].ref] < f[a]
    BY <1>2, <2>1
  <2> QED BY <1>1, <1>2, <2>2 DEF Ranked
<1> QED BY <1>4, <1>5

LEMMA HistoryInit == Init => History
<1> SUFFICES ASSUME Init PROVE History
  OBVIOUS
<1>1. InitRows \subseteq Addr /\ Addr \subseteq Nat \ {0}
  BY ConstantsAssumption
<1>2. \A a \in Addr : ver[a] = IF a \in InitRows THEN Committed(a) ELSE Blank
  BY DEF Init
<1>3. /\ Blank.ref = NoAddr /\ Blank.row = 0 /\ Blank.lock = "none"
      /\ \A a : Committed(a).ref = NoAddr /\ Committed(a).row = a /\ Committed(a).lock = "none"
  BY DEF Blank, Committed
<1>4. \A a \in Addr : ver[a].ref = NoAddr /\ ver[a].lock = "none"
                      /\ (a \notin InitRows => ver[a] = Blank) /\ (ver[a].row # 0 => a \in InitRows)
  BY <1>2, <1>3
<1>5. LockInv
  BY <1>4 DEF Init, LockInv, LocksHaveOwners, PushedFirst
<1>6. Ids
  BY DEF Init, Ids
<1>7. Kept
  <2>1. used = InitRows /\ \A s \in Session : pc[s] = "ready"
    BY DEF Init
  <2>2. \A a \in Addr : ver[a].row = 0 => ver[a] = Blank
    BY <1>1, <1>2, <1>3
  <2> QED BY <1>4, <2>1, <2>2 DEF Kept, Written
<1>8. Ranked
  <2>1. [a \in Addr |-> 0] \in [Addr -> 0 .. 0] /\ 0 \in Nat
    OBVIOUS
  <2> QED BY <1>4, <2>1 DEF Ranked
<1> QED BY <1>5, <1>6, <1>7, <1>8 DEF History

LEMMA HistoryStep ==
    ASSUME Truncators = {}, TypeInv, TypeInv', History, [Next]_vars
    PROVE  History'
<1>1. LockInv' /\ Ids'
  BY LockInvStep, IdsStep DEF History
<1>2. CASE UNCHANGED vars
  <2>1. UNCHANGED <<ver, used, pc, op, at, new, seen>>
    BY <1>2 DEF vars, workVars
  <2>2. Written' = Written
    BY <2>1 DEF Written
  <2>3. Kept'
    BY <2>1, <2>2 DEF History, Kept, Allotted
  <2>4. Ranked'
    BY <2>1 DEF History, Ranked
  <2> QED BY <1>1, <2>3, <2>4 DEF History
<1>3. ASSUME NEW s \in Session, Step(s) PROVE History'
  BY <1>1, <1>3, KeptStep, RankedStep DEF History
<1> QED BY <1>2, <1>3 DEF Next, Done

LEMMA AlwaysHistory ==
    ASSUME Truncators = {}
    PROVE  Spec => [](TypeInv /\ History)
<1>1. TypeInv /\ TypeInv' /\ History /\ [Next]_vars => History'
  BY HistoryStep
<1> QED BY <1>1, HistoryInit, TypeInvInit, TypeInvStep, PTL DEF Spec

\* A reader that waits for nobody never shows the staged work of others, nor work
\* committed after its instant (query_time, at SNAPSHOT init_time); where nothing is
\* truncated, for a freed address written again may lead the walk in a circle.
THEOREM NothingComesFromTheFuture ==
    ASSUME BeginsFirst, Truncators = {}
    PROVE  Spec => NothingFromTheFuture
<1>1. ASSUME TypeInv, BlocksSound, Begun, History, [Next]_vars,
             NEW s \in Session, Reads(s), level[s] \in {"RC", "SI"}
      PROVE  LET c == ver[at'[s]] IN
             Mine(s, c) \/ (c.off # "none" /\ c.born <= IF level[s] = "SI" THEN init[s] ELSE qtime[s])
  <2>1. ~Locking(s)
    BY <1>1 DEF Locking
  <2> DEFINE a == Least(Ahead(s))
             v == at'[s]
             c == ver[v]
  <2>2. a \in Addr /\ at'[s] = Shown(s, a) /\ Shown(s, a) \in Addr
    BY <1>1, <2>1, Handing DEF Ahead
  <2>3. c \in Control /\ Sound(c, clock) /\ init[s] \in Nat /\ qtime[s] \in Nat /\ id[s] \in Nat
    BY <1>1, <2>2 DEF BlocksSound, TypeInv, StoreType, TxnType
  <2>4. c.born \in Nat /\ c.txn \in Nat
    BY <2>3 DEF Control
  <2> HIDE DEF a
  <2>5. CASE level[s] = "SI"
    <3>1. v = SnapshotWalk(s)[a]
      BY <2>2, <2>5 DEF Shown
    <3>2. Ends(s, v)
      BY <1>1, <2>2, <3>1, WalkEndsWell DEF History
    <3>3. OwnWork(s, c) => Mine(s, c)
      BY <2>3, <2>4 DEF OwnWork, Mine, Sound
    <3> QED BY <2>5, <3>2, <3>3 DEF Ends, InSnapshot
  <2>6. CASE level[s] = "RC"
    <3>1. ReadCommitted(s, c)
      <4>1. Shown(s, a) = IF ReadCommitted(s, ver[a]) THEN a ELSE NoAddr
        BY <2>6 DEF Shown
      <4>2. NoAddr \notin Addr
        BY ConstantsAssumption DEF NoAddr
      <4> QED BY <2>2, <4>1, <4>2
    <3>2. pc[s] = "scan" /\ SnapshotTime(s) = qtime[s]
      BY <1>1 DEF Reads, Begun, Underway, Busy, SnapshotTime
    <3> HIDE DEF c
    <3>3. AliveAt(c, qtime[s]) => c.off # "none" /\ c.born <= qtime[s]
      BY <2>3, <2>4 DEF AliveAt
    <3> QED BY <2>6, <3>1, <3>2, <3>3 DEF ReadCommitted, c
  <2> QED BY <1>1, <2>5, <2>6
<1>2. TypeInv /\ BlocksSound /\ Begun /\ History /\ [Next]_vars =>
        \A s \in Session : Reads(s) /\ level[s] \in {"RC", "SI"} =>
          LET c == ver[at'[s]] IN
          Mine(s, c) \/ (c.off # "none" /\ c.born <= IF level[s] = "SI" THEN init[s] ELSE qtime[s])
  BY <1>1
<1> QED BY <1>2, AllBlocksSound, AlwaysBegun, AlwaysHistory, PTL DEF Spec, NothingFromTheFuture

-----------------------------------------------------------------------------
(* Where check_lock decides on the row as it is                            *)

\* in a step where a writer or the breaker acts, the copy check_lock loaded before
\* it gave the guard back (mvccs-lib.cicili:2337-2338) is still the row
Fresh ==
    \A s \in Session :
        UpdateGranted(s) \/ DeleteGranted(s) \/ BreakStale(s) => seen[s] = ver[at[s]]

\* what the table does not hold is blank, and so is what an update was allocated and
\* has yet to write; nobody else was allocated it
Allocated(s) ==
    pc[s] = "check" /\ op[s] = "update" =>
        /\ new[s] \in used /\ ver[new[s]] = Blank
        /\ \A u \in Session : u # s /\ pc[u] = "check" /\ op[u] = "update" => new[u] # new[s]

Clean ==
    /\ \A a \in Addr \ used : ver[a] = Blank
    /\ \A a \in Addr : ver[a].on \in {"updated", "deleted"} => ver[a].lock = "exclusive"
    /\ \A s \in Session : Allocated(s)

\* A commit and an undo leave no lock on what they change.
LEMMA SettlingUnlocks ==
    ASSUME TypeInv, NEW s \in Session, NEW a \in Addr, ver'[a] # ver[a],
           Settles(s, a) \/ Undoes(s, a)
    PROVE  ver'[a].lock = "none" /\ ver'[a].on = "none" /\ (ver'[a].txn = 0 \/ Settles(s, a))
<1>1. ver[a] \in Control /\ clock + 1 \in Nat
  BY DEF TypeInv, StoreType
<1>2. CASE Settles(s, a)
  <2> DEFINE f == FlippedBy(s, clock + 1)[a]
  <2>1. f = ver[a] \/ f = Flip(ver[a], clock + 1)
    BY DEF FlippedBy
  <2>2. ver'[a] = f \/ (SettledSuperseded(f) /\ \E q \in Int : ver'[a] = [f EXCEPT !.qid = q])
    BY <1>2 DEF Settles
  <2>3. f \in Control
    BY <1>1, <2>1, SettlingTypes
  <2>4. CASE f = Flip(ver[a], clock + 1)
    <3>1. f.lock = "none" /\ f.on = "none"
      BY <1>1, <2>4, FlipFields
    <3> HIDE DEF f
    <3> QED BY <1>2, <2>2, <2>3, <3>1 DEF Control
  <2>5. CASE f = ver[a]
    <3> HIDE DEF f
    <3> QED BY <1>2, <2>2, <2>3, <2>5 DEF Control, SettledSuperseded
  <2> QED BY <2>1, <2>4, <2>5
<1>3. CASE Undoes(s, a)
  BY <1>1, <1>3, RolledBackFields DEF Undoes
<1> QED BY <1>2, <1>3

\* What a write that is granted leaves: the copy, staged.
LEMMA TakenFields ==
    ASSUME TypeInv, NEW s \in Session, NEW a \in Addr, Takes(s, a)
    PROVE  /\ ver'[a].off = seen[s].off /\ ver'[a].lock = "exclusive" /\ ver'[a].txn = id[s]
           /\ ver'[a].on \in {"updated", "deleted"} /\ ver'[a].row = ver[at[s]].row
<1>1. PICK state \in {"updated", "deleted"} : ver'[a] = Restage(s, state)
  BY DEF Takes
<1> DEFINE d == Staged(seen[s], state, "exclusive", id[s], qid[s])
<1>2. /\ seen[s] \in Control /\ id[s] \in Nat /\ qid[s] \in Int
      /\ state \in RowState /\ "exclusive" \in RowLock
  BY DEF RowState, RowLock, TypeInv, TxnType, WorkType
<1>3. d \in Control /\ d.txn = id[s] /\ d.off = seen[s].off /\ d.lock = "exclusive" /\ d.on = state
  BY <1>2, StagingTypes, StagedFields
<1>4. ver'[a] = [d EXCEPT !.row = ver[at[s]].row]
  BY <1>1 DEF Restage
<1> HIDE DEF d
<1> QED BY <1>3, <1>4 DEF Control

\* Only an insert and the end of an update write what is blank.
LEMMA BlankSteps ==
    ASSUME TypeInv, LockInv, Ids, Fresh, NEW s \in Session, Step(s),
           NEW a \in Addr, ver[a] = Blank, ver'[a] # ver[a]
    PROVE  Adds(s, a) \/ Replaces(s, a)
<1>1. ver \in [Addr -> Control] /\ clock + 1 \in Nat
  BY DEF TypeInv, StoreType
<1>2. ~Settles(s, a)
  <2>1. FlippedBy(s, clock + 1)[a] = Blank
    BY <1>1, BlankStays DEF FlippedBy
  <2>2. ~SettledSuperseded(Blank)
    BY DEF SettledSuperseded, Blank
  <2> QED BY <2>1, <2>2 DEF Settles
<1>3. ~Undoes(s, a)
  <2>1. ASSUME BreakStale(s), a = at[s] PROVE FALSE
    <3>1. seen[s] = Blank /\ Blocked(s)
      BY <2>1 DEF Fresh, BreakStale, Waiting
    <3> QED BY <3>1 DEF Blocked, Mask, Blank
  <2>2. ASSUME Rollback(s) \/ Restart(s), ver[a].txn = id[s] PROVE FALSE
    <3>1. open[s]
      BY <2>2 DEF Rollback, Restart, Answered, LockInv, PushedFirst
    <3> QED BY <2>2, <3>1 DEF Ids, Blank
  <2> QED BY <2>1, <2>2 DEF Undoes
<1>4. ~Marks(s, a)
  <2> SUFFICES ASSUME Marks(s, a) PROVE FALSE
    OBVIOUS
  <2>1. a = Least(Ahead(s)) /\ Ahead(s) # {}
    BY <1>1 DEF Marks, StampNext
  <2>2. Ahead(s) \subseteq Nat
    BY ConstantsAssumption DEF Ahead, Judged, TypeInv, StoreType
  <2>3. a \in Judged(s)
    BY <2>1, <2>2, LeastIsMember DEF Ahead
  <2> QED BY <2>3 DEF Judged, Blank
<1>5. ~Takes(s, a)
  <2> SUFFICES ASSUME Takes(s, a) PROVE FALSE
    OBVIOUS
  <2>1. seen[s] = Blank /\ MayRead(s)
    BY DEF Takes, Fresh, UpdateGranted, DeleteGranted
  <2> QED BY <2>1 DEF MayRead, Blocked, Mask, Landed, Blank
<1>6. ~Frees(s, a)
  BY DEF Frees, DeadRows, Dead, Blank
<1> QED BY <1>2, <1>3, <1>4, <1>5, <1>6, RowStep DEF Changes

\* The table loses dead rows by TRUNCATE, and nothing otherwise.
LEMMA UsedSteps ==
    ASSUME NEW s \in Session, Step(s)
    PROVE  used \subseteq used' \/ (Truncate(s) /\ used' = used \ DeadRows)
BY DEF Step, Begin, Commit, Rollback, End, Abandon, SetLevel, StmtBegin, ReadNext, StampNext, CheckNext,
       ScanEnd, CallbackReturn, CallbackStop, Insert, UpdateStart, DeleteStart, CheckMoves, ReadGranted,
       ReadSkipped, Restart, UpdateGranted, DeleteGranted, WriteRefused, BreakStale, GiveUp, Reload,
       Truncate

LEMMA CleanStep ==
    ASSUME TypeInv, TypeInv', LockInv, Ids, Clean, [Next]_vars, [Fresh]_vars
    PROVE  Clean'
<1>1. CASE UNCHANGED vars
  BY <1>1 DEF vars, txnVars, scanVars, workVars, Clean, Allocated
<1>2. ASSUME NEW s \in Session, Step(s), ~UNCHANGED vars PROVE Clean'
  <2> USE <1>2
  <2>1. /\ ver \in [Addr -> Control] /\ ver' \in [Addr -> Control] /\ seen \in [Session -> Control]
        /\ used \subseteq Addr /\ new \in [Session -> Nat]
    BY DEF TypeInv, StoreType, WorkType
  <2>2. Fresh
    OBVIOUS
  <2>3. ASSUME NEW a \in Addr, a \notin used' PROVE ver'[a] = Blank
    <3>1. CASE a \in used
      <4>1. Truncate(s) /\ a \in DeadRows
        BY <2>3, <3>1, UsedSteps
      <4> QED BY <4>1 DEF Truncate
    <3>2. CASE a \notin used
      <4>1. ver[a] = Blank
        BY <3>2 DEF Clean
      <4>2. ~Adds(s, a)
        BY <2>3 DEF Adds
      <4>3. ~Replaces(s, a)
        BY <3>2 DEF Replaces, UpdateGranted, Answered, Clean, Allocated
      <4> QED BY <2>2, <4>1, <4>2, <4>3, BlankSteps
    <3> QED BY <3>1, <3>2
  <2>4. ASSUME NEW a \in Addr, ver'[a].on \in {"updated", "deleted"} PROVE ver'[a].lock = "exclusive"
    <3>1. CASE ver'[a] = ver[a]
      BY <2>4, <3>1 DEF Clean
    <3>2. CASE ver'[a] # ver[a]
      <4>1. ~(Settles(s, a) \/ Undoes(s, a))
        BY <2>4, <3>2, SettlingUnlocks
      <4>2. ~(Marks(s, a) \/ Adds(s, a) \/ Replaces(s, a) \/ Frees(s, a))
        BY <2>1, <2>4, StagedFields, InsertFields DEF Marks, Adds, Replaces, Frees, Blank
      <4>3. Takes(s, a)
        BY <3>2, <4>1, <4>2, RowStep DEF Changes
      <4> QED BY <2>1, <4>3, TakenFields
    <3> QED BY <3>1, <3>2
  <2>5. ASSUME NEW u \in Session, pc[u] = "check", op[u] = "update",
               ~Adds(s, new[u]), ~Replaces(s, new[u])
        PROVE  new[u] \in used' /\ ver'[new[u]] = Blank
    <3>1. new[u] \in used /\ new[u] \in Addr /\ ver[new[u]] = Blank
      BY <2>1, <2>5 DEF Clean, Allocated
    <3>2. new[u] \notin DeadRows
      BY <3>1 DEF DeadRows, Dead, Blank
    <3> QED BY <2>2, <2>5, <3>1, <3>2, UsedSteps, BlankSteps
  <2>6. ASSUME NEW u \in Session, pc'[u] = "check", op'[u] = "update"
        PROVE  \/ pc[u] = "check" /\ op[u] = "update" /\ new'[u] = new[u] /\ (u = s => ~UpdateGranted(s) /\ ~Insert(s))
               \/ u = s /\ UpdateStart(s) /\ new'[u] \in used' \ used
    <3>1. CASE u # s
      BY <2>6, <3>1, OthersStay DEF Still
    <3>2. CASE u = s
      BY <2>6, <3>2, NewSteps DEF Reload, BreakStale, Insert, Waiting, UpdateGranted, Answered
    <3> QED BY <3>1, <3>2
  <2>7. ASSUME NEW u \in Session PROVE Allocated(u)'
    <3> SUFFICES ASSUME pc'[u] = "check", op'[u] = "update"
                 PROVE  /\ new'[u] \in used' /\ ver'[new'[u]] = Blank
                        /\ \A v \in Session : v # u /\ pc'[v] = "check" /\ op'[v] = "update" => new'[v] # new'[u]
      BY DEF Allocated
    <3>1. ASSUME NEW v \in Session, NEW w \in Session, v # w, pc'[v] = "check", op'[v] = "update",
                 pc'[w] = "check", op'[w] = "update"
          PROVE  new'[v] # new'[w]
      <4>1. ASSUME NEW x \in Session, pc[x] = "check", op[x] = "update" PROVE new[x] \in used
        BY <4>1 DEF Clean, Allocated
      <4>2. pc[v] = "check" /\ op[v] = "update" /\ pc[w] = "check" /\ op[w] = "update" => new[v] # new[w]
        BY <3>1 DEF Clean, Allocated
      <4> QED BY <2>6, <3>1, <4>1, <4>2
    <3>2. CASE u = s /\ UpdateStart(s) /\ new'[u] \in used' \ used
      <4>1. new'[u] \in Addr /\ ver' = ver
        BY <3>2 DEF UpdateStart, TypeInv, StoreType, WorkType
      <4> QED BY <3>1, <3>2, <4>1 DEF Clean
    <3>3. CASE pc[u] = "check" /\ op[u] = "update" /\ new'[u] = new[u] /\ (u = s => ~UpdateGranted(s) /\ ~Insert(s))
      <4>1. ~Adds(s, new[u])
        BY <3>3 DEF Adds, Clean, Allocated
      <4>2. ~Replaces(s, new[u])
        BY <3>3 DEF Replaces, UpdateGranted, Answered, Clean, Allocated
      <4> QED BY <2>5, <3>1, <3>3, <4>1, <4>2
    <3> QED BY <2>6, <3>2, <3>3
  <2> QED BY <2>3, <2>4, <2>7 DEF Clean
<1> QED BY <1>1, <1>2 DEF Next, Done

LEMMA AlwaysClean == Spec /\ [][Fresh]_vars => [](TypeInv /\ LockInv /\ Ids /\ Clean)
<1>1. Init => LockInv /\ Ids /\ Clean
  <2> SUFFICES ASSUME Init PROVE LockInv /\ Ids /\ Clean
    OBVIOUS
  <2>1. /\ Blank.lock = "none" /\ Blank.on = "none"
        /\ \A a : Committed(a).lock = "none" /\ Committed(a).on = "none"
    BY DEF Blank, Committed
  <2>2. \A a \in Addr : ver[a] = IF a \in InitRows THEN Committed(a) ELSE Blank
    BY DEF Init
  <2>3. \A a \in Addr : ver[a].lock = "none" /\ ver[a].on = "none"
    BY <2>1, <2>2
  <2>4. LockInv
    BY <2>3 DEF Init, LockInv, LocksHaveOwners, PushedFirst
  <2>5. Ids
    BY DEF Init, Ids
  <2>6. used = InitRows /\ \A s \in Session : pc[s] = "ready"
    BY DEF Init
  <2>7. Clean
    BY <2>2, <2>3, <2>6 DEF Clean, Allocated
  <2> QED BY <2>4, <2>5, <2>7
<1>2. TypeInv /\ TypeInv' /\ LockInv /\ Ids /\ [Next]_vars => LockInv' /\ Ids'
  BY LockInvStep, IdsStep
<1>3. TypeInv /\ TypeInv' /\ LockInv /\ Ids /\ Clean /\ [Next]_vars /\ [Fresh]_vars => Clean'
  BY CleanStep
<1> QED BY <1>1, <1>2, <1>3, TypeInvInit, TypeInvStep, PTL DEF Spec

\* "Only a stage this transaction still owns is its to flip": an exclusive stage
\* changes by a step of the transaction that made it, or by the breaker, whoever
\* writes which row at which level and whatever is truncated, as long as nobody
\* decides on a copy of a row that has changed since (Fresh): the wait with the guard
\* given back is the only way to lose a stage.
THEOREM StagedStaysAlone == Spec /\ [][Fresh]_vars => StagedIsLeftAlone
<1>1. ASSUME TypeInv, LockInv, Ids, Clean, Fresh, NEW s \in Session, Step(s),
             NEW a \in Addr, ver[a].lock = "exclusive", ver'[a] # ver[a]
      PROVE  id[s] = ver[a].txn \/ BreakStale(s)
  <2> USE <1>1
  <2>1. ver[a] # Blank /\ a \in used
    BY DEF Clean, Blank
  <2>2. CASE Settles(s, a)
    <3>1. FlippedBy(s, clock + 1)[a] # ver[a]
      BY <2>2 DEF Settles, SettledSuperseded
    <3> QED BY <3>1 DEF FlippedBy
  <2>3. CASE Undoes(s, a)
    BY <2>3 DEF Undoes
  <2>4. CASE Takes(s, a)
    <3>1. seen[s] = ver[a] /\ MayRead(s)
      BY <2>4 DEF Takes, Fresh, UpdateGranted, DeleteGranted
    <3> QED BY <3>1 DEF MayRead, Blocked, Mask, Own
  <2>5. ~Marks(s, a) /\ ~Frees(s, a) /\ ~Adds(s, a)
    BY <2>1 DEF Marks, Frees, DeadRows, Adds
  <2>6. ~Replaces(s, a)
    BY <2>1 DEF Replaces, UpdateGranted, Answered, Clean, Allocated
  <2> QED BY <2>2, <2>3, <2>4, <2>5, <2>6, RowStep DEF Changes
<1>2. TypeInv /\ LockInv /\ Ids /\ Clean /\ [Next]_vars /\ [Fresh]_vars =>
        \A a \in Addr : ver[a].lock = "exclusive" /\ ver'[a] # ver[a] =>
          \/ \E s \in Session : id[s] = ver[a].txn /\ Step(s)
          \/ \E s \in Session : BreakStale(s)
  <2> SUFFICES ASSUME TypeInv, LockInv, Ids, Clean, [Next]_vars, [Fresh]_vars,
                      NEW a \in Addr, ver[a].lock = "exclusive", ver'[a] # ver[a]
               PROVE  \/ \E s \in Session : id[s] = ver[a].txn /\ Step(s)
                      \/ \E s \in Session : BreakStale(s)
    OBVIOUS
  <2>1. (\E s \in Session : Step(s)) /\ Fresh
    BY DEF Next, Done, vars
  <2> QED BY <1>1, <2>1
<1> QED BY <1>2, AlwaysClean, PTL DEF Spec, StagedIsLeftAlone

\* What was committed stays until a commit that meant to replace or remove it: no
\* rollback, breaker, partial rollback, displacement of a shared stamp or TRUNCATE
\* takes a current version, whoever writes which row at which level, as long as nobody
\* decides on a copy of a row that has changed since.
THEOREM WhatIsCommittedStays == Spec /\ [][Fresh]_vars => CommittedStays
<1>1. ASSUME TypeInv, LockInv, Ids, Clean, Fresh, NEW s \in Session, Step(s),
             NEW a \in Current, a \notin Current'
      PROVE  Commit(s) /\ a \in Superseding(s)
  <2> USE <1>1
  <2>1. /\ a \in used /\ a \in Addr /\ ver[a].off = "inserted" /\ ver[a] \in Control /\ clock + 1 \in Nat
        /\ a \notin used' \/ ver'[a].off # "inserted"
    BY DEF Current, TypeInv, StoreType
  <2>2. a \notin DeadRows /\ ver[a] # Blank
    BY <2>1 DEF DeadRows, Dead, Blank
  <2>3. a \in used' /\ ver'[a].off # "inserted" /\ ver'[a] # ver[a]
    BY <2>1, <2>2, UsedSteps
  <2>4. CASE Settles(s, a)
    <3> DEFINE f == FlippedBy(s, clock + 1)[a]
    <3>1. ver'[a] = f \/ (SettledSuperseded(f) /\ \E q \in Int : ver'[a] = [f EXCEPT !.qid = q])
      BY <2>4 DEF Settles
    <3>2. f # ver[a]
      BY <2>1, <2>3, <3>1 DEF SettledSuperseded
    <3>3. ver[a].txn = id[s] /\ f = Flip(ver[a], clock + 1)
      BY <2>1, <3>2 DEF FlippedBy
    <3>4. f.off = IF ver[a].on = "none" THEN ver[a].off ELSE ver[a].on
      BY <2>1, <3>3, FlipFields
    <3>5. f.off # "inserted"
      <4> HIDE DEF f
      <4> QED BY <2>3, <3>1 DEF SettledSuperseded
    <3>6. ver[a].on \in {"updated", "deleted"}
      BY <2>1, <3>4, <3>5 DEF Control, RowState
    <3>7. ver[a].lock = "exclusive"
      BY <2>1, <3>6 DEF Clean
    <3> QED BY <2>1, <2>4, <3>3, <3>6, <3>7 DEF Settles, Superseding, Mine
  <2>5. ~Undoes(s, a)
    BY <2>1, <2>3, RolledBackFields DEF Undoes
  <2>6. ~Takes(s, a)
    <3> SUFFICES ASSUME Takes(s, a) PROVE FALSE
      OBVIOUS
    <3>1. seen[s] = ver[a]
      BY DEF Takes, Fresh
    <3>2. ver'[a].off = seen[s].off
      BY <2>1, TakenFields
    <3> QED BY <2>1, <2>3, <3>1, <3>2
  <2>7. ~Marks(s, a) /\ ~Frees(s, a) /\ ~Adds(s, a)
    BY <2>1, <2>2, <2>3, StagedFields DEF Marks, Frees, Adds
  <2>8. ~Replaces(s, a)
    BY <2>2 DEF Replaces, UpdateGranted, Answered, Clean, Allocated
  <2> QED BY <2>1, <2>3, <2>4, <2>5, <2>6, <2>7, <2>8, RowStep DEF Changes
<1>2. TypeInv /\ LockInv /\ Ids /\ Clean /\ [Next]_vars /\ [Fresh]_vars =>
        \A a \in Current : a \notin Current' => \E s \in Session : Commit(s) /\ a \in Superseding(s)
  <2> SUFFICES ASSUME TypeInv, LockInv, Ids, Clean, [Next]_vars, [Fresh]_vars,
                      NEW a \in Current, a \notin Current'
               PROVE  \E s \in Session : Commit(s) /\ a \in Superseding(s)
    OBVIOUS
  <2>1. ~UNCHANGED vars
    BY DEF vars, Current
  <2>2. (\E s \in Session : Step(s)) /\ Fresh
    BY <2>1 DEF Next, Done
  <2> QED BY <1>1, <2>2
<1> QED BY <1>2, AlwaysClean, PTL DEF Spec, CommittedStays

\* A lock's transaction has begun, and is no other session's.
LEMMA LockIds ==
    ASSUME TypeInv, LocksHaveOwners, Ids, NEW a \in Addr, ver[a].lock # "none"
    PROVE  ver[a].txn # 0 /\ ver[a].txn <= serial
<1>1. PICK v \in Session : open[v] /\ id[v] = ver[a].txn
  BY DEF LocksHaveOwners
<1> QED BY <1>1 DEF Ids

-----------------------------------------------------------------------------
(* Sessions that write apart                                               *)

ClaimsDisjoint == \A s, u \in Session : s # u => Claims[s] \cap Claims[u] = {}

MayBe(s) == {Default} \union Levels[s]

\* every row has one writer, nobody locks what he reads, and nobody writes what a
\* snapshot shows him
Apart ==
    /\ BeginsFirst /\ ClaimsDisjoint
    /\ \A s \in Session : {"RR", "SER"} \cap MayBe(s) = {}
    /\ \A s \in Session : "SI" \in MayBe(s) \cap WriteLevels => Claims[s] = {}

Base == TypeInv /\ LockInv /\ Ids /\ Begun /\ BlocksSound

\* a block is locked exactly while something is staged in it; nothing is staged over
\* what is dead; a block with neither lock nor history is blank
Shaped(c) ==
    /\ c.lock \in {"none", "exclusive"}
    /\ c.lock = "none" <=> c.on = "none"
    /\ c.lock = "none" => c.txn = 0
    /\ c.on = "inserted" => c.off = "none"
    /\ c.off = "none" => c.born = 0
    /\ c.lock = "exclusive" => c.off \in {"none", "inserted"} /\ c.row # 0
    /\ c.off = "inserted" => c.row # 0
    /\ c.lock = "none" /\ c.off = "none" => c = Blank

Shape == \A a \in Addr : Shaped(ver[a]) /\ (a \notin used => ver[a] = Blank)

\* one version of a row is current and one is coming; where one is coming or going,
\* the current one is going
OneOfEach ==
    \A a, b \in used : ver[a].row = ver[b].row /\ ver[a].row # 0 =>
        /\ ver[a].off = "inserted" /\ ver[b].off = "inserted" => a = b
        /\ ver[a].on = "inserted" /\ ver[b].on = "inserted" => a = b
        /\ ver[a].lock = "exclusive" /\ ver[b].off = "inserted" => ver[b].lock = "exclusive"

\* a version that is coming replaces one of its row that is going
Replaced ==
    \A a \in Addr : ver[a].on = "inserted" /\ ver[a].ref # NoAddr =>
        ver[a].ref \in used /\ ver[ver[a].ref].row = ver[a].row /\ ver[ver[a].ref].on = "updated"

\* who holds a row has a claim on it
Claimed ==
    \A a \in Addr : \A u \in Session :
        ver[a].lock = "exclusive" /\ id[u] = ver[a].txn => ver[a].row \in Claims[u]

Rows == Shape /\ OneOfEach /\ Replaced /\ Claimed

Held(a) == ver[a].off = "inserted" \/ ver[a].lock = "exclusive"

Levelled(s) == level[s] \in MayBe(s)

\* what is on a list is held by the transaction, blank, or about to be decided upon
Listed(s) ==
    \A a \in Touched(s) :
        /\ open[s] /\ a \in used
        /\ \/ ver[a].lock = "exclusive" /\ ver[a].txn = id[s]
           \/ ver[a] = Blank
           \/ pc[s] = "check" /\ a = at[s]

\* check_lock is entered to write a claimed row, and what it loaded is still so
Writing(s) ==
    pc[s] = "check" =>
        /\ op[s] # "read" /\ at[s] \in used /\ seen[s] = ver[at[s]]
        /\ ver[at[s]].row \in Claims[s] /\ level[s] \in WriteLevels
        /\ op[s] = "update" => new[s] \in used /\ ver[new[s]] = Blank

\* the row a session is handed and may write is current, or its own work
Handled(s) ==
    pc[s] \in {"callback", "check"} /\ level[s] \in WriteLevels /\ ver[at[s]].row \in Claims[s]
        => at[s] \in used /\ Held(at[s])

\* none of its rows dies while a session walks
Died(s) ==
    pc[s] \in Busy => \A a \in Addr :
        ver[a].row \in Claims[s] /\ Dead(ver[a]) => ver[a].died <= qtime[s]

InOrder(s) == Levelled(s) /\ Listed(s) /\ Writing(s) /\ Handled(s) /\ Died(s)

\* no address is on two lists
ListsApart == \A s, u \in Session : s # u => Touched(s) \cap Touched(u) = {}

Sessions == (\A s \in Session : InOrder(s)) /\ ListsApart

Owned(s, a) == ver[a].lock = "exclusive" /\ ver[a].txn = id[s]

\* A held row has one holder, who alone has a claim on it.
LEMMA Holder ==
    ASSUME Apart, Base, Claimed, NEW a \in Addr, ver[a].lock = "exclusive"
    PROVE  \E u \in Session :
             /\ open[u] /\ Owned(u, a) /\ a \in Touched(u) /\ ver[a].row \in Claims[u]
             /\ \A v \in Session : Owned(v, a) \/ ver[a].row \in Claims[v] => v = u
<1>1. PICK u \in Session : open[u] /\ id[u] = ver[a].txn /\ a \in Touched(u)
  BY DEF Base, LockInv, LocksHaveOwners
<1>2. ver[a].row \in Claims[u] /\ id[u] # 0
  BY <1>1 DEF Claimed, Base, Ids
<1>3. ASSUME NEW v \in Session, Owned(v, a) \/ ver[a].row \in Claims[v] PROVE v = u
  BY <1>1, <1>2, <1>3 DEF Owned, Base, Ids, Apart, ClaimsDisjoint
<1> QED BY <1>1, <1>2, <1>3 DEF Owned

\* A session holds what it has on its list, and no more.
LEMMA HeldIsListed ==
    ASSUME Apart, Base, Rows, Sessions, NEW s \in Session, NEW a \in Addr
    PROVE  /\ Owned(s, a) => a \in Touched(s) /\ a \in used /\ ver[a].row \in Claims[s] /\ open[s]
           /\ ver[a].lock = "exclusive" /\ ver[a].row \in Claims[s] => Owned(s, a)
           /\ open[s] /\ ver[a].txn = id[s] => Owned(s, a)
           /\ open[s] => id[s] # 0
           /\ pc[s] # "check" /\ a \in Touched(s) => Owned(s, a) \/ ver[a] = Blank
<1> USE DEF Rows, Sessions
<1>1. ASSUME Owned(s, a)
      PROVE  a \in Touched(s) /\ a \in used /\ ver[a].row \in Claims[s] /\ open[s]
  <2>1. PICK u \in Session : open[u] /\ a \in Touched(u) /\ ver[a].row \in Claims[u] /\ s = u
    BY <1>1, Holder DEF Owned
  <2> QED BY <2>1 DEF InOrder, Listed
<1>2. ASSUME ver[a].lock = "exclusive", ver[a].row \in Claims[s] PROVE Owned(s, a)
  BY <1>2, Holder
<1>3. open[s] => id[s] # 0
  BY DEF Base, Ids
<1>4. ASSUME open[s], ver[a].txn = id[s] PROVE Owned(s, a)
  BY <1>3, <1>4 DEF Owned, Shape, Shaped
<1>5. pc[s] # "check" /\ a \in Touched(s) => Owned(s, a) \/ ver[a] = Blank
  BY DEF InOrder, Listed, Owned
<1> QED BY <1>1, <1>2, <1>3, <1>4, <1>5

\* Then nobody waits, and check_lock is left with a granted or a refused write.
LEMMA NobodyWaits ==
    ASSUME Apart, Base, Rows, Sessions, NEW s \in Session
    PROVE  /\ ~Locking(s) /\ ~StampNext(s) /\ ~CheckNext(s)
           /\ ~ReadGranted(s) /\ ~ReadSkipped(s) /\ ~Restart(s)
           /\ ~Reload(s) /\ ~BreakStale(s) /\ ~GiveUp(s)
<1>1. ~Locking(s)
  BY DEF Locking, Sessions, InOrder, Levelled, Apart
<1>2. ~ReadGranted(s) /\ ~ReadSkipped(s) /\ ~Restart(s)
  BY DEF ReadGranted, ReadSkipped, Restart, Answered, Sessions, InOrder, Writing
<1>3. ~Waiting(s)
  <2> SUFFICES ASSUME pc[s] = "check", Blocked(s), ~Own(s) PROVE FALSE
    BY DEF Waiting
  <2>1. at[s] \in Addr /\ seen[s] = ver[at[s]] /\ ver[at[s]].row \in Claims[s] /\ op[s] # "read"
    BY DEF Sessions, InOrder, Writing, Base, TypeInv, Placed
  <2>2. ver[at[s]].lock = "exclusive"
    BY <2>1 DEF Blocked, Mask
  <2>3. Owned(s, at[s])
    BY <2>1, <2>2, HeldIsListed
  <2> QED BY <2>1, <2>3 DEF Own, Owned
<1> QED BY <1>1, <1>2, <1>3 DEF StampNext, CheckNext, Reload, BreakStale, GiveUp

\* A write is granted on a current row nobody holds, or on the session's own new
\* version; and refused on its own work alone.
LEMMA Answers ==
    ASSUME Apart, Base, Rows, Sessions, NEW s \in Session, Answered(s)
    PROVE  /\ at[s] \in Addr /\ at[s] \in used /\ ver[at[s]].row # 0 /\ ver[at[s]] = seen[s] /\ open[s]
           /\ ver[at[s]].row \in Claims[s] /\ pc[s] = "check" /\ op[s] # "read"
           /\ op[s] = "update" =>
                new[s] \in Addr /\ new[s] \in used /\ ver[new[s]] = Blank /\ new[s] # at[s]
           /\ MayRead(s) =>
                \/ ver[at[s]].on = "none" /\ ver[at[s]].lock = "none" /\ ver[at[s]].off = "inserted"
                \/ ver[at[s]].on = "inserted" /\ Owned(s, at[s]) /\ ver[at[s]].off = "none"
           /\ ~MayRead(s) => Owned(s, at[s])
<1> USE DEF Rows, Sessions
<1>1. /\ at[s] \in Addr /\ at[s] \in used /\ seen[s] = ver[at[s]] /\ ver[at[s]].row \in Claims[s]
      /\ pc[s] = "check" /\ op[s] # "read" /\ level[s] \in WriteLevels
  BY DEF Answered, InOrder, Writing, Base, TypeInv, Placed
<1>2. open[s]
  BY <1>1 DEF Base, LockInv, PushedFirst
<1>3. Held(at[s]) /\ Shaped(ver[at[s]])
  BY <1>1 DEF InOrder, Handled, Shape
<1>4. ver[at[s]].row # 0
  BY <1>1, ConstantsAssumption
<1>5. op[s] = "update" => new[s] \in Addr /\ new[s] \in used /\ ver[new[s]] = Blank /\ new[s] # at[s]
  BY <1>1, <1>4 DEF InOrder, Writing, Base, TypeInv, Placed, Blank
<1>6. CASE ver[at[s]].lock = "exclusive"
  <2>1. Blocked(s) /\ Owned(s, at[s])
    BY <1>1, <1>6, HeldIsListed DEF Blocked, Mask
  <2>2. ver[at[s]].on \in RowState /\ ver[at[s]].on # "none"
    BY <1>1, <1>3, <1>6 DEF Shaped, Base, TypeInv, StoreType, Control
  <2>3. MayRead(s) => ver[at[s]].on = "inserted" /\ ver[at[s]].off = "none"
    BY <1>1, <1>3, <2>1, <2>2 DEF MayRead, RowState, Shaped
  <2> QED BY <1>1, <1>2, <1>4, <1>5, <2>1, <2>3
<1>7. CASE ver[at[s]].lock # "exclusive"
  <2>1. ver[at[s]].lock = "none" /\ ver[at[s]].on = "none" /\ ver[at[s]].off = "inserted"
    BY <1>3, <1>7 DEF Held, Shaped
  <2>2. MayRead(s)
    BY <1>1, <2>1 DEF MayRead, Blocked, Mask, Landed
  <2> QED BY <1>1, <1>2, <1>4, <1>5, <2>1, <2>2
<1> QED BY <1>6, <1>7

\* the version at a: as it was, but for the hint of a settled one
Core(a) ==
    /\ ver'[a].off = ver[a].off /\ ver'[a].born = ver[a].born /\ ver'[a].died = ver[a].died
    /\ ver'[a].ref = ver[a].ref /\ ver'[a].row = ver[a].row
Stays(a) ==
    /\ Core(a) /\ ver'[a].on = ver[a].on /\ ver'[a].lock = ver[a].lock /\ ver'[a].txn = ver[a].txn
    /\ ver'[a] = ver[a] \/ SettledSuperseded(ver[a])

\* with its stage settled, or undone
Cleared(a) ==
    /\ ver'[a].on = "none" /\ ver'[a].lock = "none" /\ ver'[a].txn = 0
    /\ ver'[a].ref = ver[a].ref /\ ver'[a].row = ver[a].row
Settled(a) ==
    /\ Cleared(a) /\ ver'[a].off = ver[a].on /\ clock' = clock + 1
    /\ ver'[a].born = IF ver[a].on = "inserted" THEN clock + 1 ELSE ver[a].born
    /\ ver'[a].died = IF ver[a].on = "inserted" THEN ver[a].died ELSE clock + 1
Undone(a) ==
    /\ Cleared(a)
    /\ ver[a].off = "none" => /\ ver'[a].off = "deleted" /\ clock' = clock + 1
                              /\ ver'[a].born = clock + 1 /\ ver'[a].died = clock + 1
    /\ ver[a].off # "none" => Core(a)

\* taken by s to be replaced or removed
Taken(s, a, state) ==
    /\ Core(a) /\ ver'[a].on = state /\ ver'[a].lock = "exclusive"
    /\ ver'[a].txn = id[s] /\ ver'[a].qid = qid[s]

\* and a new version of the row r, written by s in the place of the one at p
Written1(s, a, p, r) == ver'[a] = StagedInsert(id[s], qid[s], p, r)

LEMMA CommitRows ==
    ASSUME Apart, Base, Rows, Sessions, NEW s \in Session, Commit(s), NEW a \in Addr
    PROVE  (Owned(s, a) => Settled(a)) /\ (~Owned(s, a) => Stays(a))
<1>1. /\ pc[s] = "ready" /\ open[s] /\ clock \in Nat /\ clock + 1 \in Nat /\ ver \in [Addr -> Control]
      /\ ver[a] \in Control /\ Shaped(ver[a])
  BY DEF Commit, Base, TypeInv, StoreType, Rows, Shape
<1>2. Owned(s, a) => a \in Touched(s)
  BY HeldIsListed
<1>3. ver[a].txn = id[s] => Owned(s, a)
  BY <1>1, HeldIsListed
<1>4. CASE ctx[s] = {}
  <2>1. ver' = ver /\ Touched(s) = {}
    BY <1>4 DEF Commit, Touched
  <2> QED BY <1>2, <2>1 DEF Stays, Core
<1>5. CASE ctx[s] # {}
  <2>1. clock' = clock + 1 /\ ver' = StampedBy(s, FlippedBy(s, clock + 1))
    BY <1>5 DEF Commit
  <2> DEFINE f == FlippedBy(s, clock + 1)[a]
  <2>2. f = IF Owned(s, a) THEN Flip(ver[a], clock + 1) ELSE ver[a]
    BY <1>2, <1>3 DEF FlippedBy, Owned
  <2>3. f \in Control
    BY <1>1, <2>2, SettlingTypes
  <2>4. ver'[a] = f \/ (SettledSuperseded(f) /\ \E q : ver'[a] = [f EXCEPT !.qid = q])
    BY <2>1 DEF StampedBy
  <2> HIDE DEF f
  <2>5. /\ ver'[a].on = f.on /\ ver'[a].lock = f.lock /\ ver'[a].off = f.off /\ ver'[a].txn = f.txn
        /\ ver'[a].ref = f.ref /\ ver'[a].died = f.died /\ ver'[a].born = f.born /\ ver'[a].row = f.row
    BY <2>3, <2>4 DEF Control
  <2>6. ASSUME Owned(s, a) PROVE Settled(a)
    <3>1. f = Flip(ver[a], clock + 1)
      BY <2>2, <2>6
    <3>2. ver[a].on # "none" /\ ver[a].on \in RowState
      BY <1>1, <2>6 DEF Owned, Shaped, Control
    <3> QED BY <1>1, <2>1, <2>5, <3>1, <3>2, FlipFields DEF Settled, Cleared, RowState
  <2>7. ASSUME ~Owned(s, a) PROVE Stays(a)
    BY <2>2, <2>4, <2>5, <2>7 DEF Stays, Core
  <2> QED BY <2>6, <2>7
<1> QED BY <1>4, <1>5

LEMMA RollbackRows ==
    ASSUME Apart, Base, Rows, Sessions, NEW s \in Session, Rollback(s), NEW a \in Addr
    PROVE  (Owned(s, a) => Undone(a)) /\ (~Owned(s, a) => Stays(a))
<1>1. /\ pc[s] = "ready" /\ open[s] /\ clock + 1 \in Nat /\ ver[a] \in Control
      /\ ver' = UndoneBy(s, Touched(s), clock + 1) /\ Stamps(s, Touched(s))
  BY DEF Rollback, Base, TypeInv, StoreType
<1>2. Owned(s, a) <=> a \in Touched(s) /\ ver[a].txn = id[s]
  BY <1>1, HeldIsListed DEF Owned
<1>3. ASSUME Owned(s, a) PROVE Undone(a)
  <2>1. ver'[a] = RolledBack(ver[a], clock + 1) /\ (ver[a].off = "none" => clock' = clock + 1)
    BY <1>1, <1>2, <1>3 DEF UndoneBy, Stamps
  <2> QED BY <1>1, <2>1, RolledBackFields DEF Undone, Cleared, Core
<1>4. ASSUME ~Owned(s, a) PROVE Stays(a)
  <2>1. ver'[a] = ver[a]
    BY <1>1, <1>2, <1>4 DEF UndoneBy
  <2> QED BY <2>1 DEF Stays, Core
<1> QED BY <1>3, <1>4

LEMMA InsertRows ==
    ASSUME Apart, Base, Rows, Sessions, NEW s \in Session, Insert(s)
    PROVE  \E a \in Addr \ used : \E r \in Unnamed(s) :
             /\ used' = used \union {a} /\ Touched(s)' = Touched(s) \union {a}
             /\ Written1(s, a, NoAddr, r)
             /\ \A b \in Addr : b # a => Stays(b)
             /\ open[s] /\ UNCHANGED txnVars
<1>1. open[s] /\ UNCHANGED txnVars
  BY StagesFindOpen DEF Insert, Base, Apart
<1>2. PICK a \in Addr \ used :
        /\ used' = used \union {a} /\ Push(s, {a})
        /\ ver' = [ver EXCEPT ![a] = StagedInsert(id'[s], qid'[s], NoAddr, Least(Unnamed(s)))]
  BY DEF Insert
<1>3. ver \in [Addr -> Control]
  BY DEF Base, TypeInv, StoreType
<1>4. Unnamed(s) # {} /\ Unnamed(s) \subseteq Nat
  BY ConstantsAssumption DEF Insert, Unnamed
<1>5. Least(Unnamed(s)) \in Unnamed(s)
  BY <1>4, LeastIsMember
<1>6. Written1(s, a, NoAddr, Least(Unnamed(s))) /\ \A b \in Addr : b # a => Stays(b)
  BY <1>1, <1>2, <1>3 DEF Written1, Stays, Core, txnVars
<1>7. Touched(s)' = Touched(s) \union {a}
  BY <1>2, PushTouches DEF Base
<1> QED BY <1>1, <1>2, <1>5, <1>6, <1>7

LEMMA WriteRows ==
    ASSUME Apart, Base, Rows, Sessions, NEW s \in Session, UpdateGranted(s) \/ DeleteGranted(s)
    PROVE  \E state \in {"updated", "deleted"} :
             /\ Taken(s, at[s], state)
             /\ state = "updated" => Written1(s, new[s], at[s], ver[at[s]].row) /\ op[s] = "update"
             /\ \A a \in Addr : a # at[s] /\ (state = "updated" => a # new[s]) => Stays(a)
<1>1. Answered(s) /\ ver \in [Addr -> Control] /\ id[s] \in Nat /\ qid[s] \in Int
  BY DEF UpdateGranted, DeleteGranted, Base, TypeInv, StoreType, TxnType
<1>2. /\ at[s] \in Addr /\ ver[at[s]] = seen[s] /\ ver[at[s]] \in Control
      /\ op[s] = "update" => new[s] \in Addr /\ new[s] # at[s]
  BY <1>1, Answers
<1>3. ASSUME NEW state, ver'[at[s]] = Restage(s, state), state \in {"updated", "deleted"}
      PROVE Taken(s, at[s], state)
  <2> DEFINE d == Staged(seen[s], state, "exclusive", id[s], qid[s])
  <2>1. d \in Control
    <3>1. state \in RowState /\ "exclusive" \in RowLock
      BY <1>3 DEF RowState, RowLock
    <3>2. seen[s] \in Control /\ id[s] \in Nat /\ qid[s] \in Int
      BY <1>1, <1>2
    <3> QED BY <3>1, <3>2, StagingTypes
  <2>2. /\ d.on = state /\ d.lock = "exclusive" /\ d.txn = id[s] /\ d.qid = qid[s]
        /\ d.off = ver[at[s]].off /\ d.born = ver[at[s]].born /\ d.died = ver[at[s]].died
        /\ d.ref = ver[at[s]].ref
    BY <1>2, StagedFields
  <2>3. ver'[at[s]] = [d EXCEPT !.row = ver[at[s]].row]
    BY <1>3 DEF Restage
  <2> HIDE DEF d
  <2> QED BY <2>1, <2>2, <2>3 DEF Taken, Core, Control
<1>4. CASE UpdateGranted(s)
  <2>1. ver' = [ver EXCEPT ![at[s]]  = Restage(s, "updated"),
                           ![new[s]] = StagedInsert(id[s], qid[s], at[s], ver[at[s]].row)]
        /\ op[s] = "update"
    BY <1>4 DEF UpdateGranted
  <2>2. ver'[at[s]] = Restage(s, "updated") /\ Written1(s, new[s], at[s], ver[at[s]].row)
    BY <1>1, <1>2, <2>1 DEF Written1
  <2>3. \A a \in Addr : a # at[s] /\ a # new[s] => Stays(a)
    BY <1>1, <1>2, <2>1 DEF Stays, Core
  <2> QED BY <1>3, <2>1, <2>2, <2>3
<1>5. CASE DeleteGranted(s)
  <2>1. ver' = [ver EXCEPT ![at[s]] = Restage(s, "deleted")]
    BY <1>5 DEF DeleteGranted
  <2>2. \A a \in Addr : a # at[s] => Stays(a)
    BY <1>1, <1>2, <2>1 DEF Stays, Core
  <2>3. ver'[at[s]] = Restage(s, "deleted")
    BY <1>1, <1>2, <2>1
  <2> QED BY <1>3, <2>2, <2>3
<1> QED BY <1>4, <1>5

\* Every other step leaves the versions alone, but for a TRUNCATE.
LEMMA OtherRows ==
    ASSUME Apart, Base, Rows, Sessions, NEW s \in Session, Step(s), ~Truncate(s),
           ~Commit(s), ~Rollback(s), ~Insert(s), ~UpdateGranted(s), ~DeleteGranted(s)
    PROVE  ver' = ver /\ used \subseteq used' /\ clock' = clock
BY NobodyWaits DEF Step, Begin, End, Abandon, SetLevel, StmtBegin, ReadNext, ScanEnd, CallbackReturn,
   CallbackStop, UpdateStart, DeleteStart, CheckMoves, WriteRefused

\* Two held versions of one row have one holder.
LEMMA OneHolder ==
    ASSUME Apart, Base, Rows, Sessions, NEW s \in Session, NEW a \in Addr, NEW b \in Addr,
           Owned(s, a), ver[b].lock = "exclusive", ver[a].row = ver[b].row
    PROVE  Owned(s, b)
BY HeldIsListed

\* A claim outlives a step that leaves the version alone.
LEMMA ClaimStays ==
    ASSUME Base, Base', Claimed, NEW s \in Session, Step(s), NEW a \in Addr, Stays(a),
           NEW u \in Session, ver'[a].lock = "exclusive", id'[u] = ver'[a].txn
    PROVE  ver'[a].row \in Claims[u]
<1>1. ver[a].lock = "exclusive" /\ id'[u] = ver[a].txn /\ ver'[a].row = ver[a].row
  BY DEF Stays, Core
<1>2. ver[a].txn <= serial /\ ver[a].txn \in Nat /\ serial \in Nat
  BY <1>1, LockIds DEF Base, LockInv, TypeInv, StoreType, TxnType, Control
<1>3. id'[u] = id[u] \/ id'[u] = serial + 1
  BY Beginning, OthersStay DEF Base, Still
<1>4. id[u] = ver[a].txn
  BY <1>1, <1>2, <1>3
<1> QED BY <1>1, <1>4 DEF Claimed

\* And so does the shape of a block.
LEMMA ShapeStays ==
    ASSUME Shape, NEW a \in Addr, Stays(a)
    PROVE  Shaped(ver'[a]) /\ (ver[a] = Blank => ver'[a] = Blank)
<1>1. Shaped(ver[a])
  BY DEF Shape
<1>2. ver'[a] = ver[a] \/ SettledSuperseded(ver[a])
  BY DEF Stays
<1>3. ~SettledSuperseded(Blank)
  BY DEF SettledSuperseded, Blank
<1>4. CASE ver'[a] = ver[a]
  BY <1>1, <1>4
<1>5. CASE SettledSuperseded(ver[a])
  BY <1>1, <1>3, <1>5 DEF Shaped, Stays, Core, SettledSuperseded
<1> QED BY <1>2, <1>4, <1>5

LEMMA RowsCommit ==
    ASSUME Apart, Base, Base', Rows, Sessions, NEW s \in Session, Commit(s)
    PROVE  Rows'
<1> USE DEF Rows
<1>1. \A a \in Addr : (Owned(s, a) => Settled(a)) /\ (~Owned(s, a) => Stays(a))
  BY CommitRows
<1>2. used' = used /\ Step(s) /\ used \subseteq Addr
  BY DEF Commit, Step, Base, TypeInv, StoreType
<1>3. ASSUME NEW a \in Addr
      PROVE  /\ ver'[a].row = ver[a].row /\ ver'[a].ref = ver[a].ref
             /\ ver'[a].off = "inserted" =>
                  (Owned(s, a) /\ ver[a].on = "inserted") \/ (~Owned(s, a) /\ ver[a].off = "inserted")
             /\ ver'[a].on # "none" => ~Owned(s, a) /\ ver'[a].on = ver[a].on
             /\ ver'[a].lock = "exclusive" => ~Owned(s, a) /\ ver[a].lock = "exclusive"
             /\ ~Owned(s, a) => ver'[a].lock = ver[a].lock
  BY <1>1 DEF Settled, Cleared, Stays, Core
<1>4. Shape'
  <2>1. ASSUME NEW a \in Addr, Owned(s, a) PROVE Shaped(ver'[a]) /\ a \in used
    <3>1. Settled(a) /\ Shaped(ver[a]) /\ ver[a].lock = "exclusive"
      BY <1>1, <2>1 DEF Owned, Shape
    <3> QED BY <2>1, <3>1, HeldIsListed DEF Settled, Cleared, Shaped
  <2>2. ASSUME NEW a \in Addr, ~Owned(s, a) PROVE Shaped(ver'[a]) /\ (a \notin used => ver'[a] = Blank)
    BY <1>1, <2>2, ShapeStays DEF Shape
  <2> QED BY <1>2, <2>1, <2>2 DEF Shape
<1>5. OneOfEach'
  <2> SUFFICES ASSUME NEW a \in used, NEW b \in used, ver[a].row = ver[b].row, ver[a].row # 0
               PROVE  /\ ver'[a].off = "inserted" /\ ver'[b].off = "inserted" => a = b
                      /\ ver'[a].on = "inserted" /\ ver'[b].on = "inserted" => a = b
                      /\ ver'[a].lock = "exclusive" /\ ver'[b].off = "inserted" => ver'[b].lock = "exclusive"
    BY <1>2, <1>3 DEF OneOfEach
  <2>1. a \in Addr /\ b \in Addr /\ Shaped(ver[a]) /\ Shaped(ver[b])
    BY <1>2 DEF Shape
  <2>2. ASSUME NEW x \in {a, b}, NEW y \in {a, b}
        PROVE  /\ ver[x].off = "inserted" /\ ver[y].off = "inserted" => x = y
               /\ ver[x].on = "inserted" /\ ver[y].on = "inserted" => x = y
               /\ ver[x].lock = "exclusive" /\ ver[y].off = "inserted" => ver[y].lock = "exclusive"
               /\ Owned(s, x) /\ ver[y].lock = "exclusive" => Owned(s, y)
    BY <2>1, OneHolder DEF OneOfEach
  <2>3. ASSUME NEW x \in {a, b}, NEW y \in {a, b}, Owned(s, x) PROVE ~Owned(s, y) => ver[y].off # "inserted"
    BY <2>2, <2>3 DEF Owned
  <2>4. ver'[a].off = "inserted" /\ ver'[b].off = "inserted" => a = b
    BY <1>3, <2>1, <2>2, <2>3
  <2>5. ver'[a].on = "inserted" /\ ver'[b].on = "inserted" => a = b
    BY <1>3, <2>1, <2>2
  <2>6. ver'[a].lock = "exclusive" /\ ver'[b].off = "inserted" => ver'[b].lock = "exclusive"
    BY <1>3, <2>1, <2>2, <2>3
  <2> QED BY <2>4, <2>5, <2>6
<1>6. Replaced'
  <2> SUFFICES ASSUME NEW a \in Addr, ver'[a].on = "inserted", ver'[a].ref # NoAddr
               PROVE  /\ ver'[a].ref \in used' /\ ver'[ver'[a].ref].row = ver'[a].row
                      /\ ver'[ver'[a].ref].on = "updated"
    BY DEF Replaced
  <2> DEFINE p == ver[a].ref
  <2>1. ~Owned(s, a) /\ p \in used /\ ver[p].row = ver[a].row /\ ver[p].on = "updated" /\ ver'[a].ref = p
    BY <1>3 DEF Replaced
  <2>2. p \in Addr /\ ver[a].on = "inserted" /\ Shaped(ver[a]) /\ Shaped(ver[p])
    BY <1>2, <1>3, <2>1 DEF Shape
  <2>3. ~Owned(s, p)
    BY <2>1, <2>2, OneHolder DEF Shaped
  <2> QED BY <1>1, <1>2, <1>3, <2>1, <2>2, <2>3 DEF Stays
<1>7. Claimed'
  <2> SUFFICES ASSUME NEW a \in Addr, NEW u \in Session, ver'[a].lock = "exclusive", id'[u] = ver'[a].txn
               PROVE  ver'[a].row \in Claims[u]
    BY DEF Claimed
  <2> QED BY <1>1, <1>2, <1>3, ClaimStays
<1> QED BY <1>4, <1>5, <1>6, <1>7

LEMMA RowsRollback ==
    ASSUME Apart, Base, Base', Rows, Sessions, NEW s \in Session, Rollback(s)
    PROVE  Rows'
<1> USE DEF Rows
<1>1. \A a \in Addr : (Owned(s, a) => Undone(a)) /\ (~Owned(s, a) => Stays(a))
  BY RollbackRows
<1>2. used' = used /\ Step(s) /\ used \subseteq Addr
  BY DEF Rollback, Step, Base, TypeInv, StoreType
<1>3. ASSUME NEW a \in Addr
      PROVE  /\ ver'[a].row = ver[a].row /\ ver'[a].ref = ver[a].ref
             /\ ver'[a].off = "inserted" => ver[a].off = "inserted"
             /\ ver'[a].on # "none" => ~Owned(s, a) /\ ver'[a].on = ver[a].on
             /\ ver'[a].lock = "exclusive" => ~Owned(s, a) /\ ver[a].lock = "exclusive"
             /\ ~Owned(s, a) => ver'[a].lock = ver[a].lock
  BY <1>1 DEF Undone, Cleared, Stays, Core
<1>4. Shape'
  <2>1. ASSUME NEW a \in Addr, Owned(s, a) PROVE Shaped(ver'[a]) /\ a \in used
    <3>1. Undone(a) /\ Shaped(ver[a]) /\ ver[a].lock = "exclusive"
      BY <1>1, <2>1 DEF Owned, Shape
    <3> QED BY <2>1, <3>1, HeldIsListed DEF Undone, Core, Cleared, Shaped
  <2>2. ASSUME NEW a \in Addr, ~Owned(s, a) PROVE Shaped(ver'[a]) /\ (a \notin used => ver'[a] = Blank)
    BY <1>1, <2>2, ShapeStays DEF Shape
  <2> QED BY <1>2, <2>1, <2>2 DEF Shape
<1>5. OneOfEach'
  <2> SUFFICES ASSUME NEW a \in used, NEW b \in used, ver[a].row = ver[b].row, ver[a].row # 0
               PROVE  /\ ver'[a].off = "inserted" /\ ver'[b].off = "inserted" => a = b
                      /\ ver'[a].on = "inserted" /\ ver'[b].on = "inserted" => a = b
                      /\ ver'[a].lock = "exclusive" /\ ver'[b].off = "inserted" => ver'[b].lock = "exclusive"
    BY <1>2, <1>3 DEF OneOfEach
  <2>1. a \in Addr /\ b \in Addr
    BY <1>2
  <2>2. /\ ver[a].off = "inserted" /\ ver[b].off = "inserted" => a = b
        /\ ver[a].on = "inserted" /\ ver[b].on = "inserted" => a = b
        /\ ver[a].lock = "exclusive" /\ ver[b].off = "inserted" => ver[b].lock = "exclusive"
    BY DEF OneOfEach
  <2>3. Owned(s, b) /\ ver[a].lock = "exclusive" => Owned(s, a)
    BY <2>1, OneHolder
  <2> QED BY <1>3, <2>1, <2>2, <2>3
<1>6. Replaced'
  <2> SUFFICES ASSUME NEW a \in Addr, ver'[a].on = "inserted", ver'[a].ref # NoAddr
               PROVE  /\ ver'[a].ref \in used' /\ ver'[ver'[a].ref].row = ver'[a].row
                      /\ ver'[ver'[a].ref].on = "updated"
    BY DEF Replaced
  <2> DEFINE p == ver[a].ref
  <2>1. ~Owned(s, a) /\ p \in used /\ ver[p].row = ver[a].row /\ ver[p].on = "updated" /\ ver'[a].ref = p
    BY <1>3 DEF Replaced
  <2>2. p \in Addr /\ ver[a].on = "inserted" /\ Shaped(ver[a]) /\ Shaped(ver[p])
    BY <1>2, <1>3, <2>1 DEF Shape
  <2>3. ~Owned(s, p)
    BY <2>1, <2>2, OneHolder DEF Shaped
  <2> QED BY <1>1, <1>2, <1>3, <2>1, <2>2, <2>3 DEF Stays
<1>7. Claimed'
  <2> SUFFICES ASSUME NEW a \in Addr, NEW u \in Session, ver'[a].lock = "exclusive", id'[u] = ver'[a].txn
               PROVE  ver'[a].row \in Claims[u]
    BY DEF Claimed
  <2> QED BY <1>1, <1>2, <1>3, ClaimStays
<1> QED BY <1>4, <1>5, <1>6, <1>7

LEMMA RowsInsert ==
    ASSUME Apart, Base, Base', Rows, Sessions, NEW s \in Session, Insert(s)
    PROVE  Rows'
<1> USE DEF Rows
<1>0. Step(s) /\ used \subseteq Addr /\ NoAddr \notin Addr
  BY ConstantsAssumption DEF Step, Base, TypeInv, StoreType, NoAddr
<1>1. PICK x \in Addr \ used : \E r \in Unnamed(s) :
        /\ used' = used \union {x} /\ Touched(s)' = Touched(s) \union {x}
        /\ Written1(s, x, NoAddr, r)
        /\ \A b \in Addr : b # x => Stays(b)
        /\ open[s] /\ UNCHANGED txnVars
  BY InsertRows
<1>2. PICK r \in Unnamed(s) : Written1(s, x, NoAddr, r) /\ id' = id
  BY <1>1 DEF txnVars
<1>3. /\ ver'[x].row = r /\ ver'[x].ref = NoAddr /\ ver'[x].off = "none" /\ ver'[x].born = 0
      /\ ver'[x].on = "inserted" /\ ver'[x].lock = "exclusive" /\ ver'[x].txn = id[s]
  BY <1>2, InsertFields DEF Written1
<1>4. r # 0 /\ r \in Claims[s] /\ \A a \in used : ver[a].row # r
  BY ConstantsAssumption DEF Unnamed
<1>5. \A a \in Addr : a # x =>
        /\ ver'[a].row = ver[a].row /\ ver'[a].ref = ver[a].ref /\ ver'[a].off = ver[a].off
        /\ ver'[a].on = ver[a].on /\ ver'[a].lock = ver[a].lock
  BY <1>1 DEF Stays, Core
<1>6. Shape'
  <2>1. Shaped(ver'[x])
    BY <1>3, <1>4 DEF Shaped
  <2>2. \A a \in Addr : a # x => Shaped(ver'[a]) /\ (a \notin used => ver'[a] = Blank)
    BY <1>1, ShapeStays DEF Shape
  <2> QED BY <1>1, <2>1, <2>2 DEF Shape
<1>7. OneOfEach'
  <2> SUFFICES ASSUME NEW a \in used', NEW b \in used', ver'[a].row = ver'[b].row, ver'[a].row # 0
               PROVE  /\ ver'[a].off = "inserted" /\ ver'[b].off = "inserted" => a = b
                      /\ ver'[a].on = "inserted" /\ ver'[b].on = "inserted" => a = b
                      /\ ver'[a].lock = "exclusive" /\ ver'[b].off = "inserted" => ver'[b].lock = "exclusive"
    BY DEF OneOfEach
  <2>1. CASE a = x \/ b = x
    <3>1. a = b
      BY <1>0, <1>1, <1>3, <1>4, <1>5, <2>1
    <3> QED BY <1>3, <2>1, <3>1
  <2>2. CASE a # x /\ b # x
    <3>1. a \in used /\ b \in used
      BY <1>1, <2>2
    <3> QED BY <1>0, <1>5, <2>2, <3>1 DEF OneOfEach
  <2> QED BY <2>1, <2>2
<1>8. Replaced'
  <2> SUFFICES ASSUME NEW a \in Addr, ver'[a].on = "inserted", ver'[a].ref # NoAddr
               PROVE  /\ ver'[a].ref \in used' /\ ver'[ver'[a].ref].row = ver'[a].row
                      /\ ver'[ver'[a].ref].on = "updated"
    BY DEF Replaced
  <2>1. a # x
    BY <1>3
  <2>2. ver[a].ref \in used /\ ver[ver[a].ref].row = ver[a].row /\ ver[ver[a].ref].on = "updated"
        /\ ver'[a].ref = ver[a].ref /\ ver'[a].row = ver[a].row
    BY <1>5, <2>1 DEF Replaced
  <2> QED BY <1>0, <1>1, <1>5, <2>2
<1>9. Claimed'
  <2> SUFFICES ASSUME NEW a \in Addr, NEW u \in Session, ver'[a].lock = "exclusive", id'[u] = ver'[a].txn
               PROVE  ver'[a].row \in Claims[u]
    BY DEF Claimed
  <2>1. CASE a = x
    <3>1. id[s] # 0 /\ id[u] = id[s]
      BY <1>1, <1>2, <1>3, <2>1 DEF Base, Ids
    <3>2. u = s
      BY <3>1 DEF Base, Ids
    <3> QED BY <1>3, <1>4, <2>1, <3>2
  <2>2. CASE a # x
    BY <1>0, <1>1, <2>2, ClaimStays
  <2> QED BY <2>1, <2>2
<1> QED BY <1>6, <1>7, <1>8, <1>9

LEMMA RowsWrite ==
    ASSUME Apart, Base, Base', Rows, Sessions, NEW s \in Session, UpdateGranted(s) \/ DeleteGranted(s)
    PROVE  Rows'
<1> USE DEF Rows
<1>0. /\ Step(s) /\ used \subseteq Addr /\ used' = used /\ id' = id
      /\ Answered(s) /\ MayRead(s)
  BY DEF Step, CheckMoves, Base, TypeInv, StoreType, UpdateGranted, DeleteGranted, txnVars
<1> DEFINE x == at[s]
           y == new[s]
           r == ver[x].row
<1>1. PICK state \in {"updated", "deleted"} :
        /\ Taken(s, at[s], state)
        /\ state = "updated" => Written1(s, new[s], at[s], ver[at[s]].row) /\ op[s] = "update"
        /\ \A a \in Addr : a # at[s] /\ (state = "updated" => a # new[s]) => Stays(a)
  BY WriteRows
<1>2. /\ x \in Addr /\ x \in used /\ r # 0 /\ open[s] /\ r \in Claims[s]
      /\ \/ ver[x].on = "none" /\ ver[x].lock = "none" /\ ver[x].off = "inserted"
         \/ ver[x].on = "inserted" /\ Owned(s, x) /\ ver[x].off = "none"
  BY <1>0, Answers
<1>3. state = "updated" => y \in Addr /\ y \in used /\ ver[y] = Blank /\ y # x
  BY <1>0, <1>1, Answers
<1>4. /\ ver'[x].row = r /\ ver'[x].ref = ver[x].ref /\ ver'[x].off = ver[x].off
      /\ ver'[x].born = ver[x].born
      /\ ver'[x].on = state /\ ver'[x].lock = "exclusive" /\ ver'[x].txn = id[s]
  BY <1>1 DEF Taken, Core
<1>5. state = "updated" =>
        /\ ver'[y].row = r /\ ver'[y].ref = x /\ ver'[y].off = "none" /\ ver'[y].born = 0
        /\ ver'[y].on = "inserted" /\ ver'[y].lock = "exclusive" /\ ver'[y].txn = id[s]
  BY <1>1, InsertFields DEF Written1
<1> DEFINE Else(a) == a # x /\ (state = "updated" => a # y)
<1>6. \A a \in Addr : Else(a) =>
        /\ Stays(a)
        /\ ver'[a].row = ver[a].row /\ ver'[a].ref = ver[a].ref /\ ver'[a].off = ver[a].off
        /\ ver'[a].on = ver[a].on /\ ver'[a].lock = ver[a].lock
  BY <1>1 DEF Stays, Core
<1>7. \A a \in Addr : Shaped(ver[a])
  BY DEF Shape
<1>8. Blank.on = "none" /\ Blank.row = 0 /\ Blank.off = "none"
  BY DEF Blank
<1>9. NoAddr \notin Addr
  BY ConstantsAssumption DEF NoAddr
<1> HIDE DEF x, y, r
<1>10. Shape'
  <2>1. Shaped(ver'[x])
    BY <1>2, <1>4, <1>7 DEF Shaped
  <2>2. state = "updated" => Shaped(ver'[y])
    BY <1>2, <1>5 DEF Shaped
  <2>3. \A a \in Addr : Else(a) => Shaped(ver'[a]) /\ (a \notin used => ver'[a] = Blank)
    BY <1>6, ShapeStays DEF Shape
  <2> QED BY <1>0, <1>2, <1>3, <2>1, <2>2, <2>3 DEF Shape
<1>11. OneOfEach'
  <2>1. ASSUME NEW b \in used, ver[b].row = r, b # x
        PROVE  ver[b].on # "inserted" /\ (ver[b].off = "inserted" => ver[b].lock = "exclusive")
    <3>1. /\ ver[x].off = "inserted" /\ ver[b].off = "inserted" => x = b
          /\ ver[x].on = "inserted" /\ ver[b].on = "inserted" => x = b
          /\ ver[x].lock = "exclusive" /\ ver[b].off = "inserted" => ver[b].lock = "exclusive"
          /\ ver[b].lock = "exclusive" /\ ver[x].off = "inserted" => ver[x].lock = "exclusive"
      BY <1>2, <2>1 DEF OneOfEach, r
    <3>2. Shaped(ver[b])
      BY <1>0, <1>7
    <3>3. ver[b].on = "inserted" => ver[b].lock = "exclusive"
      BY <3>2 DEF Shaped
    <3> QED BY <1>2, <2>1, <3>1, <3>3 DEF Owned
  <2> SUFFICES ASSUME NEW a \in used, NEW b \in used, ver'[a].row = ver'[b].row, ver'[a].row # 0
               PROVE  /\ ver'[a].off = "inserted" /\ ver'[b].off = "inserted" => a = b
                      /\ ver'[a].on = "inserted" /\ ver'[b].on = "inserted" => a = b
                      /\ ver'[a].lock = "exclusive" /\ ver'[b].off = "inserted" => ver'[b].lock = "exclusive"
    BY <1>0 DEF OneOfEach
  <2>2. a \in Addr /\ b \in Addr
    BY <1>0
  <2>3. CASE Else(a) /\ Else(b)
    BY <1>6, <2>2, <2>3 DEF OneOfEach
  <2>4. ASSUME NEW c \in used, Else(c), ver'[c].row = r
        PROVE  ver'[c].on # "inserted" /\ (ver'[c].off = "inserted" => ver'[c].lock = "exclusive" /\ ver[c].off = "inserted")
    BY <1>0, <1>6, <2>1, <2>4
  <2>5. ASSUME NEW c \in used, Else(c), ver'[c].row = r, ver'[c].off = "inserted" PROVE ver[x].off # "inserted"
    BY <1>0, <1>2, <1>6, <2>4, <2>5 DEF OneOfEach, r
  <2>6. CASE ~Else(a) \/ ~Else(b)
    <3>1. ver'[a].row = r /\ ver'[b].row = r
      BY <1>4, <1>5, <2>6
    <3>2. ver'[a].off = "inserted" /\ ver'[b].off = "inserted" => a = b
      BY <1>4, <1>5, <2>5, <2>6, <3>1
    <3>3. ver'[a].on = "inserted" /\ ver'[b].on = "inserted" => a = b
      BY <1>4, <1>5, <2>4, <2>6, <3>1
    <3>4. ver'[a].lock = "exclusive" /\ ver'[b].off = "inserted" => ver'[b].lock = "exclusive"
      BY <1>4, <1>5, <2>4, <3>1
    <3> QED BY <3>2, <3>3, <3>4
  <2> QED BY <2>3, <2>6
<1>12. Replaced'
  <2> SUFFICES ASSUME NEW a \in Addr, ver'[a].on = "inserted", ver'[a].ref # NoAddr
               PROVE  /\ ver'[a].ref \in used' /\ ver'[ver'[a].ref].row = ver'[a].row
                      /\ ver'[ver'[a].ref].on = "updated"
    BY DEF Replaced
  <2>1. CASE Else(a)
    <3> DEFINE p == ver[a].ref
    <3>1. p \in used /\ ver[p].row = ver[a].row /\ ver[p].on = "updated" /\ ver'[a].ref = p
          /\ ver'[a].row = ver[a].row
      BY <1>6, <2>1 DEF Replaced
    <3>2. p \in Addr /\ Else(p)
      BY <1>0, <1>2, <1>3, <1>8, <3>1
    <3> HIDE DEF p
    <3> QED BY <1>0, <1>6, <3>1, <3>2
  <2>2. CASE ~Else(a)
    <3>1. state = "updated" /\ a = y
      BY <1>4, <2>2
    <3> QED BY <1>0, <1>2, <1>4, <1>5, <3>1
  <2> QED BY <2>1, <2>2
<1>13. Claimed'
  <2> SUFFICES ASSUME NEW a \in Addr, NEW u \in Session, ver'[a].lock = "exclusive", id'[u] = ver'[a].txn
               PROVE  ver'[a].row \in Claims[u]
    BY DEF Claimed
  <2>1. CASE ~Else(a)
    <3>1. ver'[a].txn = id[s] /\ ver'[a].row = r
      BY <1>4, <1>5, <2>1
    <3>2. id[s] # 0
      BY <1>2 DEF Base, Ids
    <3>3. u = s
      BY <1>0, <3>1, <3>2 DEF Base, Ids
    <3> QED BY <1>2, <3>1, <3>3
  <2>2. CASE Else(a)
    BY <1>0, <1>6, <2>2, ClaimStays
  <2> QED BY <2>1, <2>2
<1> QED BY <1>10, <1>11, <1>12, <1>13

LEMMA RowsTruncate ==
    ASSUME Apart, Base, Base', Rows, Sessions, NEW s \in Session, Truncate(s)
    PROVE  Rows'
<1> USE DEF Rows
<1>1. /\ used' = used \ DeadRows /\ id' = id /\ used \subseteq Addr /\ DeadRows \subseteq used
      /\ \A a \in Addr : ver'[a] = IF a \in DeadRows THEN Blank ELSE ver[a]
  BY DEF Truncate, txnVars, Base, TypeInv, StoreType, DeadRows
<1>2. Blank.on = "none" /\ Blank.row = 0 /\ Blank.off = "none" /\ Blank.lock = "none" /\ Blank.ref = NoAddr
  BY DEF Blank
<1>3. Shaped(Blank)
  BY DEF Shaped, Blank
<1>4. Shape'
  BY <1>1, <1>3 DEF Shape
<1>5. OneOfEach'
  BY <1>1 DEF OneOfEach
<1>6. Replaced'
  <2> SUFFICES ASSUME NEW a \in Addr, ver'[a].on = "inserted", ver'[a].ref # NoAddr
               PROVE  /\ ver'[a].ref \in used' /\ ver'[ver'[a].ref].row = ver'[a].row
                      /\ ver'[ver'[a].ref].on = "updated"
    BY DEF Replaced
  <2>1. ver'[a] = ver[a]
    BY <1>1, <1>2
  <2>2. ver[a].ref \in used /\ ver[ver[a].ref].row = ver[a].row /\ ver[ver[a].ref].on = "updated"
    BY <2>1 DEF Replaced
  <2>3. ver[a].ref \notin DeadRows
    BY <2>2 DEF DeadRows
  <2> QED BY <1>1, <2>1, <2>2, <2>3
<1>7. Claimed'
  BY <1>1, <1>2 DEF Claimed
<1> QED BY <1>4, <1>5, <1>6, <1>7

LEMMA RowsStep ==
    ASSUME Apart, Base, Base', Rows, Sessions, NEW s \in Session, Step(s)
    PROVE  Rows'
<1>1. CASE ~Truncate(s) /\ ~Commit(s) /\ ~Rollback(s) /\ ~Insert(s) /\ ~UpdateGranted(s) /\ ~DeleteGranted(s)
  <2> USE DEF Rows
  <2>1. ver' = ver /\ used \subseteq used' /\ used' \subseteq Addr
    BY <1>1, OtherRows DEF Base, TypeInv, StoreType
  <2>2. \A a \in Addr : Stays(a)
    BY <2>1 DEF Stays, Core
  <2>3. \A a \in used' \ used : ver[a].row = 0
    BY <2>1 DEF Shape, Blank
  <2>4. Shape' /\ Replaced'
    BY <2>1 DEF Shape, Replaced
  <2>5. OneOfEach'
    BY <2>1, <2>3 DEF OneOfEach
  <2>6. Claimed'
    <3> SUFFICES ASSUME NEW a \in Addr, NEW u \in Session, ver'[a].lock = "exclusive", id'[u] = ver'[a].txn
                 PROVE  ver'[a].row \in Claims[u]
      BY DEF Claimed
    <3> QED BY <2>2, ClaimStays
  <2> QED BY <2>4, <2>5, <2>6
<1> QED BY <1>1, RowsTruncate, RowsCommit, RowsRollback, RowsInsert, RowsWrite

\* What a step of one session may do to the rows of another: nothing that he holds or
\* that is current; it may free the dead.
LEMMA OthersRows ==
    ASSUME Apart, Base, Base', Rows, Sessions, NEW s \in Session, Step(s),
           NEW u \in Session, u # s, NEW a \in Addr
    PROVE  /\ ver[a].row \in Claims[u] =>
                Stays(a) \/ (ver'[a] = Blank /\ a \in DeadRows)
           /\ ver'[a].row \in Claims[u] => Stays(a)
           /\ ver[a].row \in Claims[u] /\ Held(a) => ver'[a] = ver[a]
           /\ a \in Touched(u) /\ ver[a] = Blank => ver'[a] = Blank
           /\ a \in used /\ (Held(a) \/ ver[a] = Blank) => a \in used'
<1> USE DEF Sessions
<1>1. Blank.row = 0 /\ 0 \notin Claims[u] /\ ~SettledSuperseded(Blank) /\ ~Dead(Blank) /\ Blank.lock = "none"
  BY ConstantsAssumption DEF Blank, SettledSuperseded, Dead
<1>2. /\ ver[a].row \in Claims[u] => ver[a].row \notin Claims[s]
      /\ ver'[a].row \in Claims[u] => ver'[a].row \notin Claims[s]
  BY DEF Apart, ClaimsDisjoint
<1>3. Stays(a) => ver'[a].row = ver[a].row /\ (ver[a] = Blank => ver'[a] = Blank)
                  /\ (Held(a) => ver'[a] = ver[a])
  BY <1>1 DEF Stays, Core, Held, SettledSuperseded
<1>4. a \in Touched(u) => a \in used /\ a \notin Touched(s)
  BY DEF InOrder, Listed, ListsApart
<1>5. ASSUME used \subseteq used', Stays(a) \/ (ver'[a].row \in Claims[s] /\ ver[a].row \in Claims[s])
             \/ (ver'[a].row \in Claims[s] /\ a \notin used) \/ (ver'[a].row \in Claims[s] /\ a \in Touched(s))
             , ver[a].row \in Claims[s] \/ ver[a] = Blank \/ Stays(a)
      PROVE  /\ ver[a].row \in Claims[u] => Stays(a)
             /\ ver'[a].row \in Claims[u] => Stays(a)
             /\ ver[a].row \in Claims[u] /\ Held(a) => ver'[a] = ver[a]
             /\ a \in Touched(u) /\ ver[a] = Blank => ver'[a] = Blank
             /\ a \in used /\ (Held(a) \/ ver[a] = Blank) => a \in used'
  <2>1. ver[a].row \in Claims[u] => Stays(a)
    BY <1>1, <1>2, <1>5
  <2>2. ver'[a].row \in Claims[u] => Stays(a)
    BY <1>2, <1>5
  <2>3. ASSUME a \in Touched(u), ver[a] = Blank PROVE Stays(a)
    <3>1. ver[a].row \notin Claims[s]
      BY <1>1, <2>3, ConstantsAssumption
    <3> QED BY <1>4, <1>5, <2>3, <3>1
  <2> QED BY <1>3, <1>5, <2>1, <2>2, <2>3
<1>6. CASE Commit(s)
  <2>1. used' = used /\ (Owned(s, a) => Settled(a)) /\ (~Owned(s, a) => Stays(a))
    BY <1>6, CommitRows DEF Commit
  <2>2. Owned(s, a) => ver[a].row \in Claims[s] /\ ver'[a].row = ver[a].row
    BY <2>1, HeldIsListed DEF Settled, Cleared
  <2> QED BY <1>5, <2>1, <2>2
<1>7. CASE Rollback(s)
  <2>1. used' = used /\ (Owned(s, a) => Undone(a)) /\ (~Owned(s, a) => Stays(a))
    BY <1>7, RollbackRows DEF Rollback
  <2>2. Owned(s, a) => ver[a].row \in Claims[s] /\ ver'[a].row = ver[a].row
    BY <2>1, HeldIsListed DEF Undone, Cleared
  <2> QED BY <1>5, <2>1, <2>2
<1>8. CASE Insert(s)
  <2>1. PICK x \in Addr \ used : \E r \in Unnamed(s) :
          /\ used' = used \union {x} /\ Touched(s)' = Touched(s) \union {x}
          /\ Written1(s, x, NoAddr, r)
          /\ \A b \in Addr : b # x => Stays(b)
          /\ open[s] /\ UNCHANGED txnVars
    BY <1>8, InsertRows
  <2>2. PICK r \in Unnamed(s) : Written1(s, x, NoAddr, r)
    BY <2>1
  <2>3. ver'[x].row \in Claims[s] /\ ver[x] = Blank
    BY <2>1, <2>2, InsertFields DEF Written1, Unnamed, Rows, Shape
  <2> QED BY <1>5, <2>1, <2>3
<1>9. CASE UpdateGranted(s) \/ DeleteGranted(s)
  <2>1. used' = used /\ Answered(s)
    BY <1>9 DEF UpdateGranted, DeleteGranted
  <2>2. PICK state \in {"updated", "deleted"} :
          /\ Taken(s, at[s], state)
          /\ state = "updated" => Written1(s, new[s], at[s], ver[at[s]].row) /\ op[s] = "update"
          /\ \A b \in Addr : b # at[s] /\ (state = "updated" => b # new[s]) => Stays(b)
    BY <1>9, WriteRows
  <2>3. ver[at[s]].row \in Claims[s] /\ (state = "updated" => ver[new[s]] = Blank /\ new[s] \in Touched(s))
    BY <2>1, <2>2, Answers DEF Base, LockInv, PushedFirst
  <2>4. /\ ver'[at[s]].row = ver[at[s]].row
        /\ state = "updated" => ver'[new[s]].row = ver[at[s]].row
    BY <2>2, InsertFields DEF Taken, Core, Written1
  <2> QED BY <1>5, <2>1, <2>2, <2>3, <2>4
<1>10. CASE Truncate(s)
  <2>1. used' = used \ DeadRows /\ ver'[a] = IF a \in DeadRows THEN Blank ELSE ver[a]
    BY <1>10 DEF Truncate
  <2>2. a \in DeadRows => Dead(ver[a]) /\ ver[a].lock = "none" /\ ~Held(a)
    BY DEF DeadRows, Held, Dead
  <2>3. a \notin DeadRows => Stays(a)
    BY <2>1 DEF Stays, Core
  <2> QED BY <1>1, <1>3, <2>1, <2>2, <2>3
<1>11. CASE ~Truncate(s) /\ ~Commit(s) /\ ~Rollback(s) /\ ~Insert(s) /\ ~UpdateGranted(s) /\ ~DeleteGranted(s)
  <2>1. ver' = ver /\ used \subseteq used'
    BY <1>11, OtherRows
  <2> QED BY <1>3, <2>1 DEF Stays, Core
<1> QED BY <1>6, <1>7, <1>8, <1>9, <1>10, <1>11

\* The other sessions stay in order.
LEMMA OthersInOrder ==
    ASSUME Apart, Base, Base', Rows, Sessions, NEW s \in Session, Step(s),
           NEW u \in Session, u # s
    PROVE  InOrder(u)'
<1> USE DEF Sessions
<1>1. Still(u) /\ seen'[u] = seen[u] /\ InOrder(u) /\ TypeInv
  BY OthersStay DEF Base
<1>2. Touched(u)' = Touched(u) /\ Touched(u) \subseteq Addr
  BY <1>1 DEF Still, Touched, TypeInv, StoreType
<1>3. pc[u] \in {"callback", "check"} => at[u] \in Addr
  BY <1>1 DEF TypeInv, Placed
<1>4. Levelled(u)'
  BY <1>1 DEF InOrder, Levelled, Still
<1>5. pc[u] = "check" => at[u] \in used' /\ ver'[at[u]] = ver[at[u]] /\ Held(at[u])
  <2> SUFFICES ASSUME pc[u] = "check" PROVE at[u] \in used' /\ ver'[at[u]] = ver[at[u]] /\ Held(at[u])
    OBVIOUS
  <2>1. at[u] \in used /\ ver[at[u]].row \in Claims[u] /\ Held(at[u])
    BY <1>1 DEF InOrder, Writing, Handled
  <2> QED BY <1>3, <2>1, OthersRows
<1>6. Listed(u)'
  <2> SUFFICES ASSUME NEW a \in Touched(u)
               PROVE  /\ open'[u] /\ a \in used'
                      /\ \/ ver'[a].lock = "exclusive" /\ ver'[a].txn = id'[u]
                         \/ ver'[a] = Blank
                         \/ pc'[u] = "check" /\ a = at'[u]
    BY <1>2 DEF Listed
  <2>1. a \in Addr /\ open[u] /\ a \in used /\ open'[u] /\ id'[u] = id[u] /\ pc'[u] = pc[u] /\ at'[u] = at[u]
    BY <1>1, <1>2 DEF InOrder, Listed, Still
  <2>2. CASE Owned(u, a)
    <3>1. ver[a].row \in Claims[u] /\ Held(a)
      BY <2>1, <2>2, HeldIsListed DEF Held, Owned
    <3>2. ver'[a] = ver[a] /\ a \in used'
      BY <2>1, <3>1, OthersRows
    <3> QED BY <2>1, <2>2, <3>2 DEF Owned
  <2>3. CASE ver[a] = Blank
    BY <2>1, <2>3, OthersRows
  <2>4. CASE pc[u] = "check" /\ a = at[u]
    BY <1>5, <2>1, <2>4
  <2> QED BY <1>1, <2>2, <2>3, <2>4 DEF InOrder, Listed, Owned
<1>7. Writing(u)'
  <2> SUFFICES ASSUME pc[u] = "check" PROVE Writing(u)'
    BY <1>1 DEF Writing, Still
  <2>1. op[u] = "update" => new[u] \in Addr /\ new[u] \in Touched(u) /\ new[u] \in used /\ ver[new[u]] = Blank
    BY <1>1, <1>2 DEF InOrder, Writing, Base, LockInv, PushedFirst
  <2>2. op[u] = "update" => ver'[new[u]] = Blank /\ new[u] \in used'
    BY <2>1, OthersRows
  <2> QED BY <1>1, <1>5, <2>2 DEF InOrder, Writing, Still
<1>8. Handled(u)'
  <2> SUFFICES ASSUME pc[u] \in {"callback", "check"}, level[u] \in WriteLevels, ver'[at[u]].row \in Claims[u]
               PROVE  at[u] \in used' /\ Held(at[u])'
    BY <1>1 DEF Handled, Held, Still
  <2>1. Stays(at[u])
    BY <1>3, OthersRows
  <2>2. at[u] \in used /\ Held(at[u]) /\ ver[at[u]].row \in Claims[u]
    BY <1>1, <2>1 DEF InOrder, Handled, Stays, Core
  <2>3. ver'[at[u]] = ver[at[u]] /\ at[u] \in used'
    BY <1>3, <2>2, OthersRows
  <2>4. at'[u] = at[u]
    BY <1>1 DEF Still
  <2> QED BY <2>2, <2>3, <2>4 DEF Held
<1>9. Died(u)'
  <2> SUFFICES ASSUME pc[u] \in Busy, NEW a \in Addr, ver'[a].row \in Claims[u], Dead(ver'[a])
               PROVE  ver'[a].died <= qtime[u]
    BY <1>1 DEF Died, Still
  <2>1. Stays(a)
    BY OthersRows
  <2> QED BY <1>1, <2>1 DEF InOrder, Died, Stays, Core, Dead
<1> QED BY <1>4, <1>6, <1>7, <1>8, <1>9 DEF InOrder

\* The same of the session that moves.  Where it rests, or walks on:
LEMMA IdleInOrder ==
    ASSUME Apart, Base, Rows, Sessions, NEW s \in Session,
           ver' = ver, used' = used, ctx' = ctx, Levelled(s)',
           pc[s] # "check", pc'[s] \notin {"check", "callback"},
           Touched(s) = {} \/ (open'[s] = open[s] /\ id'[s] = id[s]),
           pc'[s] = "scan" => qtime'[s] = clock \/ (pc[s] \in Busy /\ qtime'[s] = qtime[s])
    PROVE  InOrder(s)'
<1>1. InOrder(s) /\ Touched(s)' = Touched(s)
  BY DEF Sessions, Touched
<1>2. Listed(s)'
  BY <1>1 DEF InOrder, Listed
<1>3. Writing(s)' /\ Handled(s)'
  BY DEF Writing, Handled
<1>4. Died(s)'
  <2>1. \A a \in Addr : ver[a].died <= clock
    BY DEF Base, BlocksSound, Sound
  <2> QED BY <1>1, <2>1 DEF InOrder, Died, Busy
<1> QED BY <1>2, <1>3, <1>4 DEF InOrder

\* Where it is handed a row:
LEMMA HandedInOrder ==
    ASSUME Apart, Base, Rows, Sessions, NEW s \in Session, ReadNext(s)
    PROVE  InOrder(s)'
<1>1. InOrder(s) /\ Touched(s)' = Touched(s)
  BY DEF Sessions, Touched, ReadNext
<1>2. /\ ver' = ver /\ used' = used /\ pc[s] = "scan" /\ ~Locking(s) /\ Ahead(s) # {}
      /\ UNCHANGED txnVars /\ Deliver(s, Least(Ahead(s)), Shown(s, Least(Ahead(s))))
  BY DEF ReadNext
<1>3. /\ Ahead(s) \subseteq Nat /\ Ahead(s) \subseteq used /\ used \subseteq Addr
      /\ at \in [Session -> Nat] /\ pc \in [Session -> PC] /\ level[s] \in Level
  BY ConstantsAssumption DEF Ahead, Judged, Base, TypeInv, StoreType, WorkType, ScanType, TxnType
<1>4. PICK a \in Ahead(s) : at'[s] = Shown(s, a) /\ pc'[s] = "callback"
  <2>1. Least(Ahead(s)) \in Ahead(s)
    BY <1>2, <1>3, LeastIsMember
  <2> QED BY <1>2, <1>3, <2>1 DEF Deliver
<1>5. level'[s] = level[s] /\ qtime'[s] = qtime[s] /\ open'[s] = open[s] /\ id'[s] = id[s]
  BY <1>2 DEF txnVars
<1>6. Levelled(s)' /\ Listed(s)' /\ Writing(s)' /\ Died(s)'
  <2>1. Levelled(s)' /\ Writing(s)'
    BY <1>1, <1>4, <1>5 DEF InOrder, Levelled, Writing
  <2>2. Listed(s)'
    BY <1>1, <1>2, <1>5 DEF InOrder, Listed
  <2>3. Died(s)'
    BY <1>1, <1>2, <1>4, <1>5 DEF InOrder, Died, Busy
  <2> QED BY <2>1, <2>2, <2>3
<1>7. Handled(s)'
  <2> SUFFICES ASSUME level[s] \in WriteLevels, ver[Shown(s, a)].row \in Claims[s]
               PROVE  Shown(s, a) \in used /\ Held(Shown(s, a))
    BY <1>2, <1>4, <1>5 DEF Handled, Held
  <2>1. a \in Addr /\ a \in used /\ Shaped(ver[a]) /\ ver[a] \in Control
    BY <1>3 DEF Rows, Shape, Base, TypeInv, StoreType
  <2>2. Shown(s, a) \in Addr
    BY <1>2 DEF Ahead
  <2>3. level[s] \in {"RU", "RC"}
    BY <1>1, <1>2, <1>3 DEF Level, Locking, InOrder, Levelled, Apart
  <2>4. CASE level[s] = "RU"
    <3>1. Shown(s, a) = a /\ ReadUncommitted(ver[a])
      <4>1. Shown(s, a) = IF ReadUncommitted(ver[a]) THEN a ELSE NoAddr
        BY <2>4 DEF Shown
      <4> QED BY <2>2, <4>1, ConstantsAssumption DEF NoAddr
    <3> QED BY <2>1, <3>1 DEF ReadUncommitted, Held, Shaped
  <2>5. CASE level[s] = "RC"
    <3>1. Shown(s, a) = a /\ ReadCommitted(s, ver[a])
      <4>1. Shown(s, a) = IF ReadCommitted(s, ver[a]) THEN a ELSE NoAddr
        BY <2>5 DEF Shown
      <4> QED BY <2>2, <4>1, ConstantsAssumption DEF NoAddr
    <3>2. CASE Mine(s, ver[a]) /\ ver[a].on # "none"
      BY <2>1, <3>1, <3>2 DEF Mine, Shaped, Held
    <3>3. CASE AliveAt(ver[a], SnapshotTime(s))
      <4>1. SnapshotTime(s) = qtime[s]
        BY <1>2 DEF SnapshotTime, Base, Begun, Underway, Busy
      <4>2. Dead(ver[a]) => ver[a].died # 0 /\ ver[a].died <= qtime[s]
        BY <1>1, <1>2, <2>1, <3>1 DEF Base, BlocksSound, Sound, InOrder, Died, Busy
      <4>3. ver[a].off = "inserted"
        BY <2>1, <3>3, <4>1, <4>2 DEF AliveAt, Dead, Control, RowState
      <4> QED BY <2>1, <3>1, <4>3 DEF Held
    <3> QED BY <3>1, <3>2, <3>3 DEF ReadCommitted
  <2> QED BY <2>3, <2>4, <2>5
<1> QED BY <1>6, <1>7 DEF InOrder

\* Where it stages a new row:
LEMMA InsertInOrder ==
    ASSUME Apart, Base, Rows, Sessions, NEW s \in Session, Insert(s)
    PROVE  InOrder(s)'
<1>1. /\ InOrder(s) /\ pc' = pc /\ at' = at /\ pc[s] \in {"ready", "callback"}
      /\ Touched(s) \subseteq Addr
  BY DEF Sessions, Insert, workVars, Touched, Base, TypeInv, StoreType
<1>2. PICK x \in Addr \ used : \E r \in Unnamed(s) :
        /\ used' = used \union {x} /\ Touched(s)' = Touched(s) \union {x}
        /\ Written1(s, x, NoAddr, r)
        /\ \A b \in Addr : b # x => Stays(b)
        /\ open[s] /\ UNCHANGED txnVars
  BY InsertRows
<1>3. level'[s] = level[s] /\ qtime'[s] = qtime[s] /\ open'[s] = open[s] /\ id'[s] = id[s] /\ open[s]
  BY <1>2 DEF txnVars
<1>4. ver'[x].lock = "exclusive" /\ ver'[x].txn = id[s] /\ ver'[x].off = "none"
  BY <1>2, InsertFields DEF Written1
<1>5. Levelled(s)' /\ Writing(s)'
  BY <1>1, <1>3 DEF InOrder, Levelled, Writing
<1>6. Listed(s)'
  <2> SUFFICES ASSUME NEW a \in Touched(s) \union {x}
               PROVE  a \in used' /\ ((ver'[a].lock = "exclusive" /\ ver'[a].txn = id[s]) \/ ver'[a] = Blank)
    BY <1>1, <1>2, <1>3 DEF Listed
  <2>1. CASE a = x
    BY <1>2, <1>4, <2>1
  <2>2. CASE a # x
    <3>1. a \in Addr /\ a \in used /\ Stays(a) /\ (Owned(s, a) \/ ver[a] = Blank)
      BY <1>1, <1>2, <2>2 DEF InOrder, Listed, Owned
    <3> QED BY <1>2, <3>1 DEF Stays, Owned, SettledSuperseded, Blank
  <2> QED BY <2>1, <2>2
<1>7. Handled(s)'
  <2> SUFFICES ASSUME pc[s] = "callback", level[s] \in WriteLevels, ver'[at[s]].row \in Claims[s]
               PROVE  at[s] \in used' /\ Held(at[s])'
    BY <1>1, <1>3 DEF Handled, Held
  <2>1. CASE at[s] = x
    BY <1>1, <1>2, <1>4, <2>1 DEF Held
  <2>2. CASE at[s] # x
    <3>1. at[s] \in Addr /\ Stays(at[s])
      BY <1>2, <2>2 DEF Base, TypeInv, Placed
    <3>2. at[s] \in used /\ Held(at[s])
      BY <1>1, <3>1 DEF InOrder, Handled, Stays, Core
    <3> QED BY <1>1, <1>2, <3>1, <3>2 DEF Held, Stays, Core
  <2> QED BY <2>1, <2>2
<1>8. Died(s)'
  <2> SUFFICES ASSUME pc[s] \in Busy, NEW a \in Addr, ver'[a].row \in Claims[s], Dead(ver'[a])
               PROVE  ver'[a].died <= qtime[s]
    BY <1>1, <1>3 DEF Died
  <2>1. Stays(a)
    BY <1>2, <1>4 DEF Dead
  <2> QED BY <1>1, <2>1 DEF InOrder, Died, Stays, Core, Dead
<1> QED BY <1>5, <1>6, <1>7, <1>8 DEF InOrder

\* Where it goes to check_lock, and comes back:
LEMMA StartInOrder ==
    ASSUME Apart, Base, Rows, Sessions, NEW s \in Session, UpdateStart(s) \/ DeleteStart(s)
    PROVE  /\ InOrder(s)' /\ ver' = ver /\ used \subseteq used'
           /\ \E S \in SUBSET (Addr \ used) : Touched(s)' = Touched(s) \union {at[s]} \union S
           /\ ver[at[s]].row \in Claims[s] /\ at[s] \in Addr /\ Held(at[s])
<1>1. /\ InOrder(s) /\ pc[s] = "callback" /\ ver' = ver /\ at' = at
      /\ level[s] \in WriteLevels /\ ver[at[s]].row \in Claims[s] /\ at[s] \in Addr
      /\ Touched(s) \subseteq Addr
  BY DEF Sessions, UpdateStart, DeleteStart, Handed, Base, TypeInv, Placed, Touched, StoreType
<1>2. open[s] /\ UNCHANGED txnVars
  BY <1>1, StagesFindOpen DEF UpdateStart, DeleteStart, Base, Apart, Busy
<1>3. level'[s] = level[s] /\ qtime'[s] = qtime[s] /\ open'[s] = open[s] /\ id'[s] = id[s]
  BY <1>2 DEF txnVars
<1>4. at[s] \in used /\ Held(at[s])
  BY <1>1 DEF InOrder, Handled
<1>5. /\ pc'[s] = "check" /\ seen'[s] = ver[at[s]] /\ op'[s] \in {"update", "delete"}
  BY DEF UpdateStart, DeleteStart, Base, TypeInv, WorkType, ScanType, StoreType
<1>6. PICK S \in SUBSET (Addr \ used) :
        /\ Touched(s)' = Touched(s) \union {at[s]} \union S /\ used' = used \union S
        /\ op'[s] = "update" => new'[s] \in S
  <2>1. CASE UpdateStart(s)
    <3>1. PICK n \in Addr \ used : used' = used \union {n} /\ new' = [new EXCEPT ![s] = n] /\ Push(s, {at[s], n})
      BY <2>1 DEF UpdateStart
    <3>2. Touched(s)' = Touched(s) \union {at[s], n}
      BY <1>1, <3>1, PushTouches DEF Base
    <3>3. new'[s] \in {n} /\ Touched(s)' = Touched(s) \union {at[s]} \union {n}
      BY <3>1, <3>2 DEF Base, TypeInv, WorkType
    <3> QED BY <3>1, <3>3
  <2>2. CASE DeleteStart(s)
    <3>1. op'[s] = "delete" /\ used' = used /\ Push(s, {at[s]})
      BY <2>2 DEF DeleteStart, Base, TypeInv, WorkType
    <3>2. Touched(s)' = Touched(s) \union {at[s]}
      BY <1>1, <3>1, PushTouches DEF Base
    <3>3. Touched(s)' = Touched(s) \union {at[s]} \union {} /\ used' = used \union {}
      BY <3>1, <3>2
    <3> QED BY <3>1, <3>3
  <2> QED BY <2>1, <2>2
<1>7. \A n \in S : ver[n] = Blank
  BY <1>6 DEF Rows, Shape
<1>8. Levelled(s)'
  BY <1>1, <1>3 DEF InOrder, Levelled
<1>9. Listed(s)'
  <2> SUFFICES ASSUME NEW a \in Touched(s) \union {at[s]} \union S
               PROVE  /\ a \in used'
                      /\ Owned(s, a) \/ ver[a] = Blank \/ a = at[s]
    BY <1>1, <1>2, <1>3, <1>5, <1>6 DEF Listed, Owned
  <2>1. a \in Touched(s) => a \in used /\ (Owned(s, a) \/ ver[a] = Blank)
    BY <1>1 DEF InOrder, Listed, Owned
  <2> QED BY <1>4, <1>6, <1>7, <2>1
<1>10. Writing(s)'
  BY <1>1, <1>3, <1>4, <1>5, <1>6, <1>7 DEF Writing
<1>11. Handled(s)'
  BY <1>1, <1>3, <1>4, <1>6 DEF Handled, Held
<1>12. Died(s)'
  BY <1>1, <1>3 DEF InOrder, Died, Busy
<1> QED BY <1>1, <1>4, <1>6, <1>8, <1>9, <1>10, <1>11, <1>12 DEF InOrder

\* Where its write is granted, or refused without a word:
LEMMA WriteInOrder ==
    ASSUME Apart, Base, Rows, Sessions, NEW s \in Session,
           UpdateGranted(s) \/ DeleteGranted(s) \/ WriteRefused(s)
    PROVE  InOrder(s)' /\ Touched(s)' = Touched(s)
<1>1. /\ Answered(s) /\ used' = used /\ ctx' = ctx /\ at' = at /\ UNCHANGED txnVars
      /\ pc'[s] = "callback" /\ InOrder(s) /\ pc[s] = "check" /\ Touched(s) \subseteq Addr
  BY DEF Sessions, UpdateGranted, DeleteGranted, WriteRefused, Answered, Touched, Base, TypeInv,
         StoreType, ScanType
<1>2. Touched(s)' = Touched(s)
  BY <1>1 DEF Touched
<1>3. /\ level'[s] = level[s] /\ qtime'[s] = qtime[s] /\ open'[s] = open[s] /\ id'[s] = id[s]
  BY <1>1 DEF txnVars
<1>4. at[s] \in Addr /\ at[s] \in used /\ open[s] /\ ver[at[s]].row \in Claims[s]
  BY <1>1, Answers
<1>5. Levelled(s)' /\ Writing(s)'
  BY <1>1, <1>3 DEF InOrder, Levelled, Writing
<1>6. CASE WriteRefused(s)
  <2>1. ver' = ver /\ Owned(s, at[s])
    BY <1>1, <1>6, Answers DEF WriteRefused
  <2>2. Listed(s)'
    BY <1>1, <1>2, <1>3, <2>1 DEF InOrder, Listed, Owned
  <2>3. Handled(s)' /\ Died(s)'
    BY <1>1, <1>3, <2>1 DEF InOrder, Handled, Held, Died, Busy
  <2> QED BY <1>2, <1>5, <2>2, <2>3 DEF InOrder
<1>7. CASE UpdateGranted(s) \/ DeleteGranted(s)
  <2>1. PICK state \in {"updated", "deleted"} :
          /\ Taken(s, at[s], state)
          /\ state = "updated" => Written1(s, new[s], at[s], ver[at[s]].row) /\ op[s] = "update"
          /\ \A a \in Addr : a # at[s] /\ (state = "updated" => a # new[s]) => Stays(a)
    BY <1>7, WriteRows
  <2>2. ver'[at[s]].lock = "exclusive" /\ ver'[at[s]].txn = id[s]
        /\ ver'[at[s]].off = ver[at[s]].off
    BY <2>1 DEF Taken, Core
  <2>3. state = "updated" => /\ ver'[new[s]].lock = "exclusive" /\ ver'[new[s]].txn = id[s]
                             /\ ver'[new[s]].off = "none"
    BY <2>1, InsertFields DEF Written1
  <2>4. Listed(s)'
    <3> SUFFICES ASSUME NEW a \in Touched(s)
                 PROVE  (ver'[a].lock = "exclusive" /\ ver'[a].txn = id[s]) \/ ver'[a] = Blank
      BY <1>1, <1>2, <1>3, <1>4 DEF InOrder, Listed
    <3>1. CASE a = at[s] \/ (state = "updated" /\ a = new[s])
      BY <2>2, <2>3, <3>1
    <3>2. CASE a # at[s] /\ (state = "updated" => a # new[s])
      <4>1. Stays(a) /\ (Owned(s, a) \/ ver[a] = Blank)
        BY <1>1, <2>1, <3>2 DEF InOrder, Listed, Owned
      <4> QED BY <4>1 DEF Stays, Owned, SettledSuperseded, Blank
    <3> QED BY <3>1, <3>2
  <2>5. Handled(s)'
    BY <1>1, <1>4, <2>2 DEF Handled, Held
  <2>6. Died(s)'
    <3> SUFFICES ASSUME NEW a \in Addr, ver'[a].row \in Claims[s], Dead(ver'[a])
                 PROVE  ver'[a].died <= qtime[s]
      BY <1>3 DEF Died
    <3>1. ver[at[s]].off \in {"none", "inserted"}
      BY <1>1, <1>7, Answers DEF UpdateGranted, DeleteGranted
    <3>2. Stays(a)
      BY <2>1, <2>2, <2>3, <3>1 DEF Dead
    <3> QED BY <1>1, <3>2 DEF InOrder, Died, Busy, Stays, Core, Dead
  <2> QED BY <1>2, <1>5, <2>4, <2>5, <2>6 DEF InOrder
<1> QED BY <1>1, <1>6, <1>7

\* Where it ends its transaction, or frees what is dead:
LEMMA EndInOrder ==
    ASSUME Apart, Base, Rows, Sessions, NEW s \in Session, Commit(s) \/ Rollback(s)
    PROVE  InOrder(s)' /\ Touched(s)' = {}
<1>1. InOrder(s) /\ pc'[s] = "ending" /\ ctx'[s] = {} /\ level' = level
  BY DEF Sessions, Commit, Rollback, Base, TypeInv, StoreType, ScanType
<1>2. Touched(s)' = {}
  BY <1>1 DEF Touched
<1> QED BY <1>1, <1>2 DEF InOrder, Levelled, Listed, Writing, Handled, Died, Busy

LEMMA TruncateInOrder ==
    ASSUME Apart, Base, Rows, Sessions, NEW s \in Session, Truncate(s)
    PROVE  InOrder(s)' /\ Touched(s)' = Touched(s)
<1>1. /\ InOrder(s) /\ pc[s] = "ready" /\ pc' = pc /\ ctx' = ctx /\ UNCHANGED txnVars
      /\ used' = used \ DeadRows /\ ver' = [a \in Addr |-> IF a \in DeadRows THEN Blank ELSE ver[a]]
      /\ Touched(s) \subseteq Addr
  BY DEF Sessions, Truncate, Touched, Base, TypeInv, StoreType
<1>2. Touched(s)' = Touched(s)
  BY <1>1 DEF Touched
<1>3. level'[s] = level[s] /\ open'[s] = open[s] /\ id'[s] = id[s]
  BY <1>1 DEF txnVars
<1>4. ASSUME NEW a \in Touched(s) PROVE a \notin DeadRows /\ (Owned(s, a) \/ ver[a] = Blank)
  <2>1. Owned(s, a) \/ ver[a] = Blank
    BY <1>1 DEF InOrder, Listed, Owned
  <2> QED BY <2>1 DEF DeadRows, Owned, Blank, Dead
<1>5. Listed(s)'
  BY <1>1, <1>2, <1>3, <1>4 DEF InOrder, Listed, Owned
<1>6. Levelled(s)' /\ Writing(s)' /\ Handled(s)' /\ Died(s)'
  BY <1>1, <1>3 DEF InOrder, Levelled, Writing, Handled, Died, Busy
<1> QED BY <1>2, <1>5, <1>6 DEF InOrder

LEMMA OwnInOrder ==
    ASSUME Apart, Base, Rows, Sessions, NEW s \in Session, Step(s)
    PROVE  InOrder(s)'
<1>1. InOrder(s) /\ Touched(s) \subseteq Addr
  BY DEF Sessions, Touched, Base, TypeInv, StoreType
<1>2. CASE Begin(s)
  <2>1. /\ ver' = ver /\ used' = used /\ ctx' = ctx /\ pc[s] = "ready" /\ pc'[s] = "ready"
        /\ Touched(s) = {} \/ (open'[s] = open[s] /\ id'[s] = id[s])
    BY <1>1, <1>2 DEF Begin, Continue, InOrder, Listed
  <2>2. Levelled(s)'
    BY <1>2 DEF Begin, Continue, OpenTransaction, Reset, Levelled, MayBe, Base, TypeInv, TxnType
  <2> QED BY <2>1, <2>2, IdleInOrder
<1>3. CASE End(s)
  <2>1. ver' = ver /\ used' = used /\ ctx' = ctx /\ pc[s] = "ending" /\ pc'[s] = "ready"
        /\ open' = open /\ id' = id
    BY <1>3 DEF End, Base, TypeInv, ScanType, StoreType
  <2>2. Levelled(s)'
    BY <1>3 DEF End, Reset, Levelled, MayBe, Base, TypeInv, TxnType
  <2> QED BY <2>1, <2>2, IdleInOrder
<1>4. CASE \E l \in Level : SetLevel(s, l)
  <2>1. ver' = ver /\ used' = used /\ ctx' = ctx /\ pc[s] = "ready" /\ pc'[s] = "ready"
        /\ open' = open /\ id' = id
    BY <1>4 DEF SetLevel
  <2>2. Levelled(s)'
    BY <1>4 DEF SetLevel, Levelled, MayBe, Base, TypeInv, TxnType
  <2> QED BY <2>1, <2>2, IdleInOrder
<1>5. CASE Abandon(s) \/ StmtBegin(s) \/ CallbackReturn(s)
  <2>1. ver' = ver /\ used' = used /\ ctx' = ctx /\ open' = open /\ id' = id /\ level' = level
        /\ pc[s] # "check" /\ pc'[s] \notin {"check", "callback"}
        /\ (pc'[s] = "scan" => qtime'[s] = clock \/ (pc[s] \in Busy /\ qtime'[s] = qtime[s]))
    BY <1>5 DEF Abandon, StmtBegin, CallbackReturn, txnVars, Base, TypeInv, TxnType, ScanType, StoreType, Busy
  <2>2. Levelled(s)'
    BY <1>1, <2>1 DEF InOrder, Levelled
  <2> QED BY <2>1, <2>2, IdleInOrder
<1>6. CASE ScanEnd(s) \/ CallbackStop(s)
  <2>1. ver' = ver /\ used' = used /\ ctx' = ctx /\ StmtOver(s) /\ pc[s] # "check"
    BY <1>6 DEF ScanEnd, CallbackStop
  <2>2. open' = open /\ id' = id /\ level' = level /\ pc'[s] = "ready"
    BY <2>1 DEF StmtOver, Base, TypeInv, ScanType, StoreType
  <2>3. Levelled(s)'
    BY <1>1, <2>2 DEF InOrder, Levelled
  <2> QED BY <2>1, <2>2, <2>3, IdleInOrder
<1> QED BY <1>2, <1>3, <1>4, <1>5, <1>6, NobodyWaits, HandedInOrder, InsertInOrder, StartInOrder,
           WriteInOrder, EndInOrder, TruncateInOrder DEF Step, CheckMoves

\* What a step puts on the session's list is nobody else's.
LEMMA NewOnList ==
    ASSUME Apart, Base, Rows, Sessions, NEW s \in Session, Step(s), NEW a \in Touched(s)'
    PROVE  a \in Touched(s) \/ a \notin used \/ (a \in Addr /\ Held(a) /\ ver[a].row \in Claims[s])
<1>1. CASE Insert(s)
  BY <1>1, InsertRows
<1>2. CASE UpdateStart(s) \/ DeleteStart(s)
  <2>1. /\ \E S \in SUBSET (Addr \ used) : Touched(s)' = Touched(s) \union {at[s]} \union S
        /\ ver[at[s]].row \in Claims[s] /\ at[s] \in Addr /\ Held(at[s])
    BY <1>2, StartInOrder
  <2> QED BY <2>1
<1>3. CASE CheckMoves(s) \/ Reload(s)
  BY <1>3, NobodyWaits, WriteInOrder DEF CheckMoves
<1>4. CASE Commit(s) \/ Rollback(s)
  BY <1>4, EndInOrder
<1>5. CASE Begin(s) \/ End(s) \/ Abandon(s) \/ (\E l \in Level : SetLevel(s, l)) \/ StmtBegin(s)
           \/ ReadNext(s) \/ ScanEnd(s) \/ CallbackReturn(s) \/ CallbackStop(s) \/ Truncate(s)
  <2>1. ctx' = ctx
    BY <1>5 DEF Begin, End, Abandon, SetLevel, StmtBegin, ReadNext, ScanEnd, CallbackReturn,
                CallbackStop, Truncate
  <2> QED BY <2>1 DEF Touched
<1> QED BY <1>1, <1>2, <1>3, <1>4, <1>5, NobodyWaits DEF Step

LEMMA SessionsStep ==
    ASSUME Apart, Base, Base', Rows, Sessions, NEW s \in Session, Step(s)
    PROVE  Sessions'
<1>1. \A u \in Session : InOrder(u)'
  BY OwnInOrder, OthersInOrder
<1>2. ASSUME NEW u \in Session, u # s PROVE Touched(s)' \cap Touched(u)' = {}
  <2>1. Touched(u)' = Touched(u) /\ Touched(u) \subseteq Addr
    BY <1>2, OthersStay DEF Still, Touched, Base, TypeInv, StoreType
  <2> SUFFICES ASSUME NEW a \in Touched(s)', a \in Touched(u) PROVE FALSE
    BY <2>1
  <2>2. a \in Addr /\ a \in used /\ (Owned(u, a) \/ ver[a] = Blank \/ (pc[u] = "check" /\ a = at[u]))
    BY <2>1 DEF Sessions, InOrder, Listed, Owned
  <2>3. a \notin Touched(s)
    BY <1>2 DEF Sessions, ListsApart
  <2>4. Held(a) /\ ver[a].row \in Claims[s]
    BY <2>2, <2>3, NewOnList
  <2>5. ver[a] # Blank
    BY <2>4 DEF Held, Blank
  <2>6. ver[a].row \in Claims[u]
    BY <2>2, <2>5, HeldIsListed DEF Sessions, InOrder, Writing
  <2> QED BY <1>2, <2>4, <2>6 DEF Apart, ClaimsDisjoint
<1>3. ASSUME NEW u \in Session, NEW v \in Session, u # v, u # s, v # s
      PROVE  Touched(u)' \cap Touched(v)' = {}
  <2>1. Touched(u)' = Touched(u) /\ Touched(v)' = Touched(v)
    BY <1>3, OthersStay DEF Still, Touched, Base
  <2> QED BY <1>3, <2>1 DEF Sessions, ListsApart
<1>4. ListsApart'
  <2> SUFFICES ASSUME NEW u \in Session, NEW v \in Session, u # v PROVE Touched(u)' \cap Touched(v)' = {}
    BY DEF ListsApart
  <2> QED BY <1>2, <1>3
<1> QED BY <1>1, <1>4 DEF Sessions

ApartInv == Base /\ Rows /\ Sessions

LEMMA ApartInit ==
    ASSUME Apart, Init
    PROVE  Rows /\ Sessions
<1>1. /\ ver = [a \in Addr |-> IF a \in InitRows THEN Committed(a) ELSE Blank] /\ used = InitRows
      /\ id = [s \in Session |-> 0] /\ open = [s \in Session |-> FALSE] /\ level = [s \in Session |-> Default]
      /\ ctx = [s \in Session |-> {}] /\ pc = [s \in Session |-> "ready"]
  BY DEF Init
<1>2. ASSUME NEW a \in Addr
      PROVE  /\ ver[a].on = "none" /\ ver[a].lock = "none" /\ ver[a].txn = 0
             /\ ver[a].off \in {"none", "inserted"} /\ ver[a].row \in {0, a}
             /\ ver[a].off = "inserted" => ver[a].row = a
             /\ ver[a].off = "none" => ver[a] = Blank /\ ver[a].born = 0 /\ ver[a].row = 0
             /\ ver[a].row # 0 => ver[a].off = "inserted"
             /\ a \notin used => ver[a] = Blank
  <2>1. CASE a \in InitRows
    BY <1>1, <2>1 DEF Committed, Blank
  <2>2. CASE a \notin InitRows
    BY <1>1, <2>2 DEF Blank
  <2> QED BY <2>1, <2>2
<1>3. used \subseteq Addr /\ 0 \notin Addr
  BY <1>1, ConstantsAssumption
<1>4. Shape
  BY <1>2, <1>3 DEF Shape, Shaped
<1>5. OneOfEach
  <2> SUFFICES ASSUME NEW a \in used, NEW b \in used, ver[a].row = ver[b].row, ver[a].row # 0
               PROVE  a = b /\ ver[a].lock = "none"
    BY DEF OneOfEach
  <2> QED BY <1>2, <1>3
<1>6. Replaced /\ Claimed
  BY <1>2 DEF Replaced, Claimed
<1>7. \A s \in Session : Touched(s) = {} /\ pc[s] = "ready" /\ level[s] \in MayBe(s)
  BY <1>1 DEF Touched, MayBe
<1>8. Sessions
  BY <1>7 DEF Sessions, InOrder, Levelled, Listed, Writing, Handled, Died, Busy, ListsApart
<1> QED BY <1>4, <1>5, <1>6, <1>8 DEF Rows

LEMMA ApartStep ==
    ASSUME Apart, ApartInv, [Next]_vars
    PROVE  ApartInv'
<1> USE DEF ApartInv
<1>1. Base'
  BY TypeInvStep, LockInvStep, IdsStep, BegunStep, BlocksSoundStep DEF Base, Apart
<1>2. CASE UNCHANGED vars
  <2>1. UNCHANGED <<ver, used, clock, ctx, pc, op, at, new, seen>> /\ UNCHANGED txnVars
    BY <1>2 DEF vars, workVars
  <2>2. UNCHANGED <<id, open, qtime, qid, level>>
    BY <2>1 DEF txnVars
  <2>3. Rows'
    BY <2>1, <2>2 DEF Rows, Shape, OneOfEach, Replaced, Claimed
  <2>4. \A s \in Session : Touched(s)' = Touched(s)
    BY <2>1 DEF Touched
  <2>5. Sessions'
    BY <2>1, <2>2, <2>4 DEF Sessions, ListsApart, InOrder, Levelled, Listed, Writing, Handled, Held, Died
  <2> QED BY <1>1, <2>3, <2>5
<1>3. ASSUME NEW s \in Session, Step(s) PROVE Rows' /\ Sessions'
  BY <1>1, <1>3, RowsStep, SessionsStep
<1> QED BY <1>1, <1>2, <1>3 DEF Next, Done

LEMMA AlwaysApart ==
    ASSUME Apart
    PROVE  Spec => []ApartInv
<1>1. Init => ApartInv
  <2> SUFFICES ASSUME Init PROVE ApartInv
    OBVIOUS
  <2>1. Begun
    BY DEF Init, Begun, Underway, Busy
  <2>2. TypeInv /\ BlocksSound /\ LockInv /\ Ids
    BY TypeInvInit, BlocksSoundInit, HistoryInit DEF History
  <2> QED BY <2>1, <2>2, ApartInit DEF ApartInv, Base
<1>2. ApartInv /\ [Next]_vars => ApartInv'
  BY ApartStep
<1> QED BY <1>1, <1>2, PTL DEF Spec

\* No step but a commit makes a version current, or settles or changes a superseded one.
LEMMA SettledStay ==
    ASSUME Apart, ApartInv, NEW s \in Session, Step(s), ~Commit(s), NEW a \in Addr
    PROVE  /\ SettledSuperseded(ver'[a]) => ver'[a] = ver[a]
           /\ ver'[a].off = "inserted" =>
                ver[a].off = "inserted" /\ ver'[a].ref = ver[a].ref /\ ver'[a].row = ver[a].row
<1> USE DEF ApartInv
<1> SUFFICES ASSUME ver'[a] # ver[a]
             PROVE  /\ ~SettledSuperseded(ver'[a])
                    /\ ver'[a].off = "inserted" =>
                         ver[a].off = "inserted" /\ ver'[a].ref = ver[a].ref /\ ver'[a].row = ver[a].row
  OBVIOUS
<1>1. ver[a] \in Control /\ seen[s] \in Control /\ TypeInv /\ ver \in [Addr -> Control] /\ Shaped(ver[a])
  BY DEF Base, TypeInv, StoreType, WorkType, Rows, Shape
<1>2. Changes(s, a)
  BY <1>1, RowStep
<1>3. ~Settles(s, a) /\ ~Marks(s, a)
  BY NobodyWaits DEF Settles, Marks
<1>4. CASE Undoes(s, a)
  <2>1. ver'[a] = RolledBack(ver[a], clock + 1) /\ a \in Touched(s) /\ ver[a].txn = id[s] /\ open[s]
    BY <1>4, NobodyWaits DEF Undoes, Rollback
  <2>2. Owned(s, a)
    BY <2>1, HeldIsListed
  <2>3. ver[a].off \in {"none", "inserted"}
    BY <1>1, <2>2 DEF Owned, Shaped
  <2> QED BY <1>1, <2>1, <2>3, RolledBackFields DEF SettledSuperseded, Base, TypeInv, StoreType
<1>5. CASE Adds(s, a) \/ Replaces(s, a)
  <2>1. ver'[a].off = "none"
    BY <1>5, InsertFields DEF Adds, Replaces
  <2> QED BY <2>1 DEF SettledSuperseded
<1>6. CASE Takes(s, a)
  <2>1. UpdateGranted(s) \/ DeleteGranted(s)
    BY <1>6 DEF Takes
  <2>2. ~Replaces(s, a) => a = at[s]
    BY <1>6 DEF Takes
  <2>3. PICK state \in {"updated", "deleted"} :
          /\ Taken(s, at[s], state)
          /\ state = "updated" => Written1(s, new[s], at[s], ver[at[s]].row) /\ op[s] = "update"
          /\ \A b \in Addr : b # at[s] /\ (state = "updated" => b # new[s]) => Stays(b)
    BY <2>1, WriteRows
  <2>4. a = at[s]
    BY <1>6 DEF Takes
  <2> QED BY <2>3, <2>4 DEF Taken, Core, SettledSuperseded
<1>7. CASE Frees(s, a)
  BY <1>7 DEF Frees, SettledSuperseded, Blank
<1> QED BY <1>2, <1>3, <1>4, <1>5, <1>6, <1>7 DEF Changes

LEMMA StampsStay ==
    ASSUME Apart, ApartInv, ApartInv', StampsReach, NEW s \in Session, Step(s), ~Commit(s)
    PROVE  StampsReach'
<1> SUFFICES ASSUME NEW b \in Addr, NEW p \in Addr, b \in used', p \in used', ver'[b].off = "inserted",
                    p = ver'[b].ref, SettledSuperseded(ver'[p]), ver'[p].row = ver'[b].row
             PROVE  b # p /\ ver'[p].qid = b
  <2>1. used' \subseteq Addr
    BY DEF ApartInv, Base, TypeInv, StoreType
  <2> QED BY <2>1 DEF StampsReach, Current, Hop
<1>1. /\ ver'[p] = ver[p] /\ ver[b].off = "inserted" /\ ver'[b].ref = ver[b].ref
      /\ ver'[b].row = ver[b].row
  BY SettledStay
<1>2. p \in used /\ b \in used
  BY <1>1 DEF ApartInv, Rows, Shape, SettledSuperseded, Blank
<1>3. Hop(p, b)
  BY <1>1, <1>2 DEF StampsReach, Current
<1> QED BY <1>1, <1>3 DEF Hop

LEMMA StampsCommit ==
    ASSUME Apart, ApartInv, ApartInv', StampsReach, NEW s \in Session, Commit(s)
    PROVE  StampsReach'
<1> USE DEF ApartInv
<1> SUFFICES ASSUME NEW b \in Addr, NEW p \in Addr, b \in used', p \in used', ver'[b].off = "inserted",
                    p = ver'[b].ref, SettledSuperseded(ver'[p]), ver'[p].row = ver'[b].row
             PROVE  b # p /\ ver'[p].qid = b
  <2>1. used' \subseteq Addr
    BY DEF Base, TypeInv, StoreType
  <2> QED BY <2>1 DEF StampsReach, Current, Hop
<1>1. /\ used' = used /\ ver[b] \in Control /\ ver[p] \in Control /\ Shaped(ver[b]) /\ Shaped(ver[p])
      /\ pc[s] = "ready" /\ open[s] /\ clock + 1 \in Nat /\ p # NoAddr
  BY ConstantsAssumption DEF Commit, Base, TypeInv, StoreType, Rows, Shape, NoAddr
<1>2. \A a \in Addr : (Owned(s, a) => Settled(a)) /\ (~Owned(s, a) => Stays(a))
  BY CommitRows
<1>3. ver'[b].ref = ver[b].ref /\ ver'[b].row = ver[b].row /\ ver'[p].row = ver[p].row
  BY <1>2 DEF Settled, Cleared, Stays, Core
<1>4. b # p
  BY DEF SettledSuperseded
<1>5. ver[b].row # 0 /\ ver[p].row = ver[b].row
  BY <1>3 DEF Rows, Shape, Shaped
<1> DEFINE after == FlippedBy(s, clock + 1)
<1>6. ASSUME NEW a \in Successor(after, s, p), ctx[s] # {}
      PROVE  a \in Addr /\ Owned(s, a) /\ ver[a].on = "inserted" /\ ver[a].ref = p
  <2>1. a \in Addr /\ a \in Touched(s) /\ after[a].off = "inserted" /\ after[a].ref = p /\ after[a].on = "none"
    BY <1>6 DEF Successor, Touched, Base, TypeInv, StoreType
  <2>2. Owned(s, a) \/ ver[a] = Blank
    BY <1>1, <2>1, HeldIsListed
  <2>3. Owned(s, a) => after[a] = Flip(ver[a], clock + 1)
    BY <2>1 DEF FlippedBy, Owned
  <2>4. after[a] = Flip(ver[a], clock + 1) \/ after[a] = ver[a]
    BY <2>1 DEF FlippedBy
  <2>5. ver[a] \in Control /\ Shaped(ver[a])
    BY <2>1 DEF Base, TypeInv, StoreType, Rows, Shape
  <2> HIDE DEF after
  <2>6. ver[a] # Blank
    <3>1. Flip(Blank, clock + 1).off = "none" /\ Blank.off = "none"
      BY DEF Flip, Unstaged, Staged, Blank
    <3> QED BY <2>1, <2>4, <3>1
  <2>7. ver[a].on = "inserted" /\ ver[a].ref = p
    BY <1>1, <2>1, <2>2, <2>3, <2>5, <2>6, FlipFields DEF Owned, Shaped, Control, RowState
  <2> QED BY <2>1, <2>2, <2>6, <2>7
<1>7. CASE Owned(s, p)
  <2>1. ver[p].on = "updated"
    BY <1>2, <1>7 DEF Settled, SettledSuperseded
  <2>2. Owned(s, b) /\ ver[b].on = "inserted"
    <3>1. b \in used /\ p \in used
      BY <1>1
    <3>2. ASSUME ver[b].off = "inserted" PROVE FALSE
      <4>1. ver[b].lock = "exclusive"
        BY <1>5, <1>7, <3>1, <3>2 DEF Rows, OneOfEach, Owned
      <4>2. Owned(s, b)
        BY <1>5, <1>7, <4>1, OneHolder DEF Owned
      <4>3. ver'[b].off = ver[b].on
        BY <1>2, <4>2 DEF Settled
      <4> QED BY <1>1, <3>2, <4>3 DEF Shaped
    <3>3. Owned(s, b)
      BY <1>2, <3>2 DEF Stays, Core
    <3> QED BY <1>2, <3>3 DEF Settled
  <2>3. ctx[s] # {}
    BY <1>7, HeldIsListed DEF Touched
  <2>4. b \in Successor(after, s, p)
    <3>1. b \in Touched(s) /\ after[b] = Flip(ver[b], clock + 1)
      BY <2>2, HeldIsListed DEF FlippedBy, Owned
    <3>2. after[b].on = "none" /\ after[b].off = "inserted" /\ after[b].txn = 0 /\ after[b].ref = p
      BY <1>1, <1>3, <2>2, <3>1, FlipFields
    <3> QED BY <3>1, <3>2 DEF Successor
  <2>5. ASSUME NEW a \in Successor(after, s, p) PROVE a = b
    <3>1. a \in Addr /\ Owned(s, a) /\ ver[a].on = "inserted" /\ ver[a].ref = p
      BY <1>6, <2>3, <2>5
    <3>2. ver[p].row = ver[a].row /\ a \in used
      BY <1>1, <3>1, HeldIsListed DEF Rows, Replaced
    <3> QED BY <1>1, <1>5, <2>2, <3>1, <3>2 DEF Rows, OneOfEach
  <2>6. after[p] = Flip(ver[p], clock + 1)
    BY <1>7, HeldIsListed DEF FlippedBy, Owned
  <2>7. SettledSuperseded(after[p]) /\ after[p] \in Control
    <3> HIDE DEF after
    <3>1. Flip(ver[p], clock + 1) \in Control
      BY <1>1, SettlingTypes
    <3>2. SettledSuperseded(Flip(ver[p], clock + 1))
      BY <1>1, <2>1, FlipFields DEF SettledSuperseded
    <3> QED BY <2>6, <3>1, <3>2
  <2>8. ver' = StampedBy(s, after)
    BY <2>3 DEF Commit
  <2> DEFINE S == Successor(after, s, p)
  <2>9. (CHOOSE a \in S : TRUE) = b
    <3>1. (CHOOSE a \in S : TRUE) \in S
      BY <2>4
    <3> QED BY <2>5, <3>1
  <2>10. ver'[p] = [after[p] EXCEPT !.qid = CHOOSE a \in S : TRUE]
    BY <1>1, <2>4, <2>7, <2>8 DEF StampedBy
  <2> HIDE DEF after, S
  <2> QED BY <1>4, <2>7, <2>9, <2>10 DEF Control
<1>8. CASE ~Owned(s, p)
  <2>1. SettledSuperseded(ver[p])
    BY <1>2, <1>8 DEF Stays, Core, SettledSuperseded
  <2>2. \A a \in Addr : ver[a].on = "inserted" => ver[a].ref # p
    BY <1>1, <2>1 DEF Rows, Replaced, SettledSuperseded
  <2>3. ver[b].off = "inserted"
    <3>1. Owned(s, b) => FALSE
      BY <1>2, <1>3, <2>2 DEF Settled
    <3> QED BY <1>2, <3>1 DEF Stays, Core
  <2>4. Hop(p, b)
    BY <1>1, <1>3, <1>5, <2>1, <2>3 DEF StampsReach, Current
  <2>5. ver'[p] = ver[p]
    <3>1. CASE ctx[s] = {}
      BY <3>1 DEF Commit
    <3>2. CASE ctx[s] # {}
      <4>1. Successor(after, s, p) = {}
        BY <1>6, <2>2, <3>2
      <4>2. after[p] = ver[p]
        BY <1>1, <1>8, HeldIsListed DEF FlippedBy
      <4>3. ver' = StampedBy(s, after)
        BY <3>2 DEF Commit
      <4> HIDE DEF after
      <4> QED BY <4>1, <4>2, <4>3 DEF StampedBy
    <3> QED BY <3>1, <3>2
  <2> QED BY <1>4, <2>4, <2>5 DEF Hop
<1> QED BY <1>7, <1>8

\* The newest version is reachable from the settled version it replaced: no later flip
\* erases the stamp ("only then the successor stamps, a SECOND pass"), where the
\* sessions write apart.
THEOREM StampsAlwaysReach ==
    ASSUME Apart
    PROVE  Spec => []StampsReach
<1>1. Init => StampsReach
  <2> SUFFICES ASSUME Init, NEW b \in Current PROVE ver[b].ref \notin used
    BY DEF StampsReach
  <2>1. ver[b].ref = 0
    BY ConstantsAssumption DEF Init, Current, Committed, Blank, NoAddr
  <2> QED BY <2>1, ConstantsAssumption DEF Init
<1>2. ApartInv /\ ApartInv' /\ StampsReach /\ [Next]_vars => StampsReach'
  <2> SUFFICES ASSUME ApartInv, ApartInv', StampsReach, [Next]_vars PROVE StampsReach'
    OBVIOUS
  <2>1. CASE UNCHANGED vars
    BY <2>1 DEF vars, StampsReach, Current, Hop
  <2>2. CASE \E s \in Session : Step(s)
    BY <2>2, StampsStay, StampsCommit
  <2> QED BY <2>1, <2>2 DEF Next, Done
<1> QED BY <1>1, <1>2, AlwaysApart, PTL DEF Spec

-----------------------------------------------------------------------------
(* A statement's instant                                                   *)

\* What becomes of a version in one step, where the sessions write apart.
LEMMA Outcome ==
    ASSUME Apart, ApartInv, NEW s \in Session, Step(s), NEW a \in Addr
    PROVE  \/ Stays(a)
           \/ Commit(s) /\ Owned(s, a) /\ a \in used /\ Settled(a)
           \/ Rollback(s) /\ Owned(s, a) /\ a \in used /\ Undone(a)
           \/ /\ pc[s] = "check" /\ a = at[s] /\ a \in used /\ (Owned(s, a) \/ ver[a].lock = "none")
              /\ \E state \in {"updated", "deleted"} : Taken(s, a, state)
           \/ open[s] /\ ver[a] = Blank /\ \E p, r : Written1(s, a, p, r)
           \/ Truncate(s) /\ ver'[a] = Blank
<1> USE DEF ApartInv
<1>1. CASE Commit(s)
  BY <1>1, CommitRows, HeldIsListed
<1>2. CASE Rollback(s)
  BY <1>2, RollbackRows, HeldIsListed
<1>3. CASE Insert(s)
  <2>1. PICK x \in Addr \ used : \E r \in Unnamed(s) :
          /\ used' = used \union {x} /\ Touched(s)' = Touched(s) \union {x}
          /\ Written1(s, x, NoAddr, r)
          /\ \A b \in Addr : b # x => Stays(b)
          /\ open[s] /\ UNCHANGED txnVars
    BY <1>3, InsertRows
  <2>2. ver[x] = Blank
    BY <2>1 DEF Rows, Shape
  <2> QED BY <2>1, <2>2
<1>4. CASE UpdateGranted(s) \/ DeleteGranted(s)
  <2>1. Answered(s) /\ MayRead(s)
    BY <1>4 DEF UpdateGranted, DeleteGranted
  <2>2. at[s] \in used /\ (Owned(s, at[s]) \/ ver[at[s]].lock = "none") /\ open[s] /\ pc[s] = "check"
        /\ (op[s] = "update" => ver[new[s]] = Blank)
    BY <2>1, Answers
  <2> QED BY <1>4, <2>2, WriteRows
<1>5. CASE Truncate(s)
  BY <1>5 DEF Truncate, Stays, Core
<1>6. CASE ~Truncate(s) /\ ~Commit(s) /\ ~Rollback(s) /\ ~Insert(s) /\ ~UpdateGranted(s) /\ ~DeleteGranted(s)
  <2>1. ver' = ver
    BY <1>6, OtherRows
  <2> QED BY <2>1 DEF Stays, Core
<1> QED BY <1>1, <1>2, <1>3, <1>4, <1>5, <1>6

\* A statement at READ COMMITTED finds readable only what it found readable before.
LEMMA ReadBefore ==
    ASSUME Apart, ApartInv, NEW s \in Session, Step(s), NEW u \in Session, pc[u] \in Busy,
           qtime'[u] = qtime[u], qid'[u] = qid[u], id'[u] = id[u], clock' \in Nat,
           NEW a \in Addr, ReadCommitted(u, ver[a])'
    PROVE  a \in used /\ ReadCommitted(u, ver[a])
<1> USE DEF ApartInv
<1>1. /\ qtime[u] \in Nat /\ qtime[u] # 0 /\ qtime[u] <= clock /\ clock \in Nat /\ open[u] /\ id[u] # 0
      /\ Shaped(ver[a]) /\ ver[a] \in Control
  BY DEF Base, TypeInv, StoreType, TxnType, Begun, Underway, Ids, Rows, Shape
<1>2. SnapshotTime(u) = qtime[u] /\ SnapshotTime(u)' = qtime[u]
  BY <1>1 DEF SnapshotTime
<1> DEFINE c == ver'[a]
           MineNow == c.lock # "none" /\ c.txn = id[u]
<1>3. /\ MineNow /\ c.on # "none" => c.on = "inserted" /\ c.qid # qid[u]
      /\ ~(MineNow /\ c.on # "none") => AliveAt(c, qtime[u])
  BY <1>1, <1>2 DEF ReadCommitted, Mine, FromThisQuery
<1>4. /\ Mine(u, ver[a]) /\ ver[a].on = "inserted" /\ ver[a].qid # qid[u] => ReadCommitted(u, ver[a])
      /\ ~Mine(u, ver[a]) /\ AliveAt(ver[a], qtime[u]) => ReadCommitted(u, ver[a])
      /\ ver[a].on = "none" /\ AliveAt(ver[a], qtime[u]) => ReadCommitted(u, ver[a])
  BY <1>2 DEF ReadCommitted, FromThisQuery
<1>5. Core(a) => (AliveAt(c, qtime[u]) <=> AliveAt(ver[a], qtime[u]))
  BY DEF Core, AliveAt, Dead
<1>6. ~AliveAt(Blank, qtime[u]) /\ Blank.lock = "none"
  BY DEF AliveAt, Blank
<1>7. Owned(s, a) /\ u # s => ~Mine(u, ver[a])
  BY <1>1 DEF Owned, Mine, Base, Ids
<1>8. CASE Stays(a)
  <2>1. a \in used
    <3>1. ver[a] # Blank
      BY <1>3, <1>6, <1>8 DEF Stays, SettledSuperseded, Blank
    <3> QED BY <3>1 DEF Rows, Shape
  <2>2. CASE Mine(u, ver[a]) /\ ver[a].on # "none"
    <3>1. c = ver[a] /\ MineNow
      BY <1>8, <2>2 DEF Stays, Mine, SettledSuperseded
    <3> QED BY <1>3, <1>4, <2>1, <2>2, <3>1
  <2>3. CASE ~(Mine(u, ver[a]) /\ ver[a].on # "none")
    <3>1. ~(MineNow /\ c.on # "none") /\ Core(a)
      BY <1>8, <2>3 DEF Stays, Mine
    <3> QED BY <1>3, <1>4, <1>5, <2>1, <2>3, <3>1
  <2> QED BY <2>2, <2>3
<1>9. CASE Commit(s) /\ Owned(s, a) /\ a \in used /\ Settled(a)
  <2>1. pc[s] = "ready" /\ u # s /\ c.on = "none"
    BY <1>9 DEF Commit, Busy, Settled, Cleared
  <2>2. AliveAt(c, qtime[u])
    BY <1>3, <2>1
  <2>3. ver[a].on # "inserted" /\ ver[a].on \in {"updated", "deleted"}
    BY <1>1, <1>9, <2>2 DEF Settled, AliveAt, Owned, Shaped, Control, RowState
  <2>4. c.born = ver[a].born /\ Dead(c) /\ c.born # 0
    BY <1>9, <2>2, <2>3 DEF Settled, Dead, AliveAt
  <2>5. ver[a].off = "inserted"
    BY <1>1, <1>9, <2>4 DEF Owned, Shaped
  <2>6. AliveAt(ver[a], qtime[u])
    BY <2>2, <2>4, <2>5 DEF AliveAt, Dead
  <2> QED BY <1>4, <1>7, <1>9, <2>1, <2>6
<1>10. CASE Rollback(s) /\ Owned(s, a) /\ a \in used /\ Undone(a)
  <2>1. pc[s] = "ready" /\ u # s /\ c.on = "none"
    BY <1>10 DEF Rollback, Busy, Undone, Cleared
  <2>2. AliveAt(c, qtime[u])
    BY <1>3, <2>1
  <2>3. Core(a)
    BY <1>1, <1>10, <2>2 DEF Undone, AliveAt
  <2> QED BY <1>4, <1>5, <1>7, <1>10, <2>1, <2>2, <2>3
<1>11. CASE /\ pc[s] = "check" /\ a = at[s] /\ a \in used /\ (Owned(s, a) \/ ver[a].lock = "none")
            /\ \E state \in {"updated", "deleted"} : Taken(s, a, state)
  <2>1. c.on \in {"updated", "deleted"} /\ c.lock = "exclusive" /\ c.txn = id[s] /\ Core(a)
    BY <1>11 DEF Taken
  <2>2. ~MineNow
    BY <1>3, <2>1
  <2>3. u # s
    BY <2>1, <2>2
  <2> QED BY <1>3, <1>4, <1>5, <1>7, <1>11, <2>1, <2>2, <2>3 DEF Mine
<1>12. CASE open[s] /\ ver[a] = Blank /\ \E p, r : Written1(s, a, p, r)
  <2>1. c.on = "inserted" /\ c.lock = "exclusive" /\ c.txn = id[s] /\ c.off = "none" /\ c.qid = qid[s]
    BY <1>12, InsertFields DEF Written1
  <2>2. ~AliveAt(c, qtime[u])
    BY <2>1 DEF AliveAt
  <2>3. MineNow /\ c.qid # qid[u]
    BY <1>3, <2>2
  <2>4. id[s] = id[u] /\ u # s
    BY <2>1, <2>3
  <2> QED BY <1>1, <2>4 DEF Base, Ids
<1>13. CASE Truncate(s) /\ ver'[a] = Blank
  BY <1>3, <1>6, <1>13
<1> QED BY <1>8, <1>9, <1>10, <1>11, <1>12, <1>13, Outcome

\* A session in a statement began it, or goes on with it.
LEMMA WalkingOn ==
    ASSUME Apart, ApartInv, NEW s \in Session, Step(s), pc'[s] \in Busy
    PROVE  \/ StmtBegin(s)
           \/ /\ pc[s] \in Busy /\ level'[s] = level[s] /\ qtime'[s] = qtime[s] /\ qid'[s] = qid[s]
              /\ id'[s] = id[s] /\ due'[s] = due[s]
              /\ \/ ReadNext(s)
                 \/ /\ at'[s] = at[s] /\ got'[s] = got[s] /\ pos'[s] = pos[s]
                    /\ pc'[s] # "scan" => pc[s] # "scan"
<1> USE DEF ApartInv, Base
<1>1. TypeInv /\ pc \in [Session -> PC] /\ due \in [Session -> SUBSET Addr] /\ at \in [Session -> Nat]
  BY DEF TypeInv, StoreType, ScanType, WorkType
<1>2. UNCHANGED txnVars => level'[s] = level[s] /\ qtime'[s] = qtime[s] /\ qid'[s] = qid[s] /\ id'[s] = id[s]
  BY DEF txnVars
<1>3. CASE Begin(s) \/ Commit(s) \/ Rollback(s) \/ End(s) \/ Abandon(s) \/ (\E l \in Level : SetLevel(s, l))
           \/ Truncate(s)
  BY <1>1, <1>3 DEF Begin, Commit, Rollback, End, Abandon, SetLevel, Truncate, Busy
<1>4. CASE ScanEnd(s) \/ CallbackStop(s)
  BY <1>1, <1>4 DEF ScanEnd, CallbackStop, StmtOver, Busy
<1>5. CASE ReadNext(s) \/ CallbackReturn(s)
  <2>1. UNCHANGED txnVars /\ due' = due /\ pc[s] \in Busy
        /\ (CallbackReturn(s) => at' = at /\ got' = got /\ pos' = pos /\ pc'[s] = "scan")
    BY <1>1, <1>5 DEF ReadNext, CallbackReturn, scanVars, workVars, Busy
  <2> QED BY <1>2, <1>5, <2>1
<1>6. CASE Insert(s)
  <2>1. StageNeedsTransaction(s) /\ MayStage(s) /\ pc' = pc /\ due' = due /\ at' = at
        /\ got' = got /\ pos' = pos
    BY <1>6 DEF Insert, scanVars, workVars
  <2>2. UNCHANGED txnVars
    BY <2>1, StagesFindOpen DEF Apart
  <2> QED BY <1>2, <2>1, <2>2
<1>7. CASE UpdateStart(s) \/ DeleteStart(s)
  <2>1. StageNeedsTransaction(s) /\ pc[s] = "callback" /\ pc[s] \in Busy /\ due' = due /\ at' = at
        /\ got' = got /\ pos' = pos
    BY <1>7 DEF UpdateStart, DeleteStart, Handed, scanVars, Busy
  <2>2. UNCHANGED txnVars
    BY <2>1, StagesFindOpen DEF Apart
  <2> QED BY <1>2, <2>1, <2>2
<1>8. CASE UpdateGranted(s) \/ DeleteGranted(s) \/ WriteRefused(s)
  <2>1. UNCHANGED txnVars /\ due' = due /\ at' = at /\ pc[s] = "check" /\ pc[s] \in Busy
        /\ got' = got /\ pos' = pos
    BY <1>8 DEF UpdateGranted, DeleteGranted, WriteRefused, Answered, scanVars, Busy
  <2> QED BY <1>2, <2>1
<1> QED BY <1>3, <1>4, <1>5, <1>6, <1>7, <1>8, NobodyWaits DEF Step, CheckMoves

\* what a statement at READ COMMITTED can read it is due to deliver, and what it has
\* delivered it was
AsDue(s) ==
    pc[s] \in Busy /\ level[s] = "RC" =>
        /\ \A a \in used : ReadCommitted(s, ver[a]) => a \in due[s]
        /\ pc[s] # "scan" => at[s] \in due[s]

LEMMA AsDueStep ==
    ASSUME Apart, ApartInv, ApartInv', NEW s \in Session, Step(s), NEW u \in Session, AsDue(u)
    PROVE  AsDue(u)'
<1> USE DEF ApartInv
<1> SUFFICES ASSUME pc'[u] \in Busy, level'[u] = "RC"
             PROVE  /\ \A a \in used' : ReadCommitted(u, ver[a])' => a \in due'[u]
                    /\ pc'[u] # "scan" => at'[u] \in due'[u]
  BY DEF AsDue
<1>1. used' \subseteq Addr /\ used \subseteq Addr /\ clock' \in Nat /\ clock \in Nat
  BY DEF Base, TypeInv, StoreType
<1>2. CASE pc[u] \in Busy /\ level'[u] = level[u] /\ qtime'[u] = qtime[u] /\ qid'[u] = qid[u]
           /\ id'[u] = id[u] /\ due'[u] = due[u]
  <2>1. \A a \in used' : ReadCommitted(u, ver[a])' => a \in due'[u]
    BY <1>1, <1>2, ReadBefore DEF AsDue
  <2>2. at'[u] = at[u] /\ (pc'[u] # "scan" => pc[u] # "scan") => (pc'[u] # "scan" => at'[u] \in due'[u])
    BY <1>2 DEF AsDue
  <2>3. u # s => at'[u] = at[u] /\ pc'[u] = pc[u]
    BY OthersStay DEF Still, Base
  <2>4. ASSUME ReadNext(s), u = s PROVE at'[u] \in due'[u]
    <3>1. Ahead(s) # {} /\ Deliver(s, Least(Ahead(s)), Shown(s, Least(Ahead(s)))) /\ ~Locking(s)
      BY <2>4 DEF ReadNext
    <3>2. Ahead(s) \subseteq Nat /\ Ahead(s) \subseteq used
      BY ConstantsAssumption DEF Ahead, Judged, Base, TypeInv, StoreType
    <3>3. Least(Ahead(s)) \in Ahead(s)
      BY <3>1, <3>2, LeastIsMember
    <3>4. PICK a \in Ahead(s) : at'[s] = Shown(s, a)
      BY <3>1, <3>3 DEF Deliver, Base, TypeInv, WorkType
    <3>5. Shown(s, a) \in Addr /\ a \in used
      BY <3>1, <3>2 DEF Ahead
    <3>6. Shown(s, a) = IF ReadCommitted(s, ver[a]) THEN a ELSE NoAddr
      BY <1>2, <2>4 DEF Shown
    <3>7. Shown(s, a) = a /\ ReadCommitted(s, ver[a])
      BY <3>5, <3>6, ConstantsAssumption DEF NoAddr
    <3> QED BY <1>2, <2>4, <3>4, <3>5, <3>7 DEF AsDue
  <2>5. u = s => ReadNext(s) \/ (at'[s] = at[s] /\ (pc'[s] # "scan" => pc[s] # "scan")) \/ StmtBegin(s)
    BY WalkingOn
  <2>6. ~(u = s /\ StmtBegin(s))
    BY <1>2 DEF StmtBegin, Busy
  <2> QED BY <2>1, <2>2, <2>3, <2>4, <2>5, <2>6
<1>3. CASE u = s /\ StmtBegin(s)
  <2>1. /\ used' = used /\ ver' = ver /\ qtime'[s] = clock /\ id' = id /\ level' = level /\ clock' = clock
        /\ due'[s] = Due(s) /\ pc'[s] = "scan"
    BY <1>3 DEF StmtBegin, Base, TypeInv, TxnType, ScanType, StoreType
  <2>2. clock # 0
    BY DEF Base, Begun
  <2>3. ASSUME NEW a \in used, ReadCommitted(s, ver[a])' PROVE a \in due'[s]
    <3>1. SnapshotTime(s)' = clock
      BY <2>1, <2>2 DEF SnapshotTime
    <3>2. ver[a] \in Control /\ Sound(ver[a], clock) /\ a \in Addr
      BY <1>1 DEF Base, TypeInv, StoreType, BlocksSound
    <3>3. Mine(s, ver[a]) /\ ver[a].on # "none" => ver[a].on = "inserted"
      BY <2>1, <2>3 DEF ReadCommitted, Mine
    <3>4. ~(Mine(s, ver[a]) /\ ver[a].on # "none") => AliveAt(ver[a], clock)
      BY <2>1, <2>3, <3>1 DEF ReadCommitted, Mine
    <3>5. AliveAt(ver[a], clock) => ver[a].off = "inserted"
      BY <3>2 DEF AliveAt, Dead, Sound, Control, RowState
    <3>6. a \notin Superseding(s) /\ (a \in Current \/ a \in Adding(s))
      BY <3>3, <3>4, <3>5 DEF Superseding, Adding, Current
    <3>7. level[s] = "RC"
      BY <1>3, <2>1
    <3> QED BY <2>1, <3>6, <3>7 DEF Due
  <2> QED BY <1>3, <2>1, <2>3
<1>4. u # s => pc[u] \in Busy /\ level'[u] = level[u] /\ qtime'[u] = qtime[u] /\ qid'[u] = qid[u]
           /\ id'[u] = id[u] /\ due'[u] = due[u]
  BY OthersStay DEF Still, Base
<1> QED BY <1>2, <1>3, <1>4, WalkingOn

AllAsDue == \A s \in Session : AsDue(s)

LEMMA AlwaysAsDue ==
    ASSUME Apart
    PROVE  Spec => [](ApartInv /\ AllAsDue)
<1>1. Init => AllAsDue
  BY DEF Init, AllAsDue, AsDue, Busy
<1>2. ApartInv /\ ApartInv' /\ AllAsDue /\ [Next]_vars => AllAsDue'
  <2> SUFFICES ASSUME ApartInv, ApartInv', AllAsDue, [Next]_vars PROVE AllAsDue'
    OBVIOUS
  <2> USE DEF AllAsDue
  <2>1. CASE UNCHANGED vars
    BY <2>1 DEF vars, txnVars, scanVars, workVars, AsDue, ReadCommitted, Mine, FromThisQuery, SnapshotTime
  <2>2. CASE \E s \in Session : Step(s)
    BY <2>2, AsDueStep
  <2> QED BY <2>1, <2>2 DEF Next, Done
<1> QED BY <1>1, <1>2, AlwaysApart, PTL DEF Spec

\* Every statement reads against one instant of the version clock: what READ COMMITTED
\* hands to a callback was current when the statement began, or is the transaction's
\* own work, where the sessions write apart.
THEOREM WhatIsDeliveredIsDue ==
    ASSUME Apart
    PROVE  Spec => []DeliveredIsDue
<1>1. AllAsDue => DeliveredIsDue
  BY DEF AllAsDue, AsDue, DeliveredIsDue, Busy
<1> QED BY <1>1, AlwaysAsDue, PTL

-----------------------------------------------------------------------------
(* A walk over a table where nothing is truncated                          *)

\* And what a statement could read it can still read, but for the row that it replaces
\* or removes itself.
LEMMA ReadStill ==
    ASSUME Apart, Truncators = {}, ApartInv, NEW s \in Session, Step(s), NEW u \in Session,
           pc[u] \in Busy, qtime'[u] = qtime[u], qid'[u] = qid[u], id'[u] = id[u], clock' \in Nat,
           NEW a \in used, ReadCommitted(u, ver[a]),
           ~(u = s /\ pc[s] = "check" /\ a = at[s])
    PROVE  a \in used' /\ ReadCommitted(u, ver[a])'
<1> USE DEF ApartInv
<1>1. /\ qtime[u] \in Nat /\ qtime[u] # 0 /\ qtime[u] <= clock /\ clock \in Nat /\ open[u] /\ id[u] # 0
      /\ a \in Addr /\ Shaped(ver[a]) /\ ver[a] \in Control
  BY DEF Base, TypeInv, StoreType, TxnType, Begun, Underway, Ids, Rows, Shape
<1>2. SnapshotTime(u) = qtime[u] /\ SnapshotTime(u)' = qtime[u]
  BY <1>1 DEF SnapshotTime
<1>3. a \in used'
  <2>1. CASE Commit(s) \/ Rollback(s) \/ Insert(s) \/ UpdateGranted(s) \/ DeleteGranted(s)
    BY <2>1 DEF Commit, Rollback, Insert, UpdateGranted, DeleteGranted
  <2>2. ~Truncate(s)
    BY DEF Truncate
  <2> QED BY <2>1, <2>2, OtherRows
<1> DEFINE c == ver'[a]
           MineNow == c.lock # "none" /\ c.txn = id[u]
<1>4. /\ MineNow /\ c.on = "inserted" /\ c.qid # qid[u] => ReadCommitted(u, ver[a])'
      /\ ~(MineNow /\ c.on # "none") /\ AliveAt(c, qtime[u]) => ReadCommitted(u, ver[a])'
  BY <1>1, <1>2 DEF ReadCommitted, Mine, FromThisQuery
<1>5. /\ Mine(u, ver[a]) /\ ver[a].on # "none" => ver[a].on = "inserted" /\ ver[a].qid # qid[u]
      /\ ~(Mine(u, ver[a]) /\ ver[a].on # "none") => AliveAt(ver[a], qtime[u])
  BY <1>1, <1>2 DEF ReadCommitted, FromThisQuery
<1>6. Core(a) => (AliveAt(c, qtime[u]) <=> AliveAt(ver[a], qtime[u]))
  BY DEF Core, AliveAt, Dead
<1>7. Owned(s, a) /\ u # s => ~Mine(u, ver[a])
  BY <1>1 DEF Owned, Mine, Base, Ids
<1>8. CASE Stays(a)
  <2>1. CASE Mine(u, ver[a]) /\ ver[a].on # "none"
    <3>1. c = ver[a]
      BY <1>8, <2>1 DEF Stays, Mine, SettledSuperseded
    <3> QED BY <1>3, <1>4, <1>5, <2>1, <3>1 DEF Mine
  <2>2. CASE ~(Mine(u, ver[a]) /\ ver[a].on # "none")
    <3>1. ~(MineNow /\ c.on # "none") /\ Core(a)
      BY <1>8, <2>2 DEF Stays, Mine
    <3> QED BY <1>3, <1>4, <1>5, <1>6, <2>2, <3>1
  <2> QED BY <2>1, <2>2
<1>9. CASE Commit(s) /\ Owned(s, a) /\ a \in used /\ Settled(a)
  <2>1. pc[s] = "ready" /\ u # s /\ c.on = "none" /\ clock' = clock + 1
    BY <1>9 DEF Commit, Busy, Settled, Cleared
  <2>2. AliveAt(ver[a], qtime[u])
    BY <1>5, <1>7, <1>9, <2>1
  <2>3. ver[a].off = "inserted" /\ ver[a].on \in {"updated", "deleted"}
    BY <1>1, <1>9, <2>2 DEF AliveAt, Owned, Shaped, Control, RowState
  <2>4. c.born = ver[a].born /\ c.died = clock + 1 /\ c.off \in {"updated", "deleted"}
    BY <1>9, <2>3 DEF Settled
  <2>5. ver[a].born # 0
    BY <1>1, <2>3 DEF Base, BlocksSound, Sound
  <2>6. AliveAt(c, qtime[u])
    BY <1>1, <2>2, <2>4, <2>5 DEF AliveAt, Dead
  <2> QED BY <1>3, <1>4, <2>1, <2>6
<1>10. CASE Rollback(s) /\ Owned(s, a) /\ a \in used /\ Undone(a)
  <2>1. pc[s] = "ready" /\ u # s /\ c.on = "none"
    BY <1>10 DEF Rollback, Busy, Undone, Cleared
  <2>2. AliveAt(ver[a], qtime[u])
    BY <1>5, <1>7, <1>10, <2>1
  <2>3. Core(a)
    BY <1>10, <2>2 DEF Undone, AliveAt
  <2> QED BY <1>3, <1>4, <1>6, <2>1, <2>2, <2>3
<1>11. CASE /\ pc[s] = "check" /\ a = at[s] /\ a \in used /\ (Owned(s, a) \/ ver[a].lock = "none")
            /\ \E state \in {"updated", "deleted"} : Taken(s, a, state)
  <2>1. u # s /\ c.txn = id[s] /\ Core(a)
    BY <1>11 DEF Taken
  <2>2. ~MineNow
    BY <1>1, <2>1 DEF Base, Ids
  <2>3. AliveAt(ver[a], qtime[u])
    BY <1>5, <1>7, <1>11, <2>1 DEF Mine
  <2> QED BY <1>3, <1>4, <1>6, <2>1, <2>2, <2>3
<1>12. CASE ver[a] = Blank
  <2>1. FALSE
    BY <1>5, <1>12 DEF AliveAt, Mine, Blank
  <2> QED BY <2>1
<1>13. CASE Truncate(s)
  BY <1>13 DEF Truncate
<1> QED BY <1>1, <1>8, <1>9, <1>10, <1>11, <1>12, <1>13, Outcome

\* A row keeps its name.
LEMMA NamesStay ==
    ASSUME Apart, Truncators = {}, ApartInv, NEW s \in Session, Step(s), NEW a \in Addr, ver[a].row # 0
    PROVE  ver'[a].row = ver[a].row
<1>1. ver[a] # Blank /\ ~Truncate(s)
  BY DEF Blank, Truncate
<1> QED BY <1>1, Outcome DEF Stays, Settled, Undone, Cleared, Taken, Core

\* a transaction's work carries the number of a statement that it has begun
Numbered(s) ==
    /\ qid[s] >= -nstmt[s]
    /\ \A a \in Addr : Owned(s, a) => ver[a].qid >= -nstmt[s]

AllNumbered == \A s \in Session : Numbered(s)

\* Numbers and query ids go together.
LEMMA Numbers ==
    ASSUME Apart, ApartInv, NEW s \in Session, Step(s), Numbered(s)
    PROVE  /\ nstmt'[s] \in Nat /\ nstmt'[s] >= nstmt[s] /\ qid'[s] >= -nstmt'[s] /\ qid'[s] \in Int
           /\ id'[s] = id[s] \/ (serial' = serial + 1 /\ id'[s] = serial + 1)
<1> USE DEF ApartInv, Base
<1>1. /\ TypeInv /\ qid \in [Session -> Int] /\ nstmt \in [Session -> Nat] /\ qid[s] >= -nstmt[s]
      /\ qid[s] \in Int /\ nstmt[s] \in Nat
  BY DEF TypeInv, TxnType, ScanType, Numbered
<1>2. id'[s] = id[s] \/ (serial' = serial + 1 /\ id'[s] = serial + 1)
  BY <1>1, Beginning
<1> DEFINE Kept1 == nstmt'[s] = nstmt[s] /\ (qid'[s] = qid[s] \/ qid'[s] = 0)
<1>3. Kept1 => nstmt'[s] \in Nat /\ nstmt'[s] >= nstmt[s] /\ qid'[s] >= -nstmt'[s] /\ qid'[s] \in Int
  BY <1>1
<1>4. OpenTransaction(s) \/ Continue(s) => qid'[s] = 0
  BY <1>1 DEF OpenTransaction, Continue, Reset
<1>5. UNCHANGED txnVars => qid'[s] = qid[s]
  BY DEF txnVars
<1>6. StageNeedsTransaction(s) => qid'[s] = qid[s] \/ qid'[s] = 0
  BY <1>4, <1>5 DEF StageNeedsTransaction
<1>7. CASE Begin(s) \/ Insert(s) \/ UpdateStart(s) \/ DeleteStart(s)
  <2>1. Kept1
    BY <1>4, <1>6, <1>7 DEF Begin, Insert, UpdateStart, DeleteStart, scanVars
  <2> QED BY <1>2, <1>3, <2>1
<1>8. CASE Commit(s) \/ Rollback(s) \/ End(s) \/ Abandon(s) \/ (\E l \in Level : SetLevel(s, l))
  <2>1. Kept1
    BY <1>1, <1>8 DEF Commit, Rollback, End, Abandon, SetLevel, Reset, scanVars
  <2> QED BY <1>2, <1>3, <2>1
<1>9. CASE StmtBegin(s)
  <2>1. nstmt'[s] = nstmt[s] + 1 /\ qid'[s] = -(nstmt[s] + 1)
    BY <1>1, <1>9 DEF StmtBegin
  <2> QED BY <1>1, <1>2, <2>1
<1>10. CASE ScanEnd(s) \/ CallbackStop(s)
  <2>1. StmtOver(s)
    BY <1>10 DEF ScanEnd, CallbackStop
  <2>2. Kept1
    BY <1>1, <2>1 DEF StmtOver
  <2> QED BY <1>2, <1>3, <2>2
<1>11. CASE ReadNext(s) \/ CallbackReturn(s) \/ Truncate(s) \/ UpdateGranted(s) \/ DeleteGranted(s)
            \/ WriteRefused(s)
  <2>1. Kept1
    BY <1>5, <1>11 DEF ReadNext, CallbackReturn, Truncate, UpdateGranted, DeleteGranted, WriteRefused, scanVars
  <2> QED BY <1>2, <1>3, <2>1
<1> QED BY <1>7, <1>8, <1>9, <1>10, <1>11, NobodyWaits DEF Step, CheckMoves

LEMMA NumberedStep ==
    ASSUME Apart, ApartInv, ApartInv', NEW s \in Session, Step(s), NEW u \in Session, AllNumbered
    PROVE  Numbered(u)'
<1> USE DEF ApartInv
<1>1. /\ nstmt'[u] \in Nat /\ nstmt[u] \in Nat /\ qid[u] \in Int /\ nstmt'[u] >= nstmt[u]
      /\ qid'[u] >= -nstmt'[u]
      /\ id'[u] = id[u] \/ (u = s /\ serial' = serial + 1 /\ id'[u] = serial + 1)
      /\ Numbered(u)
  <2>1. nstmt[u] \in Nat /\ qid[u] \in Int /\ Numbered(u)
    BY DEF Base, TypeInv, TxnType, ScanType, AllNumbered
  <2>2. CASE u = s
    BY <2>1, <2>2, Numbers
  <2>3. CASE u # s
    <3>1. nstmt'[u] = nstmt[u] /\ qid'[u] = qid[u] /\ id'[u] = id[u]
      BY <2>3, OthersStay DEF Still, Base
    <3> QED BY <2>1, <2>3, <3>1 DEF Numbered
  <2> QED BY <2>2, <2>3
<1> SUFFICES ASSUME NEW a \in Addr, ver'[a].lock = "exclusive", ver'[a].txn = id'[u]
             PROVE  ver'[a].qid >= -nstmt'[u]
  BY <1>1 DEF Numbered, Owned
<1>2. ver[a] \in Control /\ ver'[a] \in Control
  BY DEF Base, TypeInv, StoreType
<1>3. ver[a].qid \in Int
  BY <1>2 DEF Control
<1>4. CASE Stays(a)
  <2>1. ver'[a] = ver[a] /\ ver[a].lock = "exclusive"
    BY <1>4 DEF Stays, SettledSuperseded
  <2>2. id[u] = id'[u]
    <3>1. PICK v \in Session : Owned(v, a)
      BY <2>1, Holder DEF Rows
    <3>2. id[v] <= serial /\ id[v] \in Nat /\ serial \in Nat
      BY DEF Base, Ids, TypeInv, TxnType
    <3> QED BY <1>1, <2>1, <3>1, <3>2 DEF Owned
  <2> QED BY <1>1, <1>3, <2>1, <2>2 DEF Numbered, Owned
<1> DEFINE ByNow == open[s] /\ ver'[a].qid = qid[s] /\ ver'[a].txn = id[s]
<1>5. ASSUME ByNow PROVE ver'[a].qid >= -nstmt'[u]
  <2>1. id[s] # 0 /\ id[s] <= serial /\ id[s] \in Nat /\ serial \in Nat
    BY <1>5 DEF Base, Ids, TypeInv, TxnType
  <2>2. id'[u] = id[u] /\ id[u] = id[s]
    BY <1>1, <1>5, <2>1
  <2>3. u = s
    BY <2>1, <2>2 DEF Base, Ids
  <2> QED BY <1>1, <1>5, <2>3 DEF Numbered
<1>6. (pc[s] = "check" /\ \E state : Taken(s, a, state)) \/ (open[s] /\ \E p, r : Written1(s, a, p, r)) => ByNow
  BY InsertFields DEF Taken, Written1, Base, Begun, Underway, Busy
<1>7. CASE Settled(a) \/ Undone(a) \/ ver'[a] = Blank
  BY <1>7 DEF Settled, Undone, Cleared, Blank
<1> QED BY <1>4, <1>5, <1>6, <1>7, Outcome

\* the rows due are different rows; those delivered are due and behind the cursor, the
\* others can be read and are ahead of it
Walk(s) ==
    pc[s] \in Busy /\ level[s] = "RC" =>
        /\ \A a \in due[s] : ver[a].row # 0
        /\ \A a, b \in due[s] : ver[a].row = ver[b].row => a = b
        /\ got[s] \subseteq due[s] /\ \A a \in got[s] : a <= pos[s]
        /\ \A a \in due[s] \ got[s] : a > pos[s] /\ a \in used /\ ReadCommitted(s, ver[a])
        /\ pc[s] # "scan" => at[s] \in got[s]

AllWalk == \A s \in Session : Walk(s)

\* What READ COMMITTED stops at next: the first row ahead that it can read.
LEMMA NextRow ==
    ASSUME Apart, ApartInv, NEW s \in Session, ReadNext(s), level[s] = "RC"
    PROVE  /\ at'[s] \in used /\ ReadCommitted(s, ver[at'[s]]) /\ pos'[s] = at'[s] /\ at'[s] > pos[s]
           /\ got'[s] = got[s] \union {at'[s]} /\ due'[s] = due[s] /\ ver' = ver /\ used' = used
           /\ \A a \in used : a > pos[s] /\ ReadCommitted(s, ver[a]) => at'[s] <= a
           /\ \A a \in used : ReadCommitted(s, ver[a])' <=> ReadCommitted(s, ver[a])
<1>1. /\ Ahead(s) # {} /\ Deliver(s, Least(Ahead(s)), Shown(s, Least(Ahead(s)))) /\ ~Locking(s)
      /\ due' = due /\ ver' = ver /\ used' = used /\ clock' = clock /\ UNCHANGED txnVars
  BY DEF ReadNext
<1>2. Ahead(s) \subseteq Nat /\ Ahead(s) \subseteq used /\ used \subseteq Addr
  BY ConstantsAssumption DEF Ahead, Judged, ApartInv, Base, TypeInv, StoreType
<1> DEFINE m == Least(Ahead(s))
<1>3. m \in Ahead(s) /\ \A a \in Ahead(s) : m <= a
  BY <1>1, <1>2, LeastIsMember
<1>4. at'[s] = Shown(s, m) /\ pos'[s] = m /\ got'[s] = got[s] \union {Shown(s, m)}
  BY <1>1 DEF Deliver, ApartInv, Base, TypeInv, WorkType, ScanType
<1> HIDE DEF m
<1>5. \A a \in Addr : Shown(s, a) = IF ReadCommitted(s, ver[a]) THEN a ELSE NoAddr
  BY DEF Shown
<1>6. Shown(s, m) = m /\ ReadCommitted(s, ver[m]) /\ m > pos[s] /\ m \in used
  BY <1>1, <1>2, <1>3, <1>5, ConstantsAssumption DEF Ahead, NoAddr
<1>7. ASSUME NEW a \in used, a > pos[s], ReadCommitted(s, ver[a]) PROVE a \in Ahead(s)
  <2>1. Shown(s, a) = a /\ a \in Addr
    BY <1>2, <1>5, <1>7
  <2>2. a \in Judged(s)
    BY <1>7 DEF Judged, ReadCommitted, AliveAt
  <2> QED BY <1>7, <2>1, <2>2 DEF Ahead
<1>8. \A a \in used : ReadCommitted(s, ver[a])' <=> ReadCommitted(s, ver[a])
  BY <1>1 DEF txnVars, ReadCommitted, Mine, FromThisQuery, SnapshotTime
<1> QED BY <1>1, <1>3, <1>4, <1>6, <1>7, <1>8

\* What is due when a statement begins: different rows, which it can read.
LEMMA DueAtFirst ==
    ASSUME Apart, ApartInv, NEW s \in Session, StmtBegin(s), level[s] = "RC", Numbered(s)
    PROVE  /\ \A a \in Due(s) : ver[a].row # 0 /\ a \in used /\ ReadCommitted(s, ver[a])'
           /\ \A a, b \in Due(s) : ver[a].row = ver[b].row => a = b
<1> USE DEF ApartInv
<1>1. /\ ver' = ver /\ qtime'[s] = clock /\ qid'[s] = -(nstmt[s] + 1) /\ id' = id /\ clock' = clock
      /\ clock # 0 /\ clock \in Nat /\ nstmt[s] \in Nat /\ open[s] /\ used \subseteq Addr
      /\ \A a \in Addr : ver[a] \in Control
  BY StagesFindOpen DEF StmtBegin, Base, TypeInv, TxnType, ScanType, StoreType, Begun, Apart
<1>2. SnapshotTime(s)' = clock
  BY <1>1 DEF SnapshotTime
<1>3. ASSUME NEW a \in Due(s)
      PROVE  /\ a \in used /\ a \in Addr /\ a \notin Superseding(s)
             /\ \/ ver[a].off = "inserted"
                \/ ver[a].on = "inserted" /\ Owned(s, a)
             /\ Shaped(ver[a]) /\ ver[a] \in Control /\ Sound(ver[a], clock)
  <2>1. a \in used /\ a \in Addr /\ a \notin Superseding(s) /\ (a \in Current \/ a \in Adding(s))
    BY <1>1, <1>3 DEF Due, Current, Adding
  <2>2. Shaped(ver[a]) /\ ver[a] \in Control /\ Sound(ver[a], clock)
    BY <1>1, <2>1 DEF Rows, Shape, Base, BlocksSound
  <2> QED BY <2>1, <2>2 DEF Current, Adding, Mine, Owned, Shaped
<1>4. ASSUME NEW a \in Due(s) PROVE ver[a].row # 0 /\ a \in used /\ ReadCommitted(s, ver[a])'
  <2>1. ver[a].row # 0 /\ a \in used
    BY <1>3, <1>4 DEF Shaped, Owned
  <2>2. CASE ver[a].on = "inserted" /\ Owned(s, a)
    <3>1. ver[a].qid >= -nstmt[s] /\ ver[a].qid \in Int
      BY <1>3, <1>4, <2>2 DEF Numbered, Control
    <3>2. ver[a].qid # qid'[s]
      BY <1>1, <3>1
    <3> QED BY <1>1, <2>1, <2>2, <3>2 DEF ReadCommitted, Mine, FromThisQuery, Owned
  <2>3. CASE ver[a].off = "inserted"
    <3>1. ~(Mine(s, ver[a]) /\ ver[a].on # "none")
      <4>1. ver[a].on # "inserted"
        BY <1>3, <1>4, <2>3 DEF Shaped
      <4> QED BY <1>3, <1>4, <4>1 DEF Superseding, Control, RowState
    <3>2. AliveAt(ver[a], clock)
      BY <1>1, <1>3, <1>4, <2>3 DEF AliveAt, Dead, Sound, Control
    <3> QED BY <1>1, <1>2, <2>1, <3>1, <3>2 DEF ReadCommitted, Mine
  <2> QED BY <1>3, <1>4, <2>2, <2>3
<1>5. ASSUME NEW a \in Due(s), NEW b \in Due(s), ver[a].row = ver[b].row PROVE a = b
  <2>1. /\ a \in used /\ b \in used /\ a \in Addr /\ b \in Addr /\ ver[a].row # 0
        /\ ver[a].off = "inserted" \/ (ver[a].on = "inserted" /\ Owned(s, a))
        /\ ver[b].off = "inserted" \/ (ver[b].on = "inserted" /\ Owned(s, b))
    BY <1>3, <1>4
  <2>2. ASSUME NEW x \in Due(s), NEW y \in Due(s), ver[x].row = ver[y].row,
               ver[x].off = "inserted", ver[y].on = "inserted", Owned(s, y)
        PROVE  FALSE
    <3>1. x \in used /\ y \in used /\ x \in Addr /\ y \in Addr /\ ver[x].row # 0
      BY <1>3, <1>4, <2>2
    <3>2. ver[x].lock = "exclusive"
      BY <2>2, <3>1 DEF Rows, OneOfEach, Owned
    <3>3. Owned(s, x)
      BY <2>2, <3>1, <3>2, OneHolder
    <3>4. ver[x].on \in {"updated", "deleted"}
      BY <1>3, <2>2, <3>2 DEF Shaped, Control, RowState
    <3> QED BY <1>3, <2>2, <3>1, <3>3, <3>4 DEF Superseding, Mine, Owned
  <2> QED BY <1>5, <2>1, <2>2 DEF Rows, OneOfEach
<1> QED BY <1>4, <1>5

LEMMA WalkOnStep ==
    ASSUME Apart, Truncators = {}, ApartInv, ApartInv', AllAsDue, AllNumbered,
           NEW s \in Session, Step(s), NEW u \in Session, Walk(u)
    PROVE  Walk(u)'
<1> USE DEF ApartInv
<1> SUFFICES ASSUME pc'[u] \in Busy, level'[u] = "RC" PROVE Walk(u)'
  BY DEF Walk
<1>1. /\ clock' \in Nat /\ used \subseteq Addr /\ Addr \subseteq Nat /\ pos[u] \in Nat /\ due[u] \subseteq Addr
      /\ got[u] \subseteq Addr
  BY ConstantsAssumption DEF Base, TypeInv, StoreType, ScanType
<1>2. CASE /\ pc[u] \in Busy /\ level'[u] = level[u] /\ qtime'[u] = qtime[u] /\ qid'[u] = qid[u]
           /\ id'[u] = id[u] /\ due'[u] = due[u] /\ got'[u] = got[u] /\ pos'[u] = pos[u]
           /\ at'[u] = at[u] /\ (pc'[u] # "scan" => pc[u] # "scan")
  <2>1. \A a \in due[u] : ver[a].row # 0
    BY <1>2 DEF Walk
  <2>2. \A a \in due[u] : ver'[a].row = ver[a].row
    BY <1>1, <2>1, NamesStay
  <2>3. ASSUME NEW a \in due[u] \ got[u] PROVE a > pos[u] /\ a \in used' /\ ReadCommitted(u, ver[a])'
    <3>1. a > pos[u] /\ a \in used /\ ReadCommitted(u, ver[a])
      BY <1>2, <2>3 DEF Walk
    <3>2. ~(u = s /\ pc[s] = "check" /\ a = at[s])
      BY <1>2, <2>3 DEF Walk
    <3> QED BY <1>1, <1>2, <3>1, <3>2, ReadStill
  <2>4. \A a, b \in due[u] : ver[a].row = ver[b].row => a = b
    BY <1>2 DEF Walk
  <2>5. \A a, b \in due[u] : ver'[a].row = ver'[b].row => a = b
    BY <2>2, <2>4
  <2>6. got[u] \subseteq due[u] /\ (\A a \in got[u] : a <= pos[u]) /\ (pc[u] # "scan" => at[u] \in got[u])
    BY <1>2 DEF Walk
  <2> QED BY <1>2, <2>1, <2>2, <2>3, <2>5, <2>6 DEF Walk
<1>3. CASE /\ u = s /\ ReadNext(s) /\ pc[u] \in Busy /\ level'[u] = level[u]
  <2>1. /\ at'[s] \in used /\ ReadCommitted(s, ver[at'[s]]) /\ pos'[s] = at'[s] /\ at'[s] > pos[s]
        /\ got'[s] = got[s] \union {at'[s]} /\ due'[s] = due[s] /\ ver' = ver /\ used' = used
        /\ \A a \in used : a > pos[s] /\ ReadCommitted(s, ver[a]) => at'[s] <= a
        /\ \A a \in used : ReadCommitted(s, ver[a])' <=> ReadCommitted(s, ver[a])
    BY <1>3, NextRow
  <2>2. at'[s] \in due[s]
    BY <1>3, <2>1 DEF AllAsDue, AsDue
  <2>3. /\ \A a \in due[s] : ver[a].row # 0
        /\ \A a, b \in due[s] : ver[a].row = ver[b].row => a = b
        /\ got[s] \subseteq due[s] /\ \A a \in got[s] : a <= pos[s]
        /\ \A a \in due[s] \ got[s] : a > pos[s] /\ a \in used /\ ReadCommitted(s, ver[a])
    BY <1>3 DEF Walk
  <2>4. \A a \in got'[s] : a <= pos'[s]
    <3>1. at'[s] \in Nat /\ pos[s] \in Nat /\ got[s] \subseteq Nat
      BY <1>1, <1>3, <2>1
    <3> QED BY <2>1, <2>3, <3>1
  <2>5. ASSUME NEW a \in due[s] \ got'[s] PROVE a > pos'[s] /\ a \in used' /\ ReadCommitted(s, ver[a])'
    <3>1. a > pos[s] /\ a \in used /\ ReadCommitted(s, ver[a]) /\ a # at'[s]
      BY <2>1, <2>3, <2>5
    <3>2. at'[s] \in Nat /\ a \in Nat
      BY <1>1, <2>1, <3>1
    <3>3. a > pos'[s]
      BY <2>1, <3>1, <3>2
    <3> QED BY <2>1, <3>1, <3>3
  <2> QED BY <1>3, <2>1, <2>2, <2>3, <2>4, <2>5 DEF Walk
<1>4. CASE u = s /\ StmtBegin(s)
  <2>1. /\ used' = used /\ ver' = ver /\ due'[s] = Due(s) /\ got'[s] = {} /\ pos'[s] = 0 /\ pc'[s] = "scan"
        /\ level' = level
    BY <1>4 DEF StmtBegin, Base, TypeInv, ScanType, StoreType
  <2>2. /\ \A a \in Due(s) : ver[a].row # 0 /\ a \in used /\ ReadCommitted(s, ver[a])'
        /\ \A a, b \in Due(s) : ver[a].row = ver[b].row => a = b
    BY <1>4, <2>1, DueAtFirst DEF AllNumbered
  <2>3. \A a \in used : a > 0
    <3>1. used \subseteq Addr
      BY <1>1
    <3>2. \A a \in Addr : a > 0
      BY ConstantsAssumption
    <3> QED BY <3>1, <3>2
  <2> QED BY <1>4, <2>1, <2>2, <2>3 DEF Walk
<1>5. u # s => /\ pc[u] \in Busy /\ level'[u] = level[u] /\ qtime'[u] = qtime[u] /\ qid'[u] = qid[u]
               /\ id'[u] = id[u] /\ due'[u] = due[u] /\ got'[u] = got[u] /\ pos'[u] = pos[u]
               /\ at'[u] = at[u] /\ (pc'[u] # "scan" => pc[u] # "scan")
  BY OthersStay DEF Still, Base
<1> QED BY <1>2, <1>3, <1>4, <1>5, WalkingOn

LEMMA AlwaysWalk ==
    ASSUME Apart, Truncators = {}
    PROVE  Spec => [](ApartInv /\ AllAsDue /\ AllWalk)
<1>1. Init => AllNumbered /\ AllWalk
  <2> SUFFICES ASSUME Init PROVE AllNumbered /\ AllWalk
    OBVIOUS
  <2>1. \A a \in Addr : ver[a].lock = "none"
    BY DEF Init, Committed, Blank
  <2> QED BY <2>1 DEF Init, AllNumbered, Numbered, Owned, AllWalk, Walk, Busy
<1>2. ApartInv /\ ApartInv' /\ AllAsDue /\ AllNumbered /\ AllWalk /\ [Next]_vars => AllNumbered' /\ AllWalk'
  <2> SUFFICES ASSUME ApartInv, ApartInv', AllAsDue, AllNumbered, AllWalk, [Next]_vars
               PROVE  AllNumbered' /\ AllWalk'
    OBVIOUS
  <2>1. CASE UNCHANGED vars
    BY <2>1 DEF vars, txnVars, scanVars, workVars, AllNumbered, Numbered, Owned, AllWalk, Walk,
                ReadCommitted, Mine, FromThisQuery, SnapshotTime
  <2>2. ASSUME NEW s \in Session, Step(s), NEW u \in Session PROVE Numbered(u)' /\ Walk(u)'
    BY <2>2, NumberedStep, WalkOnStep DEF AllWalk
  <2> QED BY <2>1, <2>2 DEF Next, Done, AllNumbered, AllWalk
<1> QED BY <1>1, <1>2, AlwaysAsDue, PTL DEF Spec

\* READ COMMITTED hands no row to one statement's callback under two versions, where
\* the sessions write apart and nothing is truncated.
THEOREM NoRowIsReadTwice ==
    ASSUME Apart, Truncators = {}
    PROVE  Spec => NoRowTwice
<1>1. ASSUME ApartInv, AllAsDue, AllWalk, [Next]_vars, NEW s \in Session, Reads(s), level[s] = "RC",
             NEW a \in got[s]
      PROVE  ver[a].row # ver[at'[s]].row
  <2>1. ReadNext(s)
    BY <1>1, Handing DEF Locking, ApartInv, Base
  <2>2. at'[s] \in used /\ ReadCommitted(s, ver[at'[s]]) /\ at'[s] > pos[s]
    BY <1>1, <2>1, NextRow
  <2>3. pc[s] \in Busy
    BY <2>1 DEF ReadNext, Busy
  <2>4. at'[s] \in due[s] /\ a \in due[s] /\ a <= pos[s]
    BY <1>1, <2>2, <2>3 DEF AllAsDue, AsDue, AllWalk, Walk
  <2>5. a # at'[s]
    <3>1. a \in Nat /\ at'[s] \in Nat /\ pos[s] \in Nat
      BY <1>1, <2>4, ConstantsAssumption DEF ApartInv, Base, TypeInv, ScanType
    <3> QED BY <2>2, <2>4, <3>1
  <2> QED BY <1>1, <2>3, <2>4, <2>5 DEF AllWalk, Walk
<1>2. ApartInv /\ AllAsDue /\ AllWalk /\ [Next]_vars =>
        \A s \in Session : Reads(s) /\ level[s] = "RC" => \A a \in got[s] : ver[a].row # ver[at'[s]].row
  BY <1>1
<1> QED BY <1>2, AlwaysWalk, PTL DEF Spec, NoRowTwice

\* The other half, "and never miss": a walk at READ COMMITTED that reaches its end has
\* delivered everything that was due, where the sessions write apart and nothing is
\* truncated.
THEOREM NothingIsSkipped ==
    ASSUME Apart, Truncators = {}
    PROVE  Spec => NothingDueIsSkipped
<1>1. ASSUME ApartInv, AllWalk, NEW s \in Session, ScanEnd(s), level[s] = "RC", NEW a \in due[s], a \notin got[s]
      PROVE  FALSE
  <2>1. pc[s] = "scan" /\ Ahead(s) = {} /\ pc[s] \in Busy
    BY <1>1 DEF ScanEnd, Busy
  <2>2. a > pos[s] /\ a \in used /\ ReadCommitted(s, ver[a]) /\ a \in Addr
    BY <1>1, <2>1 DEF AllWalk, Walk, ApartInv, Base, TypeInv, StoreType
  <2>3. Shown(s, a) = a
    BY <1>1, <2>2 DEF Shown
  <2>4. a \in Judged(s)
    BY <1>1, <2>2 DEF Judged, ReadCommitted, AliveAt
  <2> QED BY <2>1, <2>2, <2>3, <2>4 DEF Ahead
<1>2. ApartInv /\ AllWalk =>
        \A s \in Session : ScanEnd(s) /\ level[s] = "RC" => due[s] \subseteq got[s]
  BY <1>1
<1> QED BY <1>2, AlwaysWalk, PTL DEF Spec, NothingDueIsSkipped

=============================================================================
