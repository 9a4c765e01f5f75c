-------------------------------- MODULE Mvcc --------------------------------
(***************************************************************************)
(* The concurrency control of the MVCCS storage engine                     *)
(* (MVCCS-cicili/mvccs-lib.cicili): row versions and their control blocks, *)
(* transactions and their contexts, the isolation levels, the registry of  *)
(* live transactions, and the operations a session performs on one table.  *)
(*                                                                         *)
(* One step is one hold of the Streams guard.  A reader keeps the guard    *)
(* from one delivered row to the next and gives it back around the         *)
(* callback; check_lock gives it back after EVERY load of the control      *)
(* block, so what it loaded (seen) is decided upon in a later step.        *)
(*                                                                         *)
(* Abstractions.  The table is one page, so a walk visits the addresses in *)
(* order.  Time is counted by the stamps written into rows: init_time and  *)
(* query_time are the value of clock when they are taken, a commit or a    *)
(* rollback stamps clock + 1.  A query id is a negative number, so that it *)
(* never equals an address (both share the field query_id).  Row contents, *)
(* indexes and record sizes are left out; the field row, which the code    *)
(* does not store, names the row a version belongs to.                     *)
(***************************************************************************)
EXTENDS Integers, FiniteSets

CONSTANTS
    Session,     \* the connection threads, each with its own transaction
    Addr,        \* record addresses: positive numbers, visited in order
    InitRows,    \* the addresses that hold a committed row at the start
    Default,     \* default_isolation_level
    Levels,      \* Levels[s]: the levels s may set by hand
    Claims,      \* Claims[s]: the rows s inserts, updates and deletes
    WriteLevels, \* the levels at which sessions update and delete
    Truncators,  \* the sessions that run TRUNCATE
    Abandoners,  \* the sessions that may vanish without ending their work
    BeginsFirst, \* the layer above begins before it stages or isolates
    MaxTxn,      \* bound: transactions begun
    MaxStmt      \* bound: MaxStmt[s] statements of the session s

Level == {"RU", "RC", "RR", "SI", "SER"}

ASSUME ConstantsAssumption ==
    /\ IsFiniteSet(Session)
    /\ Addr \subseteq Nat \ {0}
    /\ InitRows \subseteq Addr
    /\ Default \in Level \ {"SER"}
    /\ Levels \in [Session -> SUBSET Level]
    /\ Claims \in [Session -> SUBSET Addr]
    /\ WriteLevels \subseteq Level
    /\ Truncators \subseteq Session
    /\ Abandoners \subseteq Session
    /\ BeginsFirst \in BOOLEAN
    /\ MaxTxn \in Nat
    /\ MaxStmt \in [Session -> Nat]

VARIABLES
    clock,   \* the version clock: the last stamp written into a row
    serial,  \* txn_id_serial
    live,    \* the registry of live transactions
    slot,    \* serialize_counter
    used,    \* the addresses the allocator has handed out
    ver,     \* ver[a]: the control block at a
    id,      \* id[s]: the transaction's id, 0 before the first begin
    open,    \* open[s]: its record pointer is not null
    init,    \* init[s]: init_time
    qtime,   \* qtime[s]: query_time, 0 outside a statement
    qid,     \* qid[s]: query_id, 0 outside a statement
    level,   \* level[s]: isolation_level
    ctx,     \* ctx[s]: the rows touched, with the statement that did
    nstmt,   \* nstmt[s]: statements begun so far
    pc,      \* pc[s]: what the session is doing
    op,      \* op[s]: what waits in check_lock, "read", "update" or "delete"
    pos,     \* pos[s]: the last address the cursor has judged
    at,      \* at[s]: the row under the callback or under check_lock
    new,     \* new[s]: the address allocated for an update's new version
    seen,    \* seen[s]: the control block check_lock has loaded
    got,     \* got[s]: the rows delivered by the last statement
    due,     \* history: what the last statement is due to deliver
    base     \* history: the versions current when init_time was taken, for
             \* the sessions that may run at SNAPSHOT

txnVars  == <<serial, live, slot, id, open, init, qtime, qid, level, base>>
scanVars == <<pos, got, due, nstmt>>
workVars == <<op, at, new, seen>>
vars     == <<clock, used, ver, ctx, pc, txnVars, scanVars, workVars>>

-----------------------------------------------------------------------------
(* Control blocks                                                          *)

NoAddr == 0   \* a reference_address of -1

RowState == {"none", "inserted", "updated", "deleted"}
RowLock  == {"none", "shared", "exclusive"}

Control == [on : RowState, lock : RowLock, off : RowState, txn : Nat, qid : Int,
            ref : Nat, died : Nat, born : Nat, row : Nat]

\* what control_clear leaves, and what an unwritten control block reads as
Blank == [on |-> "none", lock |-> "none", off |-> "none", txn |-> 0, qid |-> 0,
          ref |-> NoAddr, died |-> 0, born |-> 0, row |-> 0]

Committed(r) == [Blank EXCEPT !.off = "inserted", !.born = 1, !.row = r]

\* a row version staged by the transaction t in its query q
StagedInsert(t, q, prev, r) ==
    [Blank EXCEPT !.on = "inserted", !.lock = "exclusive", !.txn = t, !.qid = q,
                  !.ref = prev, !.row = r]

Staged(c, state, how, t, q) ==
    [c EXCEPT !.on = state, !.lock = how, !.txn = t, !.qid = q]

\* mutant: the address sentinel written into the transaction's field
UnstagedToSentinel(c) == Staged(c, "none", "none", -1, 0)

\* nothing staged, nothing locked
Unstaged(c) == Staged(c, "none", "none", 0, 0)

\* mutants: a commit that forgets the version it replaces, or the shared stamps
FlipForgetsOld(c, t) ==
    Unstaged(IF c.on = "inserted" THEN [c EXCEPT !.off = c.on, !.born = t] ELSE c)

\* commit_pointer: the staged state becomes the committed one
Flip(c, t) ==
    Unstaged(IF c.on = "inserted" THEN [c EXCEPT !.off = c.on, !.born = t]
             ELSE IF c.on \in {"updated", "deleted"} THEN [c EXCEPT !.off = c.on, !.died = t]
             ELSE c)

\* mutant: the death is stamped whether or not the version was ever committed
RolledBackAll(c, t) ==
    Unstaged([c EXCEPT !.off = "deleted", !.died = t])

\* rollback_pointer_apply: a version never committed is born and dies at once
RolledBack(c, t) ==
    Unstaged(IF c.off = "none" THEN [c EXCEPT !.off = "deleted", !.died = t, !.born = t]
             ELSE c)

\* a superseded version nobody is working on: its query_id is a hint
SettledSuperseded(c) ==
    c.on = "none" /\ c.lock = "none" /\ c.off = "updated" /\ c.txn = 0

Touched(s) == {e.addr : e \in ctx[s]}
Current    == {a \in used : ver[a].off = "inserted"}
Mine(s, c) == c.lock # "none" /\ c.txn = id[s]

\* the rows this transaction has removed or replaced, and those it has added
Superseding(s) == {a \in used : Mine(s, ver[a]) /\ ver[a].on \in {"updated", "deleted"}}
Adding(s)      == {a \in used : Mine(s, ver[a]) /\ ver[a].on = "inserted"}

Least(S) == CHOOSE a \in S : \A b \in S : a <= b

-----------------------------------------------------------------------------
(* Visibility                                                              *)

Dead(c) == c.off \in {"updated", "deleted"}

\* mutants: without the birth, without the death, without the unborn shape
AliveUnborn(c, t) ==
    c.off # "none" /\ ~(Dead(c) /\ c.died # 0 /\ c.died <= t)
AliveUndying(c, t) ==
    c.off # "none" /\ ~(c.born = 0 /\ Dead(c)) /\ ~(c.born # 0 /\ c.born > t)
AliveStillborn(c, t) ==
    /\ c.off # "none" /\ ~(c.born # 0 /\ c.born > t)
    /\ ~(Dead(c) /\ c.died # 0 /\ c.died <= t)

AliveAt(c, t) ==
    /\ c.off # "none"
    /\ ~(c.born = 0 /\ Dead(c))
    /\ ~(c.born # 0 /\ c.born > t)
    /\ ~(Dead(c) /\ c.died # 0 /\ c.died <= t)

\* mutant: every row judged at its own instant
SnapshotNow(s) == clock

SnapshotTime(s) == IF qtime[s] # 0 THEN qtime[s] ELSE clock

\* an insert made by the running query, hidden from it
FromThisQuery(s, c) == c.on = "inserted" /\ qtime[s] > 0 /\ qid[s] = c.qid

\* mutant: a row somebody else is working on is passed over
ReadUnlocked(s, c) ==
    IF c.lock # "none" THEN Mine(s, c) /\ c.on = "inserted" ELSE AliveAt(c, SnapshotTime(s))

ReadCommitted(s, c) ==
    IF Mine(s, c) /\ c.on # "none"
    THEN c.on = "inserted" /\ ~FromThisQuery(s, c)
    ELSE AliveAt(c, SnapshotTime(s))

\* READ UNCOMMITTED: the two states in the hexmap and nothing else
ReadUncommitted(c) ==
    \/ c.off = "none" /\ c.on = "inserted"
    \/ c.off = "inserted" /\ c.on = "none"

\* where the SNAPSHOT walk along reference_address ends, and with what answer
OwnWork(s, c)    == c.txn > 0 /\ c.txn = id[s]
InSnapshot(s, c) ==
    \/ c.off \in {"inserted", "updated"} /\ c.born <= init[s]
    \/ c.off = "deleted" /\ c.died > init[s] /\ c.born # 0 /\ c.born <= init[s]

SnapshotWalk(s) ==
    LET walk[a \in Addr] ==
          LET c == ver[a] IN
          IF OwnWork(s, c) THEN IF c.on = "inserted" THEN a ELSE NoAddr
          ELSE IF c.off = "none" THEN NoAddr
          ELSE IF InSnapshot(s, c) THEN a
          ELSE IF c.ref \in Addr THEN walk[c.ref] ELSE NoAddr
    IN walk

\* the versions a level looks at, before it judges them
Judged(s) ==
    {a \in used :
       CASE level[s] \in {"RU", "RC"} -> ver[a].off # "none" \/ ver[a].on # "none"
         [] level[s] \in {"RR", "SER"} ->
              (ver[a].off = "none" /\ ver[a].on # "none") \/ ver[a].off = "inserted"
         [] OTHER -> (ver[a].off = "none" /\ ver[a].on # "none")
                       \/ ver[a].off \in {"inserted", "deleted"}}

\* what a reading level delivers for the record at a; NoAddr if nothing
Shown(s, a) ==
    CASE level[s] = "RU" -> IF ReadUncommitted(ver[a]) THEN a ELSE NoAddr
      [] level[s] = "RC" -> IF ReadCommitted(s, ver[a]) THEN a ELSE NoAddr
      [] OTHER -> SnapshotWalk(s)[a]

-----------------------------------------------------------------------------
(* The transaction's life                                                  *)

\* mutant: the slot is given back whoever holds it
ResetFreesSlot(s) ==
    /\ init'  = [init EXCEPT ![s] = clock]
    /\ base'  = [base EXCEPT ![s] = IF "SI" \in Levels[s] THEN Current ELSE {}]
    /\ qtime' = [qtime EXCEPT ![s] = 0]
    /\ qid'   = [qid EXCEPT ![s] = 0]
    /\ level' = [level EXCEPT ![s] = Default]
    /\ slot'  = 0

\* transaction_reset.  Leaving SERIALIZABLE gives the slot back.
Reset(s) ==
    /\ init'  = [init EXCEPT ![s] = clock]
    /\ base'  = [base EXCEPT ![s] = IF "SI" \in Levels[s] THEN Current ELSE {}]
    /\ qtime' = [qtime EXCEPT ![s] = 0]
    /\ qid'   = [qid EXCEPT ![s] = 0]
    /\ level' = [level EXCEPT ![s] = Default]
    /\ slot'  = IF level[s] = "SER" /\ slot > 0 THEN slot - 1 ELSE slot

\* begin_transaction with no transaction open: a fresh id, registered
OpenTransaction(s) ==
    /\ serial < MaxTxn
    /\ serial' = serial + 1
    /\ id'     = [id EXCEPT ![s] = serial + 1]
    /\ live'   = live \union {serial + 1}
    /\ open'   = [open EXCEPT ![s] = TRUE]
    /\ Reset(s)

\* stage_needs_transaction: the first stage after a commit opens the next one
StageNeedsTransaction(s) ==
    IF open[s] THEN UNCHANGED txnVars ELSE OpenTransaction(s)

\* a connection begins when it opens; later its layer may leave that to the stage
MayStage(s) == open[s] \/ (~BeginsFirst /\ id[s] # 0)

\* mutant: a begin on an open transaction is handed a fresh id
BeginAfresh(s) ==
    /\ pc[s] = "ready"
    /\ OpenTransaction(s)
    /\ UNCHANGED <<clock, used, ver, ctx, pc, scanVars, workVars>>

\* begin_transaction on a thread whose transaction is still open: it keeps its id
\* and its work, and starts again at the default level and at the instant of now
Continue(s) == open[s] /\ Reset(s) /\ UNCHANGED <<serial, id, live, open>>

Begin(s) ==
    /\ pc[s] = "ready"
    /\ (~open[s] /\ OpenTransaction(s)) \/ Continue(s)
    /\ UNCHANGED <<clock, used, ver, ctx, pc, scanVars, workVars>>

\* mutant: SERIALIZABLE is entered without waiting for a turn
SetLevelNoTurn(s, l) ==
    /\ pc[s] = "ready" /\ MayStage(s)
    /\ l \in Levels[s] /\ l # level[s]
    /\ slot'  = IF l = "SER" THEN slot + 1 ELSE slot
    /\ level' = [level EXCEPT ![s] = l]
    /\ UNCHANGED <<clock, used, ver, ctx, pc, scanVars, workVars,
                   serial, live, id, open, init, qtime, qid, base>>

\* set_isolation_level: SERIALIZABLE is a semaphore of one.  A turn that does
\* not come in time raises and leaves everything as it was.
SetLevel(s, l) ==
    /\ pc[s] = "ready" /\ MayStage(s)
    /\ l \in Levels[s] /\ l # level[s]
    /\ LET freed == IF level[s] = "SER" /\ slot > 0 THEN slot - 1 ELSE slot
       IN  /\ l = "SER" => freed = 0
           /\ slot' = IF l = "SER" THEN freed + 1 ELSE freed
    /\ level' = [level EXCEPT ![s] = l]
    /\ UNCHANGED <<clock, used, ver, ctx, pc, scanVars, workVars,
                   serial, live, id, open, init, qtime, qid, base>>

\* mutant: the flip without the question who owns the stage
FlippedAll(s, t) ==
    [a \in Addr |-> IF a \in Touched(s) THEN Flip(ver[a], t) ELSE ver[a]]

\* the versions left settled by a commit of s, and then the successor stamps
FlippedBy(s, t) ==
    [a \in Addr |-> IF a \in Touched(s) /\ ver[a].txn = id[s] THEN Flip(ver[a], t) ELSE ver[a]]

Successor(after, s, p) ==
    {a \in Touched(s) : /\ after[a].on = "none" /\ after[a].off = "inserted"
                        /\ after[a].txn = 0 /\ after[a].ref = p}

\* mutant: one pass, where the flip of a later entry zeroes the stamp
StampedOnce(s, after) ==
    [p \in Addr |->
       IF p \in used \ Touched(s) /\ SettledSuperseded(after[p]) /\ Successor(after, s, p) # {}
       THEN [after[p] EXCEPT !.qid = CHOOSE a \in Successor(after, s, p) : TRUE]
       ELSE after[p]]

StampedBy(s, after) ==
    [p \in Addr |->
       IF p \in used /\ SettledSuperseded(after[p]) /\ Successor(after, s, p) # {}
       THEN [after[p] EXCEPT !.qid = CHOOSE a \in Successor(after, s, p) : TRUE]
       ELSE after[p]]

\* commit_transaction under its one hold of the guard.  A transaction that
\* touched nothing only frees its record.
Commit(s) ==
    /\ pc[s] = "ready" /\ open[s]
    /\ IF ctx[s] = {}
       THEN UNCHANGED <<clock, ver>>
       ELSE /\ clock' = clock + 1
            /\ ver'   = StampedBy(s, FlippedBy(s, clock + 1))
    /\ ctx'  = [ctx EXCEPT ![s] = {}]
    /\ open' = [open EXCEPT ![s] = FALSE]
    /\ pc'   = [pc EXCEPT ![s] = "ending"]
    /\ UNCHANGED <<used, scanVars, workVars, serial, live, slot, id, init, qtime, qid, level, base>>

\* rollback_pointer over a set of rows: only stages s still owns are undone
UndoneBy(s, rows, t) ==
    [a \in Addr |-> IF a \in rows /\ ver[a].txn = id[s] THEN RolledBack(ver[a], t) ELSE ver[a]]

\* a rollback takes a stamp for the versions that were never committed
Stamps(s, rows) ==
    clock' = IF \E a \in rows : ver[a].txn = id[s] /\ ver[a].off = "none"
             THEN clock + 1 ELSE clock

Rollback(s) ==
    /\ pc[s] = "ready" /\ open[s]
    /\ Stamps(s, Touched(s))
    /\ ver'   = UndoneBy(s, Touched(s), clock + 1)
    /\ ctx'   = [ctx EXCEPT ![s] = {}]
    /\ open'  = [open EXCEPT ![s] = FALSE]
    /\ pc'    = [pc EXCEPT ![s] = "ending"]
    /\ UNCHANGED <<used, scanVars, workVars, serial, live, slot, id, init, qtime, qid, level, base>>

\* transaction_retire and transaction_reset, the guard already given back
End(s) ==
    /\ pc[s] = "ending"
    /\ live' = live \ {id[s]}
    /\ Reset(s)
    /\ pc'   = [pc EXCEPT ![s] = "ready"]
    /\ UNCHANGED <<clock, used, ver, ctx, scanVars, workVars, serial, id, open>>

\* a session that vanishes: its id leaves the registry, its stages stay
Abandon(s) ==
    /\ s \in Abandoners /\ pc[s] = "ready" /\ open[s]
    /\ live' = live \ {id[s]}
    /\ pc'   = [pc EXCEPT ![s] = "abandoned"]
    /\ UNCHANGED <<clock, used, ver, ctx, scanVars, workVars, serial, slot, id, open, init,
                   qtime, qid, level, base>>

-----------------------------------------------------------------------------
(* A statement: the cursor's walk over the table                           *)

\* what a statement that begins now is due to deliver
Due(s) ==
    ((IF level[s] = "SI" THEN base[s] ELSE Current) \union Adding(s)) \ Superseding(s)

\* the Statement scope fixes query_time and query_id, before the guard is taken
StmtBegin(s) ==
    /\ pc[s] = "ready" /\ MayStage(s) /\ nstmt[s] < MaxStmt[s]
    /\ nstmt' = [nstmt EXCEPT ![s] = @ + 1]
    /\ qtime' = [qtime EXCEPT ![s] = clock]
    /\ qid'   = [qid EXCEPT ![s] = -(nstmt[s] + 1)]
    /\ due'   = [due EXCEPT ![s] = Due(s)]
    /\ got'   = [got EXCEPT ![s] = {}]
    /\ pos'   = [pos EXCEPT ![s] = 0]
    /\ pc'    = [pc EXCEPT ![s] = "scan"]
    /\ UNCHANGED <<clock, used, ver, ctx, workVars, serial, live, slot, id, open, init, level, base>>

Locking(s) == level[s] \in {"RR", "SER"}

\* the addresses the walk will still stop at
Ahead(s) ==
    {a \in Judged(s) : a > pos[s] /\ (Locking(s) \/ Shown(s, a) \in Addr)}

\* the callback is entered with the version v, met at the address a
Deliver(s, a, v) ==
    /\ pos' = [pos EXCEPT ![s] = a]
    /\ at'  = [at EXCEPT ![s] = v]
    /\ got' = [got EXCEPT ![s] = @ \union {v}]
    /\ pc'  = [pc EXCEPT ![s] = "callback"]

\* a level that reads without writing
ReadNext(s) ==
    /\ pc[s] = "scan" /\ ~Locking(s) /\ Ahead(s) # {}
    /\ LET a == Least(Ahead(s)) IN Deliver(s, a, Shown(s, a))
    /\ UNCHANGED <<clock, used, ver, ctx, txnVars, nstmt, due, op, new, seen>>

Push(s, rows) ==
    ctx' = [ctx EXCEPT ![s] = @ \union {[at |-> nstmt[s], addr |-> a] : a \in rows}]

\* REPEATABLE READ and SERIALIZABLE: an unlocked row is stamped shared
StampNext(s) ==
    /\ pc[s] = "scan" /\ Locking(s) /\ Ahead(s) # {}
    /\ LET a == Least(Ahead(s))
       IN  /\ ver[a].lock = "none"
           /\ StageNeedsTransaction(s)
           /\ ver' = [ver EXCEPT ![a] = Staged(@, "none", "shared", id'[s], qid'[s])]
           /\ Push(s, {a})
           /\ Deliver(s, a, a)
    /\ UNCHANGED <<clock, used, nstmt, due, op, new, seen>>

\* and a locked one is put to check_lock
CheckNext(s) ==
    /\ pc[s] = "scan" /\ Locking(s) /\ Ahead(s) # {}
    /\ LET a == Least(Ahead(s))
       IN  /\ ver[a].lock # "none"
           /\ StageNeedsTransaction(s)
           /\ pos'  = [pos EXCEPT ![s] = a]
           /\ at'   = [at EXCEPT ![s] = a]
           /\ seen' = [seen EXCEPT ![s] = ver[a]]
    /\ op' = [op EXCEPT ![s] = "read"]
    /\ pc' = [pc EXCEPT ![s] = "check"]
    /\ UNCHANGED <<clock, used, ver, ctx, nstmt, got, due, new>>

\* leaving the Statement scope, at the end of the walk or by an exception
StmtOver(s) ==
    /\ qtime' = [qtime EXCEPT ![s] = 0]
    /\ qid'   = [qid EXCEPT ![s] = 0]
    /\ pos'   = [pos EXCEPT ![s] = 0]
    /\ at'    = [at EXCEPT ![s] = NoAddr]
    /\ got'   = [got EXCEPT ![s] = {}]
    /\ due'   = [due EXCEPT ![s] = {}]
    /\ pc'    = [pc EXCEPT ![s] = "ready"]
    /\ UNCHANGED <<nstmt, serial, live, slot, id, open, init, level, base>>

\* leaving check_lock, whose locals are spent
CheckOver(s) ==
    /\ op'   = [op EXCEPT ![s] = "read"]
    /\ new'  = [new EXCEPT ![s] = NoAddr]
    /\ seen' = [seen EXCEPT ![s] = Blank]

\* the walk ends past the last record; a callback that answered false ends it early
ScanEnd(s) ==
    /\ pc[s] = "scan" /\ Ahead(s) = {}
    /\ StmtOver(s)
    /\ UNCHANGED <<clock, used, ver, ctx, op, new, seen>>

CallbackReturn(s) ==
    /\ pc[s] = "callback"
    /\ pc' = [pc EXCEPT ![s] = "scan"]
    /\ UNCHANGED <<clock, used, ver, ctx, txnVars, scanVars, workVars>>

CallbackStop(s) ==
    /\ pc[s] = "callback"
    /\ StmtOver(s)
    /\ UNCHANGED <<clock, used, ver, ctx, op, new, seen>>

-----------------------------------------------------------------------------
(* The staged writes                                                       *)

\* the rows of s that do not exist yet
Unnamed(s) == Claims[s] \ {ver[a].row : a \in used}

\* online_insert, between statements or from a callback
Insert(s) ==
    /\ pc[s] \in {"ready", "callback"} /\ MayStage(s)
    /\ Unnamed(s) # {}
    /\ \E a \in Addr \ used :
         /\ used' = used \union {a}
         /\ StageNeedsTransaction(s)
         /\ Push(s, {a})
         /\ ver' = [ver EXCEPT ![a] =
                       StagedInsert(id'[s], qid'[s], NoAddr, Least(Unnamed(s)))]
    /\ UNCHANGED <<clock, pc, scanVars, workVars>>

Handed(s) ==
    pc[s] = "callback" /\ level[s] \in WriteLevels /\ ver[at[s]].row \in Claims[s]

\* online_update of the row handed to the callback, up to check_lock's load:
\* the new version is allocated and both rows are pushed before the wait
UpdateStart(s) ==
    /\ Handed(s)
    /\ \E n \in Addr \ used :
         /\ used' = used \union {n}
         /\ new'  = [new EXCEPT ![s] = n]
         /\ Push(s, {at[s], n})
    /\ StageNeedsTransaction(s)
    /\ seen' = [seen EXCEPT ![s] = ver[at[s]]]
    /\ op'   = [op EXCEPT ![s] = "update"]
    /\ pc'   = [pc EXCEPT ![s] = "check"]
    /\ UNCHANGED <<clock, ver, scanVars, at>>

DeleteStart(s) ==
    /\ Handed(s)
    /\ Push(s, {at[s]})
    /\ StageNeedsTransaction(s)
    /\ seen' = [seen EXCEPT ![s] = ver[at[s]]]
    /\ op'   = [op EXCEPT ![s] = "delete"]
    /\ pc'   = [pc EXCEPT ![s] = "check"]
    /\ UNCHANGED <<clock, used, ver, scanVars, at, new>>

-----------------------------------------------------------------------------
(* check_lock, deciding on the control block it loaded before it let go    *)

Mask(s) == IF op[s] = "read" THEN {"shared", "exclusive"} ELSE {"exclusive"}

Blocked(s) == seen[s].lock \in Mask(s)
Own(s)     == seen[s].txn = id[s]

\* somebody else's replacement of a row: its predecessor is the row to wait for
InFlightVersion(s) == seen[s].on = "inserted" /\ seen[s].ref # NoAddr

\* only a landed row is readable when nobody holds it
Landed(c) == c.lock # "none" \/ c.on # "none" \/ c.off \in {"inserted", "updated"}

MayRead(s) ==
    IF Blocked(s)
    THEN Own(s) /\ ~FromThisQuery(s, seen[s]) /\ seen[s].on \notin {"updated", "deleted"}
    ELSE Landed(seen[s])

\* the wait is over, with either answer
Answered(s) ==
    pc[s] = "check" /\ (Blocked(s) => Own(s) \/ InFlightVersion(s))

\* a repeatable read whose row changed under it
ChangedUnder(s) ==
    IF MayRead(s) THEN seen[s].born > qtime[s] ELSE seen[s].txn > 0 /\ ~Own(s)

ReadGranted(s) ==
    /\ Answered(s) /\ op[s] = "read" /\ MayRead(s) /\ ~ChangedUnder(s)
    /\ Deliver(s, at[s], at[s])
    /\ CheckOver(s)
    /\ UNCHANGED <<clock, used, ver, ctx, txnVars, nstmt, due>>

ReadSkipped(s) ==
    /\ Answered(s) /\ op[s] = "read" /\ ~MayRead(s) /\ ~ChangedUnder(s)
    /\ pc' = [pc EXCEPT ![s] = "scan"]
    /\ CheckOver(s)
    /\ UNCHANGED <<clock, used, ver, ctx, at, txnVars, scanVars>>

\* rollback_transaction_to(query_time), then the walk starts again; with the
\* instant lost to a begin, everything goes and a new Statement is drawn
Restart(s) ==
    /\ Answered(s) /\ op[s] = "read" /\ ChangedUnder(s)
    /\ LET gone == {e \in ctx[s] : qtime[s] = 0 \/ e.at >= nstmt[s]}
       IN  /\ ver' = UndoneBy(s, {e.addr : e \in gone}, clock + 1)
           /\ ctx' = [ctx EXCEPT ![s] = @ \ gone]
           /\ Stamps(s, {e.addr : e \in gone})
    /\ qtime' = [qtime EXCEPT ![s] = IF @ = 0 THEN clock' ELSE @]
    /\ qid'   = [qid EXCEPT ![s] = -nstmt[s]]
    /\ pos'   = [pos EXCEPT ![s] = 0]
    /\ pc'    = [pc EXCEPT ![s] = "scan"]
    /\ CheckOver(s)
    /\ UNCHANGED <<used, got, due, nstmt, at, serial, live, slot, id, open, init, level, base>>

\* the stage is written from the loaded copy, over whatever is there now
Restage(s, state) ==
    [Staged(seen[s], state, "exclusive", id[s], qid[s]) EXCEPT !.row = ver[at[s]].row]

UpdateGranted(s) ==
    /\ Answered(s) /\ op[s] = "update" /\ MayRead(s)
    /\ ver' = [ver EXCEPT ![at[s]]  = Restage(s, "updated"),
                          ![new[s]] = StagedInsert(id[s], qid[s], at[s], ver[at[s]].row)]
    /\ pc'  = [pc EXCEPT ![s] = "callback"]
    /\ CheckOver(s)
    /\ UNCHANGED <<clock, used, ctx, at, txnVars, scanVars>>

DeleteGranted(s) ==
    /\ Answered(s) /\ op[s] = "delete" /\ MayRead(s)
    /\ ver' = [ver EXCEPT ![at[s]] = Restage(s, "deleted")]
    /\ pc'  = [pc EXCEPT ![s] = "callback"]
    /\ CheckOver(s)
    /\ UNCHANGED <<clock, used, ctx, at, txnVars, scanVars>>

\* a refused write returns without a word; an update's record stays unmarked
WriteRefused(s) ==
    /\ Answered(s) /\ op[s] # "read" /\ ~MayRead(s)
    /\ pc' = [pc EXCEPT ![s] = "callback"]
    /\ CheckOver(s)
    /\ UNCHANGED <<clock, used, ver, ctx, at, txnVars, scanVars>>

Waiting(s) == pc[s] = "check" /\ Blocked(s) /\ ~Own(s) /\ ~InFlightVersion(s)

\* ten milliseconds pass and the control block is loaded again
Reload(s) ==
    /\ Waiting(s) /\ seen[s].txn \in live
    /\ seen' = [seen EXCEPT ![s] = ver[at[s]]]
    /\ UNCHANGED <<clock, used, ver, ctx, pc, txnVars, scanVars, op, at, new>>

\* mutant: a waiter that never asks whether the owner is dead
BreakNever(s) == FALSE /\ UNCHANGED vars

\* a lock whose transaction is dead is rolled back on contact
BreakStale(s) ==
    /\ Waiting(s) /\ seen[s].txn \notin live
    /\ clock' = IF ver[at[s]].off = "none" THEN clock + 1 ELSE clock
    /\ LET c == RolledBack(ver[at[s]], clock + 1)
       IN  /\ ver'  = [ver EXCEPT ![at[s]] = c]
           /\ seen' = [seen EXCEPT ![s] = c]
    /\ UNCHANGED <<used, ctx, pc, txnVars, scanVars, op, at, new>>

\* lock wait timeout: the exception leaves the cursor and its Statement
GiveUp(s) ==
    /\ Waiting(s) /\ seen[s].txn \in live
    /\ StmtOver(s)
    /\ CheckOver(s)
    /\ UNCHANGED <<clock, used, ver, ctx>>

-----------------------------------------------------------------------------
(* TRUNCATE frees every settled dead row                                   *)

DeadRows ==
    {a \in used : Dead(ver[a]) /\ ver[a].on = "none" /\ ver[a].lock = "none"}

Truncate(s) ==
    /\ s \in Truncators /\ pc[s] = "ready" /\ DeadRows # {}
    /\ used' = used \ DeadRows
    /\ ver'  = [a \in Addr |-> IF a \in DeadRows THEN Blank ELSE ver[a]]
    /\ UNCHANGED <<clock, ctx, pc, txnVars, scanVars, workVars>>

-----------------------------------------------------------------------------
Init ==
    /\ clock = 1 /\ serial = 0 /\ live = {} /\ slot = 0
    /\ used  = InitRows
    /\ ver   = [a \in Addr |-> IF a \in InitRows THEN Committed(a) ELSE Blank]
    /\ id    = [s \in Session |-> 0]
    /\ open  = [s \in Session |-> FALSE]
    /\ init  = [s \in Session |-> 0]
    /\ qtime = [s \in Session |-> 0]
    /\ qid   = [s \in Session |-> 0]
    /\ level = [s \in Session |-> Default]
    /\ ctx   = [s \in Session |-> {}]
    /\ nstmt = [s \in Session |-> 0]
    /\ pc    = [s \in Session |-> "ready"]
    /\ op    = [s \in Session |-> "read"]
    /\ pos   = [s \in Session |-> 0]
    /\ at    = [s \in Session |-> NoAddr]
    /\ new   = [s \in Session |-> NoAddr]
    /\ seen  = [s \in Session |-> Blank]
    /\ got   = [s \in Session |-> {}]
    /\ due   = [s \in Session |-> {}]
    /\ base  = [s \in Session |-> {}]

\* check_lock moves on, whatever it finds
CheckMoves(s) ==
    \/ ReadGranted(s) \/ ReadSkipped(s) \/ Restart(s)
    \/ UpdateGranted(s) \/ DeleteGranted(s) \/ WriteRefused(s)
    \/ BreakStale(s) \/ GiveUp(s)

Step(s) ==
    \/ Begin(s) \/ Commit(s) \/ Rollback(s) \/ End(s) \/ Abandon(s)
    \/ \E l \in Level : SetLevel(s, l)
    \/ StmtBegin(s) \/ ReadNext(s) \/ StampNext(s) \/ CheckNext(s) \/ ScanEnd(s)
    \/ CallbackReturn(s) \/ CallbackStop(s)
    \/ Insert(s) \/ UpdateStart(s) \/ DeleteStart(s)
    \/ CheckMoves(s) \/ Reload(s)
    \/ Truncate(s)

\* where the bound on transactions stops a session
Bounded(s) ==
    pc[s] \in {"ready", "abandoned"} \/ (pc[s] = "scan" /\ ~open[s] /\ serial = MaxTxn)

Done == (\A s \in Session : Bounded(s)) /\ UNCHANGED vars

Next == Done \/ \E s \in Session : Step(s)

Spec == Init /\ [][Next]_vars

\* a thread in check_lock keeps running: it sleeps, looks, and counts its wait
FairSpec == Spec /\ \A s \in Session : WF_vars(CheckMoves(s))

-----------------------------------------------------------------------------
(* Properties                                                              *)

PC == {"ready", "scan", "callback", "check", "ending", "abandoned"}

\* Every variable has its type.
TypeOK ==
    /\ clock \in Nat /\ serial \in Nat /\ slot \in Nat
    /\ live \subseteq Nat
    /\ used \subseteq Addr
    /\ ver \in [Addr -> Control]
    /\ id \in [Session -> Nat] /\ open \in [Session -> BOOLEAN]
    /\ init \in [Session -> Nat] /\ qtime \in [Session -> Nat] /\ qid \in [Session -> Int]
    /\ level \in [Session -> Level]
    /\ ctx \in [Session -> SUBSET [at : Nat, addr : Addr]]
    /\ nstmt \in [Session -> Nat] /\ pc \in [Session -> PC]
    /\ op \in [Session -> {"read", "update", "delete"}]
    /\ pos \in [Session -> Nat] /\ at \in [Session -> Nat] /\ new \in [Session -> Nat]
    /\ seen \in [Session -> Control]
    /\ got \in [Session -> SUBSET Addr] /\ due \in [Session -> SUBSET Addr]
    /\ base \in [Session -> SUBSET Addr]

\* "Exactly one version of a row satisfies them for any given time, and never
\* both" (doc/concurrency.md): no two versions of one row are current at once.
OneCurrentVersion ==
    \A a, b \in Current : ver[a].row = ver[b].row => a = b

\* What was committed stays until a commit that meant to replace or remove it:
\* no rollback, breaker, partial rollback or TRUNCATE takes a current version.
CommittedStays ==
    [][\A a \in Current : a \notin Current' =>
         \E s \in Session : Commit(s) /\ a \in Superseding(s)]_vars

\* Every statement reads against one instant of the version clock (the engine's
\* RESPONSIBILITIES): what READ COMMITTED hands to a callback was current when
\* the statement began, or is the transaction's own work.
DeliveredIsDue ==
    \A s \in Session : pc[s] = "callback" /\ level[s] = "RC" => at[s] \in due[s]

\* The same of SNAPSHOT, whose instant is the transaction's begin: it "follows each
\* row back to the version that was current when the transaction began".
SnapshotIsOld ==
    \A s \in Session : pc[s] = "callback" /\ level[s] = "SI" => at[s] \in due[s]

\* The other half, "and never miss": a walk at READ COMMITTED that reaches its
\* end has delivered everything that was due.
NothingDueIsSkipped ==
    [][\A s \in Session : ScanEnd(s) /\ level[s] = "RC" => due[s] \subseteq got[s]]_vars

\* READ COMMITTED hands no row to one statement's callback under two versions.
Reads(s) == pc[s] = "scan" /\ pc'[s] = "callback"

NoRowTwice ==
    [][\A s \in Session : Reads(s) /\ level[s] = "RC" =>
         \A a \in got[s] : ver[a].row # ver[at'[s]].row]_vars

\* A reader that waits for nobody never shows the staged work of others, nor work
\* committed after its instant (query_time, at SNAPSHOT init_time).
NothingFromTheFuture ==
    [][\A s \in Session : Reads(s) /\ level[s] \in {"RC", "SI"} =>
         LET c == ver[at'[s]] IN
         Mine(s, c) \/ (c.off # "none" /\ c.born <= IF level[s] = "SI" THEN init[s]
                                                   ELSE qtime[s])]_vars

\* Nor does READ COMMITTED show a version that never lived: one replaced or
\* rolled back by the transaction that made it was current at no instant.
NothingUnborn ==
    [][\A s \in Session : Reads(s) /\ level[s] = "RC" =>
         LET c == ver[at'[s]] IN
         Mine(s, c) \/ (c.born # 0 /\ (Dead(c) => c.born < c.died))]_vars

\* Every lock on a row belongs to a transaction that has yet to end and that has
\* the row on its list, so that its commit or its rollback will give it back.
LocksHaveOwners ==
    \A a \in Addr : ver[a].lock # "none" =>
        \E s \in Session : open[s] /\ id[s] = ver[a].txn /\ a \in Touched(s)

\* "Only a stage this transaction still owns is its to flip": an exclusive stage
\* changes by a step of the transaction that made it, or by the breaker.
StagedIsLeftAlone ==
    [][\A a \in Addr : ver[a].lock = "exclusive" /\ ver'[a] # ver[a] =>
         \/ \E s \in Session : id[s] = ver[a].txn /\ Step(s)
         \/ \E s \in Session : BreakStale(s)]_vars

\* The SERIALIZABLE slot is taken exactly as long as one transaction is at that
\* level, and there is never more than one.
Serial     == {s \in Session : level[s] = "SER"}
SerialGate ==
    /\ slot = 0 => Serial = {}
    /\ slot # 0 => slot = 1 /\ \E s \in Session : Serial = {s}

\* A level set by hand "applies to the transaction that runs it and no further"
\* (doc/transaction.md), but does not always stand until that transaction ends:
\* begin_transaction sets the default again, on an open transaction too. No run
\* checks it; level.cfg shows the ways it is lost.
LevelLasts ==
    [][\A s \in Session : level'[s] # level[s] => End(s) \/ \E l \in Level : SetLevel(s, l)]_vars

\* A hop that row_latest would follow: the stamp of a settled superseded version,
\* verified by the successor's own reference_address.
Hop(a, b) ==
    b \in used /\ b # a /\ SettledSuperseded(ver[a]) /\ ver[a].qid = b /\ ver[b].ref = a

\* The newest version is reachable from the settled version it replaced: no later
\* flip erases the stamp ("only then the successor stamps, a SECOND pass").
StampsReach ==
    \A b \in Current : LET p == ver[b].ref IN
        p \in used /\ SettledSuperseded(ver[p]) /\ ver[p].row = ver[b].row => Hop(p, b)

\* check_lock is left: by an answer, by breaking a dead lock, or by the timeout.
WaitEnds ==
    \A s \in Session : pc[s] = "check" ~> pc[s] # "check"

=============================================================================
