--------------------------- MODULE CommitRecovery ---------------------------
(***************************************************************************)
(* Durability in the MVCCS storage engine (MVCCS-cicili/mvccs-lib.cicili): *)
(* the order in which begin, the staged writes, commit and rollback write  *)
(* the hexmap file and the data file and sync them, and what startup       *)
(* recovery (_initialize) makes of whatever a crash left there.            *)
(*                                                                         *)
(* An operation is the plan of the writes and syncs it performs under its  *)
(* hold of the Streams guard, carried out one a step, so that a crash can  *)
(* fall between any two.  The mapped file (StreamIO/mapbuf) puts a write   *)
(* in the page cache at once: a kill keeps every write made, a power loss  *)
(* keeps what was synced and whatever else had been written back.          *)
(*                                                                         *)
(* Abstractions.  A kill can cut the dump of a control block after each of *)
(* its bytes and fields, but the kernel writes its hexmap bytes back as    *)
(* one cell and its fields as another; a time is 0 or 1, zero or not; a    *)
(* row is locked by an exclusive stage only; spans, page headers, indexes  *)
(* and the successor stamps are left out, and no address is used twice.    *)
(***************************************************************************)
EXTENDS Integers, Sequences, FiniteSets, SequencesExt

CONSTANTS
    Txn,       \* the transactions, each begun at most once
    Addr,      \* record addresses
    InitRows,  \* the addresses that hold a committed row at the start
    Nobody,    \* the transaction_id 0
    MaxStages, \* bound: staged writes of one transaction
    MaxKills,  \* bound: kills
    MaxLosses  \* bound: power losses

ASSUME RecoveryAssumption ==
    /\ InitRows \subseteq Addr
    /\ Nobody \notin Txn
    /\ MaxStages \in Nat /\ MaxKills \in Nat /\ MaxLosses \in Nat

VARIABLES
    cache,   \* both files as the process sees them
    disk,    \* both files as the disk has them
    job,     \* what the guard's holder has still to do
    ctx,     \* ctx[t]: the transaction's context, oldest first
    phase,   \* phase[t]: how far the transaction has come
    made,    \* history: the versions t added
    gone,    \* history: the versions t removed or replaced
    kills, losses

vars == <<cache, disk, job, ctx, phase, made, gone, kills, losses>>

-----------------------------------------------------------------------------
(* The two files                                                           *)

RowState == {"none", "inserted", "updated", "deleted"}

\* a control block: its bytes in the hexmap, its fields in the data file
Hex  == [on : RowState, locked : BOOLEAN, off : RowState]
Data == [txn : Txn \union {Nobody}, died : 0 .. 1, born : 0 .. 1]

NoHex  == [on |-> "none", locked |-> FALSE, off |-> "none"]
NoData == [txn |-> Nobody, died |-> 0, born |-> 0]

\* a transaction's record: its place in the hexmap, its commit_time in the data
Files == [hex : [Addr -> Hex], data : [Addr -> Data],
          listed : [Txn -> BOOLEAN], intent : [Txn -> 0 .. 1]]

RowAt(files, a) == [hex |-> files.hex[a], data |-> files.data[a]]

\* dump_control
DumpControl(files, a, c) == [files EXCEPT !.hex[a] = c.hex, !.data[a] = c.data]

\* and cut in two: the online byte, the offline byte and then the fields, the
\* transaction, the modify_time and at last the create_time
Cut(b, c) ==
    {[b EXCEPT !.hex.on = c.hex.on, !.hex.locked = c.hex.locked],
     [b EXCEPT !.hex = c.hex],
     [b EXCEPT !.hex = c.hex, !.data.txn = c.data.txn],
     [b EXCEPT !.hex = c.hex, !.data.txn = c.data.txn, !.data.died = c.data.died]}

-----------------------------------------------------------------------------
(* One row                                                                 *)

Settled(c) == [c EXCEPT !.hex.on = "none", !.hex.locked = FALSE, !.data.txn = Nobody]

\* commit_pointer
CommitRow(c) ==
    Settled(IF c.hex.on = "inserted" THEN [c EXCEPT !.hex.off = "inserted", !.data.born = 1]
            ELSE IF c.hex.on = "none" THEN c
            ELSE [c EXCEPT !.hex.off = c.hex.on, !.data.died = 1])

\* rollback_pointer_apply
RollbackRow(c) ==
    Settled(IF c.hex.off = "none"
            THEN [c EXCEPT !.hex.off = "deleted", !.data.died = 1, !.data.born = 1]
            ELSE c)

\* what recovery makes of a locked row: its transaction's record decides
Resolved(files, c) ==
    IF c.data.txn # Nobody /\ files.listed[c.data.txn] /\ files.intent[c.data.txn] > 0
    THEN CommitRow(c)
    ELSE RollbackRow(c)

\* a new version, and one that is replaced or removed
Added(t)           == [hex  |-> [on |-> "inserted", locked |-> TRUE, off |-> "none"],
                       data |-> [NoData EXCEPT !.txn = t]]
Staged(c, state, t) == [c EXCEPT !.hex.on = state, !.hex.locked = TRUE, !.data.txn = t]

\* a settled row as alive_at judges it once every stamp is in the past
Alive(c) ==
    /\ c.hex.off # "none"
    /\ ~(c.data.born = 0 /\ c.hex.off # "inserted")
    /\ ~(c.hex.off # "inserted" /\ c.data.died # 0)

-----------------------------------------------------------------------------
(* Plans: what an operation writes and syncs, in order.  A sync of the     *)
(* disk is the data file first and then the hexmap.                        *)

\* mutant: the control blocks move before the intention is written
CommitFlipsFirst == <<"flip",   "data", "hexmap",
                      "intend", "data", "hexmap",
                      "retire", "data", "hexmap", "acked">>

\* commit_transaction: the intention, the control blocks it licenses, and the
\* intention retired, with a sync after each
CommitPlan == <<"intend", "data", "hexmap",
                "flip",   "data", "hexmap",
                "retire", "data", "hexmap", "acked">>

\* "spent" is the end, either way, of a transaction that touched nothing: it
\* has nothing to make durable
Plan(op) ==
    CASE op = "begin"    -> <<"list", "blank", "opened">>
      [] op = "insert"   -> <<"add">>
      [] op = "update"   -> <<"replace", "add">>
      [] op = "delete"   -> <<"remove">>
      [] op = "commit"   -> CommitPlan
      [] op = "rollback" -> <<"undo", "free", "data", "hexmap", "over">>
      [] op = "spent"    -> <<"free", "over">>
      [] op = "recover"  -> <<"settle", "sweep">>

\* a job: the operation, its next step, the transaction, the rows to visit
Job(op, t, rows) == [op |-> op, at |-> 1, txn |-> t, rows |-> rows]
NoJob == Job("none", Nobody, <<>>)

Idle == job = NoJob

-----------------------------------------------------------------------------
(* The operations take the guard                                           *)

\* begin_transaction writes its record and syncs nothing
Begin(t) ==
    /\ Idle /\ phase[t] = "new"
    /\ job' = Job("begin", t, <<>>)
    /\ UNCHANGED <<cache, disk, ctx, phase, made, gone, kills, losses>>

\* a row check_lock would grant: nobody's and alive, or a version of t's own
Free(t, a) ==
    LET c == RowAt(cache, a)
    IN  IF c.hex.locked THEN c.data.txn = t /\ c.hex.on = "inserted" ELSE Alive(c)

\* an address nobody has used
Fresh(a) == a \notin InitRows /\ \A u \in Txn : a \notin made[u]

Staging(t, op, rows, new, old) ==
    /\ Idle /\ phase[t] = "open" /\ Len(ctx[t]) < MaxStages
    /\ job'  = Job(op, t, rows)
    /\ ctx'  = [ctx EXCEPT ![t] = @ \o rows]
    /\ made' = [made EXCEPT ![t] = @ \union new]
    /\ gone' = [gone EXCEPT ![t] = @ \union old]
    /\ UNCHANGED <<cache, disk, phase, kills, losses>>

Insert(t, n)    == Fresh(n) /\ Staging(t, "insert", <<n>>, {n}, {})
Update(t, a, n) == Free(t, a) /\ Fresh(n) /\ Staging(t, "update", <<a, n>>, {n}, {a})
Delete(t, a)    == Free(t, a) /\ Staging(t, "delete", <<a>>, {}, {a})

\* commit and rollback take the context with them; a rollback goes newest first
End(t, op, rows) ==
    /\ Idle /\ phase[t] = "open"
    /\ job' = Job(IF ctx[t] = <<>> THEN "spent" ELSE op, t, rows)
    /\ ctx' = [ctx EXCEPT ![t] = <<>>]
    /\ UNCHANGED <<cache, disk, phase, made, gone, kills, losses>>

Commit(t)   == End(t, "commit", ctx[t])
Rollback(t) == End(t, "rollback", Reverse(ctx[t]))

-----------------------------------------------------------------------------
(* The steps                                                               *)

At(step) == ~Idle /\ Plan(job.op)[job.at] = step

\* the next step, or the guard given back
Onward(rows) ==
    job' = IF job.at = Len(Plan(job.op)) THEN NoJob
           ELSE [job EXCEPT !.at = @ + 1, !.rows = rows]

\* what a step makes of the row it visits.  Only a stage this transaction
\* still owns is its to settle.
Visited(step, t, c) ==
    CASE step = "add"     -> Added(t)
      [] step = "replace" -> Staged(c, "updated", t)
      [] step = "remove"  -> Staged(c, "deleted", t)
      [] step = "flip"    -> IF c.data.txn = t THEN CommitRow(c) ELSE c
      [] step = "undo"    -> IF c.data.txn = t THEN RollbackRow(c) ELSE c

Visits == {"add", "replace", "remove", "flip", "undo"}

\* one row of the job; a commit and a rollback go on until none is left
Visit(step) ==
    /\ At(step)
    /\ LET a == Head(job.rows)
       IN  cache' = DumpControl(cache, a, Visited(step, job.txn, RowAt(cache, a)))
    /\ LET rest == Tail(job.rows)
       IN  IF step \in {"flip", "undo"} /\ rest # <<>>
           THEN job' = [job EXCEPT !.rows = rest]
           ELSE Onward(rest)
    /\ UNCHANGED <<disk, ctx, phase, made, gone, kills, losses>>

\* the transaction's record is allocated or freed
List(step, value) ==
    /\ At(step)
    /\ cache' = [cache EXCEPT !.listed[job.txn] = value]
    /\ Onward(job.rows)
    /\ UNCHANGED <<disk, ctx, phase, made, gone, kills, losses>>

\* write_transaction of no intention: at the begin, and when it is retired
Blank ==
    /\ At("blank") \/ At("retire")
    /\ cache' = [cache EXCEPT !.intent[job.txn] = 0]
    /\ Onward(job.rows)
    /\ UNCHANGED <<disk, ctx, phase, made, gone, kills, losses>>

\* write_transaction of the intention: the commit point
Intend ==
    /\ At("intend")
    /\ cache' = [cache EXCEPT !.intent[job.txn] = 1]
    /\ phase' = [phase EXCEPT ![job.txn] = "committed"]
    /\ Onward(job.rows)
    /\ UNCHANGED <<disk, ctx, made, gone, kills, losses>>

\* sync_to_disk of either file
SyncData ==
    /\ At("data")
    /\ disk' = [disk EXCEPT !.data = cache.data, !.intent = cache.intent]
    /\ Onward(job.rows)
    /\ UNCHANGED <<cache, ctx, phase, made, gone, kills, losses>>

SyncHexmap ==
    /\ At("hexmap")
    /\ disk' = [disk EXCEPT !.hex = cache.hex, !.listed = cache.listed]
    /\ Onward(job.rows)
    /\ UNCHANGED <<cache, ctx, phase, made, gone, kills, losses>>

\* the call returns, and its caller sees what has become of the transaction
Return(step, now) ==
    /\ At(step)
    /\ phase' = [phase EXCEPT ![job.txn] = now]
    /\ Onward(job.rows)
    /\ UNCHANGED <<cache, disk, ctx, made, gone, kills, losses>>

Do ==
    \/ \E step \in Visits : Visit(step)
    \/ Blank \/ Intend \/ SyncData \/ SyncHexmap
    \/ List("list", TRUE) \/ List("free", FALSE)
    \/ Return("opened", "open") \/ Return("acked", "acked") \/ Return("over", "over")

\* the kernel writes a page back whenever it likes
WriteBack ==
    /\ losses < MaxLosses
    /\ \/ \E a \in Addr : disk' = [disk EXCEPT !.hex[a] = cache.hex[a]]
       \/ \E a \in Addr : disk' = [disk EXCEPT !.data[a] = cache.data[a]]
       \/ \E t \in Txn : disk' = [disk EXCEPT !.listed[t] = cache.listed[t]]
       \/ \E t \in Txn : disk' = [disk EXCEPT !.intent[t] = cache.intent[t]]
    /\ disk' # disk
    /\ UNCHANGED <<cache, job, ctx, phase, made, gone, kills, losses>>

-----------------------------------------------------------------------------
(* Crash and recovery                                                      *)

\* mutant: a row whose transaction left no record is taken for settled
LeftSeenOnly(files) ==
    {a \in Addr : /\ files.hex[a].locked
                  /\ files.data[a].txn # Nobody /\ files.listed[files.data[a].txn]}

\* the rows with an online_lock, which the walk of every page finds, and the
\* transaction records it reads before and frees after
Left(files)    == {a \in Addr : files.hex[a].locked}
Records(files) == {t \in Txn : files.listed[t]}

\* memory_initialize with these files before it.  Nothing is synced.
Recovery(files) ==
    job' = IF Left(files) = {} /\ Records(files) = {} THEN NoJob
           ELSE [Job("recover", Nobody, <<>>) EXCEPT !.at = IF Left(files) # {} THEN 1 ELSE 2]

\* a row left locked is settled the way its transaction's record says
Settle ==
    /\ At("settle")
    /\ \E a \in Left(cache) :
         cache' = DumpControl(cache, a, Resolved(cache, RowAt(cache, a)))
    /\ Recovery(cache')
    /\ UNCHANGED <<disk, ctx, phase, made, gone, kills, losses>>

\* and then every record is freed
Sweep ==
    /\ At("sweep")
    /\ \E t \in Records(cache) : cache' = [cache EXCEPT !.listed[t] = FALSE]
    /\ Recovery(cache')
    /\ UNCHANGED <<disk, ctx, phase, made, gone, kills, losses>>

Restart(files) ==
    /\ cache' = files
    /\ Recovery(files)
    /\ ctx'   = [t \in Txn |-> <<>>]
    /\ phase' = [t \in Txn |-> IF phase[t] = "open" THEN "over" ELSE phase[t]]
    /\ UNCHANGED <<made, gone>>

\* the control block that is being written, and what it is to be
Dumps ==
    {<<Head(job.rows), Visited(step, job.txn, RowAt(cache, Head(job.rows)))>> :
         step \in {v \in Visits : At(v)}}
      \union {<<a, Resolved(cache, RowAt(cache, a))>> : a \in {b \in Left(cache) : At("settle")}}

\* what the process may leave behind: what it has written, a dump cut in two included
Remains ==
    {cache} \union UNION {{DumpControl(cache, d[1], c) : c \in Cut(RowAt(cache, d[1]), d[2])} : d \in Dumps}

\* the process dies and the store is opened again
Kill ==
    /\ kills < MaxKills
    /\ kills' = kills + 1
    /\ \E files \in Remains : Restart(files)
    /\ UNCHANGED <<disk, losses>>

\* the machine dies
PowerLoss ==
    /\ losses < MaxLosses
    /\ losses' = losses + 1
    /\ Restart(disk)
    /\ UNCHANGED <<disk, kills>>

-----------------------------------------------------------------------------
Init ==
    /\ cache = [hex    |-> [a \in Addr |-> IF a \in InitRows THEN [NoHex EXCEPT !.off = "inserted"]
                                                             ELSE NoHex],
                data   |-> [a \in Addr |-> IF a \in InitRows THEN [NoData EXCEPT !.born = 1]
                                                             ELSE NoData],
                listed |-> [t \in Txn |-> FALSE],
                intent |-> [t \in Txn |-> 0]]
    /\ disk = cache
    /\ job = NoJob
    /\ ctx   = [t \in Txn |-> <<>>]
    /\ phase = [t \in Txn |-> "new"]
    /\ made  = [t \in Txn |-> {}]
    /\ gone  = [t \in Txn |-> {}]
    /\ kills = 0 /\ losses = 0

\* the bound on transactions reached
Done == Idle /\ (\A t \in Txn : phase[t] \notin {"new", "open"}) /\ UNCHANGED vars

Next ==
    \/ Done
    \/ \E t \in Txn :
         \/ Begin(t) \/ Commit(t) \/ Rollback(t)
         \/ \E n \in Addr : Insert(t, n) \/ Delete(t, n) \/ \E a \in Addr : Update(t, a, n)
    \/ Do \/ WriteBack \/ Settle \/ Sweep \/ Kill \/ PowerLoss

Spec == Init /\ [][Next]_vars

-----------------------------------------------------------------------------
(* Properties                                                              *)

Phase == {"new", "open", "committed", "acked", "over"}
Op    == {"none", "begin", "insert", "update", "delete", "commit", "rollback", "spent", "recover"}

\* Every variable has its type.
TypeOK ==
    /\ cache \in Files /\ disk \in Files
    /\ job \in [op : Op, at : Nat, txn : Txn \union {Nobody}, rows : Seq(Addr)]
    /\ ctx \in [Txn -> Seq(Addr)]
    /\ phase \in [Txn -> Phase]
    /\ made \in [Txn -> SUBSET Addr] /\ gone \in [Txn -> SUBSET Addr]
    /\ kills \in 0 .. MaxKills /\ losses \in 0 .. MaxLosses

\* the row versions a new reader would find if the process were killed now
Kept(files) ==
    {a \in Addr : LET c == RowAt(files, a)
                  IN Alive(IF c.hex.locked THEN Resolved(files, c) ELSE c)}

Atomic == INSTANCE AtomicStore WITH store <- Kept(cache),
                                    Spoils <- {{}} \union {{a} : a \in Addr}

\* Killed at any instant, between two writes of one dump_control too and in recovery
\* too, the store keeps whole transactions, but for the one row whose control block
\* was being written, and that only if its commit has not returned; a power loss can
\* harm nothing but commits that have not returned.
CrashesSpareTheRest == Atomic!Spec

Whole == INSTANCE AtomicStore WITH store <- Kept(cache), Spoils <- {{}}

\* "A crash anywhere in the middle leaves _initialize reading the same transaction
\* record it would have read anyway, and deciding the same way" (doc/outstanding.md).
\* Of one row it need not: torn.cfg.
CrashesAreAtomic == Whole!Spec

\* Once the store is open, a row is locked only by a transaction of this process
\* that has it on its context: recovery has settled all that the dead ones left.
NoOrphanLocks ==
    Idle => \A a \in Addr : cache.hex[a].locked =>
        \E t \in Txn : phase[t] = "open" /\ cache.data[a].txn = t
                          /\ \E i \in 1 .. Len(ctx[t]) : ctx[t][i] = a
=============================================================================
