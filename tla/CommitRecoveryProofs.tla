----------------------- MODULE CommitRecoveryProofs -----------------------
(***************************************************************************)
(* What holds of CommitRecovery for every set of transactions and of       *)
(* addresses and every bound: its types, that recovery leaves no row       *)
(* locked, and that the store it keeps is AtomicStore, a kill sparing all  *)
(* but the one row whose control block was being written.                  *)
(*                                                                         *)
(* The invariant is in three parts.  LockInv says who will take each lock  *)
(* off, UsedInv that an address nobody has used is blank, and StoreInv     *)
(* what each row, its record and the disk have at each step of a plan.  A  *)
(* dump cut in two keeps all three (RemainsPast); what it may change of    *)
(* what a reader finds is one row in doubt (AtomicKill).                   *)
(***************************************************************************)
EXTENDS CommitRecovery, SequenceTheorems, TLAPS

USE RecoveryAssumption

-----------------------------------------------------------------------------
(* Sequences                                                               *)

\* Of a job that still has rows: the row it visits and the rows after it.
LEMMA RangeHeadTail ==
    ASSUME NEW S, NEW s \in Seq(S), s # <<>>
    PROVE  /\ Head(s) \in S /\ Tail(s) \in Seq(S) /\ Len(Tail(s)) = Len(s) - 1
           /\ Head(s) \in Range(s) /\ Head(s) = s[1]
           /\ \A i \in 1 .. Len(Tail(s)) : Tail(s)[i] = s[i + 1]
           /\ \A x : x \in Range(s) <=> x = Head(s) \/ x \in Range(Tail(s))
<1>1. Head(s) \in S /\ Tail(s) \in Seq(S) /\ Len(Tail(s)) = Len(s) - 1 /\ Len(s) \in Nat \ {0}
  BY EmptySeq, HeadTailProperties
<1>2. \A i \in 1 .. Len(Tail(s)) : Tail(s)[i] = s[i + 1]
  BY <1>1, HeadTailProperties
<1>3. Head(s) = s[1] /\ 1 \in DOMAIN s
  BY <1>1
<1>4. ASSUME NEW x \in Range(s), x # Head(s) PROVE x \in Range(Tail(s))
  <2>1. PICK i \in 1 .. Len(s) : x = s[i]
    BY <1>4 DEF Range
  <2>2. i # 1 /\ i - 1 \in 1 .. Len(Tail(s))
    BY <2>1, <1>1, <1>3, <1>4
  <2>3. x = Tail(s)[i - 1] /\ DOMAIN Tail(s) = 1 .. Len(Tail(s))
    BY <2>1, <2>2, <1>1, <1>2
  <2> QED BY <2>2, <2>3 DEF Range
<1>5. ASSUME NEW x \in Range(Tail(s)) PROVE x \in Range(s)
  <2>1. PICK i \in 1 .. Len(Tail(s)) : x = Tail(s)[i]
    BY <1>1 DEF Range
  <2>2. x = s[i + 1] /\ i + 1 \in 1 .. Len(s)
    BY <2>1, <1>1, <1>2
  <2> QED BY <2>2 DEF Range
<1>6. Head(s) \in Range(s)
  BY <1>3 DEF Range
<1> QED BY <1>1, <1>2, <1>3, <1>4, <1>5, <1>6

\* A context stages onto its end and forgets nothing.
LEMMA RangeConcat ==
    ASSUME NEW S, NEW s \in Seq(S), NEW r \in Seq(S)
    PROVE  \A x : x \in Range(s \o r) <=> x \in Range(s) \/ x \in Range(r)
<1>1. s \o r \in Seq(S) /\ Len(s \o r) = Len(s) + Len(r) /\ Len(s) \in Nat /\ Len(r) \in Nat
  BY ConcatProperties, LenProperties
<1>2. \A i \in 1 .. Len(s \o r) : (s \o r)[i] = IF i <= Len(s) THEN s[i] ELSE r[i - Len(s)]
  BY <1>1, ConcatProperties
<1>3. ASSUME NEW x \in Range(s \o r) PROVE x \in Range(s) \/ x \in Range(r)
  <2>1. PICK i \in 1 .. Len(s \o r) : x = (s \o r)[i]
    BY <1>1 DEF Range
  <2>2. CASE i <= Len(s)
    BY <2>1, <2>2, <1>1, <1>2 DEF Range
  <2>3. CASE i > Len(s)
    <3>1. i - Len(s) \in 1 .. Len(r) /\ x = r[i - Len(s)]
      BY <2>1, <2>3, <1>1, <1>2
    <3> QED BY <3>1 DEF Range
  <2> QED BY <1>1, <2>1, <2>2, <2>3
<1>4. ASSUME NEW x \in Range(s) PROVE x \in Range(s \o r)
  <2>1. PICK i \in 1 .. Len(s) : x = s[i]
    BY DEF Range
  <2>2. i \in 1 .. Len(s \o r) /\ x = (s \o r)[i]
    BY <2>1, <1>1, <1>2
  <2> QED BY <2>2, <1>1 DEF Range
<1>5. ASSUME NEW x \in Range(r) PROVE x \in Range(s \o r)
  <2>1. PICK i \in 1 .. Len(r) : x = r[i]
    BY DEF Range
  <2>2. i + Len(s) \in 1 .. Len(s \o r) /\ x = (s \o r)[i + Len(s)]
    BY <2>1, <1>1, <1>2
  <2> QED BY <2>2, <1>1 DEF Range
<1> QED BY <1>3, <1>4, <1>5

\* The rows of an insert, a delete and an update.
LEMMA RangeShort ==
    ASSUME NEW a \in Addr, NEW n \in Addr
    PROVE  /\ <<>> \in Seq(Addr) /\ Range(<<>>) = {}
           /\ <<n>> \in Seq(Addr) /\ <<n>> # <<>> /\ Range(<<n>>) = {n}
           /\ Len(<<n>>) = 1 /\ <<n>>[1] = n
           /\ <<a, n>> \in Seq(Addr) /\ <<a, n>> # <<>> /\ Range(<<a, n>>) = {a, n}
           /\ Len(<<a, n>>) = 2 /\ <<a, n>>[1] = a /\ <<a, n>>[2] = n
<1>1. <<>> \in Seq(Addr) /\ Range(<<>>) = {}
  BY DEF Range
<1>2. <<n>> \in Seq(Addr) /\ Len(<<n>>) = 1 /\ <<n>>[1] = n
  OBVIOUS
<1>3. <<a, n>> \in Seq(Addr) /\ Len(<<a, n>>) = 2 /\ <<a, n>>[1] = a /\ <<a, n>>[2] = n
  OBVIOUS
<1>4. Range(<<n>>) = {n}
  BY <1>2 DEF Range
<1>5. Range(<<a, n>>) = {a, n}
  BY <1>3 DEF Range
<1>6. <<n>> # <<>> /\ <<a, n>> # <<>>
  BY <1>2, <1>3, EmptySeq
<1> QED BY <1>1, <1>2, <1>3, <1>4, <1>5, <1>6

\* A rollback visits every row of its context, as a commit does.
LEMMA ReverseRange ==
    ASSUME NEW S, NEW s \in Seq(S)
    PROVE  Reverse(s) \in Seq(S) /\ Range(Reverse(s)) = Range(s)
<1>1. Len(s) \in Nat /\ \A i \in 1 .. Len(s) : s[i] \in S
  BY LenProperties, ElementOfSeq
<1>2. Reverse(s) = [i \in 1 .. Len(s) |-> s[Len(s) - i + 1]]
  BY DEF Reverse
<1>3. Reverse(s) \in Seq(S)
  <2>1. \A i \in 1 .. Len(s) : Reverse(s)[i] \in S
    BY <1>1, <1>2
  <2> QED BY <2>1, <1>1, <1>2, IsASeq
<1>4. ASSUME NEW i \in 1 .. Len(s) PROVE s[i] \in Range(Reverse(s)) /\ Reverse(s)[i] \in Range(s)
  <2>1. Len(s) - i + 1 \in 1 .. Len(s) /\ Len(s) - (Len(s) - i + 1) + 1 = i
    BY <1>1
  <2>2. Reverse(s)[i] = s[Len(s) - i + 1] /\ Reverse(s)[Len(s) - i + 1] = s[i]
    BY <1>2, <2>1
  <2>3. DOMAIN Reverse(s) = 1 .. Len(s) /\ DOMAIN s = 1 .. Len(s)
    BY <1>2
  <2> QED BY <2>1, <2>2, <2>3 DEF Range
<1>5. DOMAIN Reverse(s) = 1 .. Len(s) /\ DOMAIN s = 1 .. Len(s)
  BY <1>2
<1> QED BY <1>3, <1>4, <1>5 DEF Range

-----------------------------------------------------------------------------
(* One row                                                                 *)

Row == [hex : Hex, data : Data]

\* dump_control changes the one row it is of.
LEMMA DumpOne ==
    ASSUME NEW files \in Files, NEW a \in Addr, NEW c \in Row,
           NEW after, after = DumpControl(files, a, c)
    PROVE  /\ after \in Files /\ after.listed = files.listed /\ after.intent = files.intent
           /\ after.hex[a] = c.hex /\ after.data[a] = c.data /\ RowAt(after, a) = c
           /\ \A b \in Addr : b # a => /\ after.hex[b] = files.hex[b] /\ after.data[b] = files.data[b]
                                       /\ RowAt(after, b) = RowAt(files, b)
  BY DEF Files, Row, DumpControl, RowAt

\* A dump cut in two has the old create_time, and of the rest the old or the new.
LEMMA CutRow ==
    ASSUME NEW c \in Row, NEW d \in Row, NEW e \in Cut(c, d)
    PROVE  /\ e \in Row
           /\ e.hex.off \in {c.hex.off, d.hex.off}
           /\ e.data.txn \in {c.data.txn, d.data.txn}
           /\ e.data.died \in {c.data.died, d.data.died}
           /\ e.data.born = c.data.born
           /\ c = d => e = c
<1>1. CASE e = [c EXCEPT !.hex.on = d.hex.on, !.hex.locked = d.hex.locked]
  BY <1>1 DEF Row, Hex, Data
<1>2. CASE e = [c EXCEPT !.hex = d.hex]
  BY <1>2 DEF Row, Hex, Data
<1>3. CASE e = [c EXCEPT !.hex = d.hex, !.data.txn = d.data.txn]
  BY <1>3 DEF Row, Hex, Data
<1>4. CASE e = [c EXCEPT !.hex = d.hex, !.data.txn = d.data.txn, !.data.died = d.data.died]
  BY <1>4 DEF Row, Hex, Data
<1> QED BY <1>1, <1>2, <1>3, <1>4 DEF Cut

\* write_transaction changes the one intention.
LEMMA IntentField ==
    ASSUME NEW files \in Files, NEW t, NEW value \in 0 .. 1,
           NEW after, after = [files EXCEPT !.intent[t] = value]
    PROVE  /\ after \in Files /\ after.hex = files.hex /\ after.data = files.data
           /\ after.listed = files.listed
           /\ \A u \in Txn : after.intent[u] = IF u = t THEN value ELSE files.intent[u]
  BY DEF Files

LEMMA RowOf ==
    ASSUME NEW files \in Files, NEW a \in Addr
    PROVE  /\ RowAt(files, a) \in Row
           /\ RowAt(files, a).hex = files.hex[a] /\ RowAt(files, a).data = files.data[a]
           /\ files.hex[a] \in Hex /\ files.data[a] \in Data
           /\ files.hex[a].locked \in BOOLEAN /\ files.data[a].txn \in Txn \union {Nobody}
  BY DEF Files, Row, RowAt, Hex, Data

\* A settled control block: nobody has it, and its offline half is as it was.
LEMMA SettledRow ==
    ASSUME NEW c \in Row
    PROVE  /\ Settled(c) \in Row /\ ~Settled(c).hex.locked /\ Settled(c).hex.on = "none"
           /\ Settled(c).data.txn = Nobody /\ Settled(c).hex.off = c.hex.off
           /\ Settled(c).data.died = c.data.died /\ Settled(c).data.born = c.data.born
  BY DEF Row, Settled, Hex, Data, RowState

\* writing a field of either part leaves a row
LEMMA OffField ==
    ASSUME NEW c \in Row, NEW state \in RowState
    PROVE  /\ [c EXCEPT !.hex.off = state] \in Row
           /\ [c EXCEPT !.hex.off = state].hex.off = state
  BY DEF Row, Hex, Data, RowState

LEMMA BornField ==
    ASSUME NEW c \in Row
    PROVE  /\ [c EXCEPT !.data.born = 1] \in Row
           /\ [c EXCEPT !.data.born = 1].hex = c.hex
           /\ [c EXCEPT !.data.born = 1].data.born = 1
           /\ [c EXCEPT !.data.born = 1].data.died = c.data.died
  BY DEF Row, Hex, Data, RowState

LEMMA DiedField ==
    ASSUME NEW c \in Row
    PROVE  /\ [c EXCEPT !.data.died = 1] \in Row
           /\ [c EXCEPT !.data.died = 1].hex = c.hex
           /\ [c EXCEPT !.data.died = 1].data.died = 1
           /\ [c EXCEPT !.data.died = 1].data.born = c.data.born
  BY DEF Row, Hex, Data, RowState

\* commit_pointer, for each way a row is staged.
LEMMA CommittedRow ==
    ASSUME NEW c \in Row
    PROVE  /\ CommitRow(c) \in Row /\ ~CommitRow(c).hex.locked
           /\ CommitRow(c).data.txn = Nobody
           /\ c.hex.on = "inserted" => CommitRow(c).hex.off = "inserted"
           /\ c.hex.on \in {"updated", "deleted"} =>
                CommitRow(c).hex.off = c.hex.on /\ CommitRow(c).data.died = 1
<1>1. CASE c.hex.on = "inserted"
  <2> DEFINE q == [c EXCEPT !.hex.off = "inserted"]
             r == [q EXCEPT !.data.born = 1]
  <2>1. q \in Row /\ q.hex.off = "inserted"
    BY OffField DEF RowState
  <2>2. CommitRow(c) = Settled(r)
    BY <1>1 DEF CommitRow
  <2> HIDE DEF q
  <2>3. r \in Row /\ r.hex.off = "inserted"
    BY <2>1, BornField
  <2> HIDE DEF r
  <2> QED BY <1>1, <2>2, <2>3, SettledRow
<1>2. CASE c.hex.on = "none"
  <2>1. CommitRow(c) = Settled(c)
    BY <1>2 DEF CommitRow
  <2> QED BY <1>2, <2>1, SettledRow
<1>3. CASE c.hex.on \in {"updated", "deleted"}
  <2> DEFINE q == [c EXCEPT !.hex.off = c.hex.on]
             r == [q EXCEPT !.data.died = 1]
  <2>1. q \in Row /\ q.hex.off = c.hex.on
    BY <1>3, OffField DEF RowState
  <2>2. CommitRow(c) = Settled(r)
    BY <1>3 DEF CommitRow
  <2> HIDE DEF q
  <2>3. r \in Row /\ r.hex.off = c.hex.on /\ r.data.died = 1
    BY <2>1, DiedField
  <2> HIDE DEF r
  <2> QED BY <1>3, <2>2, <2>3, SettledRow
<1>4. c.hex.on \in RowState
  BY DEF Row, Hex
<1> QED BY <1>1, <1>2, <1>3, <1>4 DEF RowState

\* rollback_pointer_apply, for a row that was never committed and for one that was.
LEMMA RolledBackRow ==
    ASSUME NEW c \in Row
    PROVE  /\ RollbackRow(c) \in Row /\ ~RollbackRow(c).hex.locked
           /\ RollbackRow(c).data.txn = Nobody
           /\ c.hex.off = "none" => /\ RollbackRow(c).hex.off = "deleted"
                                    /\ RollbackRow(c).data.died = 1 /\ RollbackRow(c).data.born = 1
           /\ c.hex.off # "none" => /\ RollbackRow(c).hex.off = c.hex.off
                                    /\ RollbackRow(c).data.died = c.data.died
                                    /\ RollbackRow(c).data.born = c.data.born
<1>1. CASE c.hex.off = "none"
  <2> DEFINE p == [c EXCEPT !.hex.off = "deleted"]
             q == [p EXCEPT !.data.died = 1]
             r == [q EXCEPT !.data.born = 1]
  <2>1. p \in Row /\ p.hex.off = "deleted"
    BY OffField DEF RowState
  <2>2. RollbackRow(c) = Settled(r)
    BY <1>1 DEF RollbackRow
  <2> HIDE DEF p
  <2>3. q \in Row /\ q.hex.off = "deleted" /\ q.data.died = 1
    BY <2>1, DiedField
  <2> HIDE DEF q
  <2>4. r \in Row /\ r.hex.off = "deleted" /\ r.data.died = 1 /\ r.data.born = 1
    BY <2>3, BornField
  <2> HIDE DEF r
  <2> QED BY <1>1, <2>2, <2>4, SettledRow
<1>2. CASE c.hex.off # "none"
  <2>1. RollbackRow(c) = Settled(c)
    BY <1>2 DEF RollbackRow
  <2> QED BY <1>2, <2>1, SettledRow
<1> QED BY <1>1, <1>2

\* A version that is replaced or removed, and one that is new.
LEMMA StagedRow ==
    ASSUME NEW c \in Row, NEW t \in Txn, NEW state \in {"updated", "deleted"}
    PROVE  /\ Staged(c, state, t) \in Row /\ Staged(c, state, t).hex.locked
           /\ Staged(c, state, t).hex.on = state /\ Staged(c, state, t).data.txn = t
           /\ Staged(c, state, t).hex.off = c.hex.off
           /\ Staged(c, state, t).data.died = c.data.died /\ Staged(c, state, t).data.born = c.data.born
  BY DEF Row, Hex, Data, RowState, Staged

LEMMA AddedRow ==
    ASSUME NEW t \in Txn
    PROVE  /\ Added(t) \in Row /\ Added(t).hex.locked /\ Added(t).hex.on = "inserted"
           /\ Added(t).data.txn = t /\ Added(t).hex.off = "none"
           /\ Added(t).data.died = 0 /\ Added(t).data.born = 0
  BY DEF Row, Hex, Data, RowState, Added, NoData

\* the same by the step that makes it
LEMMA VisitedRow ==
    ASSUME NEW t \in Txn, NEW c \in Row
    PROVE  /\ \A step \in Visits : Visited(step, t, c) \in Row
           /\ Visited("add", t, c) = Added(t)
           /\ Visited("replace", t, c) = Staged(c, "updated", t)
           /\ Visited("remove", t, c) = Staged(c, "deleted", t)
           /\ Visited("flip", t, c) = IF c.data.txn = t THEN CommitRow(c) ELSE c
           /\ Visited("undo", t, c) = IF c.data.txn = t THEN RollbackRow(c) ELSE c
<1>1. /\ Visited("add", t, c) = Added(t)
      /\ Visited("replace", t, c) = Staged(c, "updated", t)
      /\ Visited("remove", t, c) = Staged(c, "deleted", t)
      /\ Visited("flip", t, c) = IF c.data.txn = t THEN CommitRow(c) ELSE c
      /\ Visited("undo", t, c) = IF c.data.txn = t THEN RollbackRow(c) ELSE c
  BY DEF Visited
<1>2. /\ Added(t) \in Row /\ Staged(c, "updated", t) \in Row /\ Staged(c, "deleted", t) \in Row
      /\ CommitRow(c) \in Row /\ RollbackRow(c) \in Row
  BY AddedRow, StagedRow, CommittedRow, RolledBackRow
<1> QED BY <1>1, <1>2 DEF Visits

-----------------------------------------------------------------------------
(* Plans                                                                   *)

\* The plans, step by step.
LEMMA PlanSteps ==
    /\ Len(Plan("begin")) = 3 /\ Len(Plan("insert")) = 1 /\ Len(Plan("update")) = 2
    /\ Len(Plan("delete")) = 1 /\ Len(Plan("commit")) = 10 /\ Len(Plan("rollback")) = 5
    /\ Len(Plan("spent")) = 2
    /\ Plan("begin")[1] = "list" /\ Plan("begin")[2] = "blank" /\ Plan("begin")[3] = "opened"
    /\ Plan("insert")[1] = "add" /\ Plan("update")[1] = "replace" /\ Plan("update")[2] = "add"
    /\ Plan("delete")[1] = "remove"
    /\ Plan("commit")[1] = "intend" /\ Plan("commit")[2] = "data" /\ Plan("commit")[3] = "hexmap"
    /\ Plan("commit")[4] = "flip" /\ Plan("commit")[5] = "data" /\ Plan("commit")[6] = "hexmap"
    /\ Plan("commit")[7] = "retire" /\ Plan("commit")[8] = "data" /\ Plan("commit")[9] = "hexmap"
    /\ Plan("commit")[10] = "acked"
    /\ Plan("rollback")[1] = "undo" /\ Plan("rollback")[2] = "free" /\ Plan("rollback")[3] = "data"
    /\ Plan("rollback")[4] = "hexmap" /\ Plan("rollback")[5] = "over"
    /\ Plan("spent")[1] = "free" /\ Plan("spent")[2] = "over"
    /\ Plan("recover")[1] = "settle" /\ Plan("recover")[2] = "sweep"
<1>1. /\ Plan("begin") = <<"list", "blank", "opened">>
      /\ Plan("insert") = <<"add">> /\ Plan("update") = <<"replace", "add">>
      /\ Plan("delete") = <<"remove">> /\ Plan("commit") = CommitPlan
      /\ Plan("rollback") = <<"undo", "free", "data", "hexmap", "over">>
      /\ Plan("spent") = <<"free", "over">> /\ Plan("recover") = <<"settle", "sweep">>
  BY DEF Plan
<1>2. /\ Len(CommitPlan) = 10
      /\ CommitPlan[1] = "intend" /\ CommitPlan[2] = "data" /\ CommitPlan[3] = "hexmap"
      /\ CommitPlan[4] = "flip" /\ CommitPlan[5] = "data" /\ CommitPlan[6] = "hexmap"
      /\ CommitPlan[7] = "retire" /\ CommitPlan[8] = "data" /\ CommitPlan[9] = "hexmap"
      /\ CommitPlan[10] = "acked"
  BY DEF CommitPlan
<1> QED BY <1>1, <1>2

-----------------------------------------------------------------------------
(* The locks: who will take each off                                       *)

StageOps == {"insert", "update", "delete"}
EndOps   == {"commit", "rollback", "spent"}

\* the rows of a transaction, and one that is being ended
Touched(t) == made[t] \union gone[t]
Closing(t) == job.txn = t /\ job.op \in EndOps

\* How far each operation can be: the rows it has still to visit and the phase its
\* transaction is in.  Recovery runs with no transaction open, and frees the records
\* only when no row is locked.
JobOK ==
    /\ job.op = "none" => Idle
    /\ job.op \notin {"none", "recover"} => job.txn \in Txn
    /\ job.op = "begin" => job.at \in 1 .. 3 /\ phase[job.txn] = "new"
    /\ job.op \in StageOps =>
         /\ phase[job.txn] = "open" /\ Range(job.rows) \subseteq Touched(job.txn)
         /\ job.rows # <<>>
    /\ job.op \in {"insert", "delete"} => job.at = 1 /\ Len(job.rows) = 1
    /\ job.op = "update" => job.at \in 1 .. 2 /\ Len(job.rows) = 3 - job.at
    /\ job.op = "commit" =>
         /\ job.at \in 1 .. 10 /\ (job.rows = <<>> <=> job.at > 4)
         /\ phase[job.txn] = IF job.at = 1 THEN "open" ELSE "committed"
    /\ job.op = "rollback" =>
         /\ job.at \in 1 .. 5 /\ (job.rows = <<>> <=> job.at > 1)
         /\ phase[job.txn] = "open"
    /\ job.op = "spent" => job.at \in 1 .. 2 /\ job.rows = <<>> /\ phase[job.txn] = "open"
    /\ job.op = "recover" =>
         /\ job.at \in 1 .. 2 /\ job.txn = Nobody
         /\ (job.at = 2 => Left(cache) = {})
         /\ \A t \in Txn : phase[t] # "open"

\* a control block names only a transaction that touched the row
Signed(files) == \A a \in Addr : files.data[a].txn \in Txn => a \in Touched(files.data[a].txn)

\* a transaction that has not begun has touched nothing
Unborn == \A t \in Txn : phase[t] = "new" => Touched(t) = {}

\* an open transaction has every row it touched on its context
Remembered == \A t \in Txn : phase[t] = "open" /\ ~Closing(t) => Touched(t) \subseteq Range(ctx[t])

\* t will take its lock off a: it is open, or is ending and has the row still to visit
Owner(t, a) ==
    /\ t \in Txn
    /\ \/ phase[t] = "open" /\ ~Closing(t)
       \/ Closing(t) /\ a \in Range(job.rows)

Settling == job.op = "recover" /\ job.at = 1

\* a locked row has such a transaction, unless recovery is settling the rows
Owned == ~Settling => \A a \in Addr : cache.hex[a].locked => Owner(cache.data[a].txn, a)

LockInv == TypeOK /\ JobOK /\ Signed(cache) /\ Signed(disk) /\ Unborn /\ Remembered /\ Owned

\* Where the holder of the guard is, by the step it is about to take.
LEMMA Where ==
    ASSUME TypeOK, JobOK
    PROVE  /\ Idle <=> job.op = "none"
           /\ At("add") <=> (job.op = "insert" \/ (job.op = "update" /\ job.at = 2))
           /\ At("replace") <=> (job.op = "update" /\ job.at = 1)
           /\ At("remove") <=> job.op = "delete"
           /\ At("flip") <=> (job.op = "commit" /\ job.at = 4)
           /\ At("undo") <=> (job.op = "rollback" /\ job.at = 1)
           /\ At("list") <=> (job.op = "begin" /\ job.at = 1)
           /\ At("blank") <=> (job.op = "begin" /\ job.at = 2)
           /\ At("opened") <=> (job.op = "begin" /\ job.at = 3)
           /\ At("intend") <=> (job.op = "commit" /\ job.at = 1)
           /\ At("retire") <=> (job.op = "commit" /\ job.at = 7)
           /\ At("acked") <=> (job.op = "commit" /\ job.at = 10)
           /\ At("data") <=> \/ job.op = "commit" /\ job.at \in {2, 5, 8}
                             \/ job.op = "rollback" /\ job.at = 3
           /\ At("hexmap") <=> \/ job.op = "commit" /\ job.at \in {3, 6, 9}
                               \/ job.op = "rollback" /\ job.at = 4
           /\ At("free") <=> \/ job.op = "rollback" /\ job.at = 2
                             \/ job.op = "spent" /\ job.at = 1
           /\ At("over") <=> \/ job.op = "rollback" /\ job.at = 5
                             \/ job.op = "spent" /\ job.at = 2
           /\ At("settle") <=> Settling
           /\ At("sweep") <=> (job.op = "recover" /\ job.at = 2)
<1>1. Idle <=> job.op = "none"
  BY DEF Idle, NoJob, Job, JobOK
<1>2. job.op \in Op /\ job.at \in Nat
  BY DEF TypeOK
<1>3. \A step : At(step) <=> job.op # "none" /\ Plan(job.op)[job.at] = step
  BY <1>1 DEF At
<1>4. CASE job.op = "none"
  BY <1>1, <1>3, <1>4 DEF Settling
<1>5. CASE job.op = "begin"
  <2>1. job.at \in {1, 2, 3}
    BY <1>5 DEF JobOK
  <2> QED BY <1>1, <1>3, <1>5, <2>1, PlanSteps DEF Settling
<1>6. CASE job.op = "insert"
  <2>1. job.at = 1
    BY <1>6 DEF JobOK
  <2> QED BY <1>1, <1>3, <1>6, <2>1, PlanSteps DEF Settling
<1>7. CASE job.op = "update"
  <2>1. job.at \in {1, 2}
    BY <1>7 DEF JobOK
  <2> QED BY <1>1, <1>3, <1>7, <2>1, PlanSteps DEF Settling
<1>8. CASE job.op = "delete"
  <2>1. job.at = 1
    BY <1>8 DEF JobOK
  <2> QED BY <1>1, <1>3, <1>8, <2>1, PlanSteps DEF Settling
<1>9. CASE job.op = "commit"
  <2>1. job.at \in {1, 2, 3, 4, 5, 6, 7, 8, 9, 10}
    BY <1>9 DEF JobOK
  <2> QED BY <1>1, <1>3, <1>9, <2>1, PlanSteps DEF Settling
<1>10. CASE job.op = "rollback"
  <2>1. job.at \in {1, 2, 3, 4, 5}
    BY <1>10 DEF JobOK
  <2> QED BY <1>1, <1>3, <1>10, <2>1, PlanSteps DEF Settling
<1>11. CASE job.op = "spent"
  <2>1. job.at \in {1, 2}
    BY <1>11 DEF JobOK
  <2> QED BY <1>1, <1>3, <1>11, <2>1, PlanSteps DEF Settling
<1>12. CASE job.op = "recover"
  <2>1. job.at \in {1, 2}
    BY <1>12 DEF JobOK
  <2> QED BY <1>1, <1>3, <1>12, <2>1, PlanSteps DEF Settling
<1> QED BY <1>2, <1>4, <1>5, <1>6, <1>7, <1>8, <1>9, <1>10, <1>11, <1>12 DEF Op

LastStep(op) ==
    IF op \in {"insert", "delete"} THEN 1
    ELSE IF op \in {"update", "spent"} THEN 2
    ELSE IF op = "begin" THEN 3 ELSE IF op = "rollback" THEN 5 ELSE 10

\* a step taken: the guard given back after the last, or one step further
LEMMA Further ==
    ASSUME TypeOK, JobOK, job.op \notin {"none", "recover"},
           NEW rows \in Seq(Addr), Onward(rows)
    PROVE  /\ job' \in [op : Op, at : Nat, txn : Txn \union {Nobody}, rows : Seq(Addr)]
           /\ job.at = LastStep(job.op) => Idle' /\ job'.op = "none" /\ job'.rows = <<>>
           /\ job.at # LastStep(job.op) => /\ job'.op = job.op /\ job'.at = job.at + 1
                                        /\ job'.txn = job.txn /\ job'.rows = rows
<1>1. job.op \in Op \ {"none", "recover"}
  BY DEF TypeOK
<1>2. Len(Plan(job.op)) = LastStep(job.op)
  <2>1. job.op \in {"begin", "insert", "update", "delete", "commit", "rollback", "spent"}
    BY <1>1 DEF Op
  <2>2. CASE job.op = "begin"
    BY <2>2, PlanSteps DEF LastStep
  <2>3. CASE job.op = "insert"
    BY <2>3, PlanSteps DEF LastStep
  <2>4. CASE job.op = "update"
    BY <2>4, PlanSteps DEF LastStep
  <2>5. CASE job.op = "delete"
    BY <2>5, PlanSteps DEF LastStep
  <2>6. CASE job.op = "commit"
    BY <2>6, PlanSteps DEF LastStep
  <2>7. CASE job.op = "rollback"
    BY <2>7, PlanSteps DEF LastStep
  <2>8. CASE job.op = "spent"
    BY <2>8, PlanSteps DEF LastStep
  <2> QED BY <2>1, <2>2, <2>3, <2>4, <2>5, <2>6, <2>7, <2>8
<1>3. /\ NoJob \in [op : Op, at : Nat, txn : Txn \union {Nobody}, rows : Seq(Addr)]
      /\ NoJob.op = "none" /\ NoJob.rows = <<>>
  <2>1. <<>> \in Seq(Addr)
    BY EmptySeq
  <2>2. NoJob = [op |-> "none", at |-> 1, txn |-> Nobody, rows |-> <<>>]
    BY DEF NoJob, Job
  <2> QED BY <2>1, <2>2 DEF Op
<1>4. CASE job.at = LastStep(job.op)
  BY <1>2, <1>3, <1>4 DEF Onward, Idle
<1>5. CASE job.at # LastStep(job.op)
  <2>1. job' = [job EXCEPT !.at = @ + 1, !.rows = rows]
    BY <1>2, <1>5 DEF Onward
  <2>2. job \in [op : Op, at : Nat, txn : Txn \union {Nobody}, rows : Seq(Addr)]
    BY DEF TypeOK
  <2>3. /\ job'.op = job.op /\ job'.at = job.at + 1 /\ job'.txn = job.txn /\ job'.rows = rows
    BY <2>1, <2>2
  <2>4. job' \in [op : Op, at : Nat, txn : Txn \union {Nobody}, rows : Seq(Addr)]
    <3>1. job.at + 1 \in Nat
      BY <2>2
    <3> QED BY <2>1, <2>2, <3>1
  <2> QED BY <1>5, <2>3, <2>4
<1> QED BY <1>4, <1>5

LEMMA IdleJob ==
    ASSUME Idle
    PROVE  /\ job.op = "none" /\ job.rows = <<>> /\ job.txn = Nobody /\ ~Settling
           /\ \A t : ~Closing(t)
  BY DEF Idle, NoJob, Job, Settling, Closing, EndOps

-----------------------------------------------------------------------------
(* Every step keeps that                                                   *)

\* The operations take the guard.
LEMMA LocksBegin ==
    ASSUME LockInv, NEW t \in Txn, Begin(t)
    PROVE  LockInv'
<1>1. /\ Idle /\ phase[t] = "new" /\ UNCHANGED <<cache, disk, ctx, phase, made, gone, kills, losses>>
      /\ job' = [op |-> "begin", at |-> 1, txn |-> t, rows |-> <<>>]
  BY DEF Begin, Job
<1>2. TypeOK'
  BY <1>1 DEF LockInv, TypeOK, Op
<1>3. JobOK'
  BY <1>1 DEF JobOK, StageOps, Touched
<1>4. Signed(cache)' /\ Signed(disk)' /\ Unborn'
  BY <1>1 DEF LockInv, Signed, Unborn, Touched
<1>5. \A u : ~Closing(u) /\ ~Closing(u)'
  BY <1>1, IdleJob DEF Closing, EndOps
<1>6. Remembered'
  BY <1>1, <1>5 DEF LockInv, Remembered, Touched
<1>7. Owned'
  BY <1>1, <1>5, IdleJob DEF LockInv, Owned, Owner, Settling
<1> QED BY <1>2, <1>3, <1>4, <1>6, <1>7 DEF LockInv

LEMMA LocksStaging ==
    ASSUME LockInv, NEW t \in Txn, NEW op \in StageOps, NEW rows \in Seq(Addr),
           NEW new \in SUBSET Addr, NEW old \in SUBSET Addr,
           Range(rows) = new \union old, rows # <<>>,
           Len(rows) = IF op = "update" THEN 2 ELSE 1,
           Staging(t, op, rows, new, old)
    PROVE  LockInv'
<1>1. /\ Idle /\ phase[t] = "open" /\ UNCHANGED <<cache, disk, phase, kills, losses>>
      /\ job' = [op |-> op, at |-> 1, txn |-> t, rows |-> rows]
      /\ ctx' = [ctx EXCEPT ![t] = @ \o rows]
      /\ made' = [made EXCEPT ![t] = @ \union new]
      /\ gone' = [gone EXCEPT ![t] = @ \union old]
  BY DEF Staging, Job
<1>2. ctx[t] \in Seq(Addr) /\ ctx[t] \o rows \in Seq(Addr)
  BY ConcatProperties DEF LockInv, TypeOK
<1>3. ctx' \in [Txn -> Seq(Addr)]
  BY <1>1, <1>2 DEF LockInv, TypeOK
<1>4. TypeOK'
  BY <1>1, <1>3 DEF LockInv, TypeOK, Op, StageOps
<1>5. /\ \A u \in Txn : Touched(u)' = IF u = t THEN Touched(t) \union Range(rows) ELSE Touched(u)
      /\ \A u \in Txn : Touched(u) \subseteq Touched(u)'
  BY <1>1 DEF LockInv, TypeOK, Touched
<1>6. JobOK'
  BY <1>1, <1>5 DEF JobOK, StageOps
<1>7. Signed(cache)' /\ Signed(disk)'
  BY <1>1, <1>5 DEF LockInv, Signed
<1>8. Unborn'
  BY <1>1, <1>5 DEF LockInv, Unborn
<1>9. \A u : ~Closing(u) /\ ~Closing(u)'
  BY <1>1, IdleJob DEF Closing, EndOps, StageOps
<1>10. Remembered'
  <2>1. \A u \in Txn : Range(ctx[u]) \subseteq Range(ctx'[u])
    BY <1>1, <1>2, RangeConcat DEF LockInv, TypeOK
  <2>2. Range(rows) \subseteq Range(ctx'[t])
    BY <1>1, <1>2, RangeConcat DEF LockInv, TypeOK
  <2> QED BY <2>1, <2>2, <1>1, <1>5, <1>9 DEF LockInv, Remembered
<1>11. Owned'
  BY <1>1, <1>9, IdleJob DEF LockInv, Owned, Owner, Settling
<1> QED BY <1>4, <1>6, <1>7, <1>8, <1>10, <1>11 DEF LockInv

LEMMA LocksEnd ==
    ASSUME LockInv, NEW t \in Txn, NEW op \in {"commit", "rollback"}, NEW rows \in Seq(Addr),
           Range(rows) = Range(ctx[t]), End(t, op, rows)
    PROVE  LockInv'
<1>1. /\ Idle /\ phase[t] = "open" /\ UNCHANGED <<cache, disk, phase, made, gone, kills, losses>>
      /\ job' = [op |-> IF ctx[t] = <<>> THEN "spent" ELSE op, at |-> 1, txn |-> t, rows |-> rows]
      /\ ctx' = [ctx EXCEPT ![t] = <<>>]
  BY DEF End, Job
<1>2. ctx[t] = <<>> <=> rows = <<>>
  <2>1. ctx[t] \in Seq(Addr)
    BY DEF LockInv, TypeOK
  <2>2. \A s \in Seq(Addr) : s = <<>> <=> Range(s) = {}
    <3>1. Range(<<>>) = {}
      BY DEF Range
    <3> QED BY <3>1, RangeHeadTail
  <2> QED BY <2>1, <2>2
<1>3. TypeOK'
  BY <1>1, RangeShort DEF LockInv, TypeOK, Op
<1>4. JobOK'
  BY <1>1, <1>2 DEF JobOK, StageOps, Touched
<1>5. Signed(cache)' /\ Signed(disk)' /\ Unborn'
  BY <1>1 DEF LockInv, Signed, Unborn, Touched
<1>6. \A u : ~Closing(u) /\ (Closing(u)' <=> u = t)
  BY <1>1, IdleJob DEF Closing, EndOps
<1>7. Remembered'
  BY <1>1, <1>6 DEF LockInv, Remembered, Touched, TypeOK
<1>8. Owned'
  <2>1. ASSUME NEW a \in Addr, cache.hex[a].locked PROVE Owner(cache.data[a].txn, a)'
    <3>1. Owner(cache.data[a].txn, a)
      BY <2>1, <1>1, IdleJob DEF LockInv, Owned
    <3>2. phase[cache.data[a].txn] = "open" /\ cache.data[a].txn \in Txn
      BY <3>1, <1>6 DEF Owner
    <3>3. a \in Range(ctx[cache.data[a].txn])
      BY <3>2, <1>6 DEF LockInv, Signed, Remembered
    <3> QED BY <1>1, <1>6, <3>2, <3>3 DEF Owner
  <2> QED BY <2>1, <1>1 DEF Owned
<1> QED BY <1>3, <1>4, <1>5, <1>7, <1>8 DEF LockInv

\* a step that is not the last of its plan, and settles and signs no row
LEMMA LocksQuiet ==
    ASSUME LockInv, job.op \in {"begin", "commit", "rollback", "spent"},
           job.at # LastStep(job.op),
           ~(job.op = "commit" /\ job.at \in {1, 4}), ~(job.op = "rollback" /\ job.at = 1),
           Onward(job.rows), UNCHANGED <<ctx, phase, made, gone, kills, losses>>,
           cache' \in Files, cache'.hex = cache.hex, cache'.data = cache.data,
           disk' \in Files, Signed(disk)'
    PROVE  LockInv'
<1>1. /\ job' \in [op : Op, at : Nat, txn : Txn \union {Nobody}, rows : Seq(Addr)]
      /\ job'.op = job.op /\ job'.at = job.at + 1 /\ job'.txn = job.txn /\ job'.rows = job.rows
  BY Further DEF LockInv, TypeOK
<1>2. TypeOK'
  BY <1>1 DEF LockInv, TypeOK
<1>3. JobOK'
  BY <1>1 DEF LockInv, TypeOK, JobOK, StageOps, LastStep
<1>4. Signed(cache)' /\ Unborn'
  BY DEF LockInv, Signed, Unborn, Touched
<1>5. \A u : Closing(u)' <=> Closing(u)
  BY <1>1 DEF Closing
<1>6. Remembered'
  BY <1>5 DEF LockInv, Remembered, Touched
<1>7. Owned'
  BY <1>1, <1>5 DEF LockInv, Owned, Owner, Settling
<1> QED BY <1>2, <1>3, <1>4, <1>6, <1>7 DEF LockInv

\* The steps that write the transaction records and sync the files.
LEMMA LocksList ==
    ASSUME LockInv, NEW step \in {"list", "free"}, NEW value \in BOOLEAN, List(step, value)
    PROVE  LockInv'
<1>1. /\ At(step) /\ Onward(job.rows) /\ UNCHANGED <<disk, ctx, phase, made, gone, kills, losses>>
      /\ cache' = [cache EXCEPT !.listed[job.txn] = value]
  BY DEF List
<1>2. \/ job.op = "begin" /\ job.at = 1
      \/ job.op = "rollback" /\ job.at = 2
      \/ job.op = "spent" /\ job.at = 1
  BY <1>1, Where DEF LockInv
<1>3. cache' \in Files /\ cache'.hex = cache.hex /\ cache'.data = cache.data
  BY <1>1 DEF LockInv, TypeOK, Files
<1>4. disk' \in Files /\ Signed(disk)'
  BY <1>1 DEF LockInv, TypeOK, Signed, Touched
<1> QED BY <1>1, <1>2, <1>3, <1>4, LocksQuiet DEF LastStep

LEMMA LocksBlank ==
    ASSUME LockInv, Blank
    PROVE  LockInv'
<1>1. /\ At("blank") \/ At("retire")
      /\ Onward(job.rows) /\ UNCHANGED <<disk, ctx, phase, made, gone, kills, losses>>
      /\ cache' = [cache EXCEPT !.intent[job.txn] = 0]
  BY DEF Blank
<1>2. \/ job.op = "begin" /\ job.at = 2
      \/ job.op = "commit" /\ job.at = 7
  BY <1>1, Where DEF LockInv
<1>3. cache' \in Files /\ cache'.hex = cache.hex /\ cache'.data = cache.data
  <2>1. cache \in Files /\ 0 \in 0 .. 1 /\ 1 \in 0 .. 1
    BY DEF LockInv, TypeOK
  <2> QED BY <1>1, <2>1, IntentField
<1>4. disk' \in Files /\ Signed(disk)'
  BY <1>1 DEF LockInv, TypeOK, Signed, Touched
<1> QED BY <1>1, <1>2, <1>3, <1>4, LocksQuiet DEF LastStep

LEMMA LocksSync ==
    ASSUME LockInv, SyncData \/ SyncHexmap
    PROVE  LockInv'
<1>1. /\ At("data") \/ At("hexmap")
      /\ Onward(job.rows) /\ UNCHANGED <<cache, ctx, phase, made, gone, kills, losses>>
      /\ \/ disk' = [disk EXCEPT !.data = cache.data, !.intent = cache.intent]
         \/ disk' = [disk EXCEPT !.hex = cache.hex, !.listed = cache.listed]
  BY DEF SyncData, SyncHexmap
<1>2. \/ job.op = "commit" /\ job.at \in {2, 3, 5, 6, 8, 9}
      \/ job.op = "rollback" /\ job.at \in {3, 4}
  BY <1>1, Where DEF LockInv
<1>3. disk' \in Files /\ disk'.data \in {disk.data, cache.data}
  BY <1>1 DEF LockInv, TypeOK, Files
<1>4. cache' \in Files /\ cache'.hex = cache.hex /\ cache'.data = cache.data
  BY <1>1 DEF LockInv, TypeOK
<1>5. Signed(disk)'
  BY <1>1, <1>3 DEF LockInv, Signed, Touched
<1> QED BY <1>1, <1>2, <1>3, <1>4, <1>5, LocksQuiet DEF LastStep

\* The commit point, and the ends of the calls.
LEMMA LocksIntend ==
    ASSUME LockInv, Intend
    PROVE  LockInv'
<1>1. /\ Onward(job.rows) /\ UNCHANGED <<disk, ctx, made, gone, kills, losses>>
      /\ cache' = [cache EXCEPT !.intent[job.txn] = 1]
      /\ phase' = [phase EXCEPT ![job.txn] = "committed"]
      /\ job.op = "commit" /\ job.at = 1 /\ job.txn \in Txn
  BY Where DEF LockInv, Intend, JobOK
<1>2. /\ job' \in [op : Op, at : Nat, txn : Txn \union {Nobody}, rows : Seq(Addr)]
      /\ job'.op = "commit" /\ job'.at = 2 /\ job'.txn = job.txn /\ job'.rows = job.rows
  BY <1>1, Further DEF LockInv, TypeOK, LastStep
<1>3. cache' \in Files /\ cache'.hex = cache.hex /\ cache'.data = cache.data
  <2>1. cache \in Files /\ 0 \in 0 .. 1 /\ 1 \in 0 .. 1
    BY DEF LockInv, TypeOK
  <2> QED BY <1>1, <2>1, IntentField
<1>4. phase' \in [Txn -> Phase] /\ phase'[job.txn] = "committed"
      /\ \A u \in Txn : u # job.txn => phase'[u] = phase[u]
  BY <1>1 DEF LockInv, TypeOK, Phase
<1>5. TypeOK'
  BY <1>1, <1>2, <1>3, <1>4 DEF LockInv, TypeOK
<1>6. JobOK'
  BY <1>1, <1>2, <1>4 DEF LockInv, JobOK, StageOps
<1>7. Signed(cache)' /\ Signed(disk)' /\ Unborn'
  BY <1>1, <1>3, <1>4 DEF LockInv, Signed, Unborn, Touched
<1>8. \A u : Closing(u)' <=> Closing(u)
  BY <1>1, <1>2 DEF Closing
<1>9. Remembered'
  BY <1>1, <1>4, <1>8 DEF LockInv, Remembered, Touched
<1>10. Owned'
  <2>1. \A u, a : Owner(u, a) => Owner(u, a)'
    BY <1>1, <1>2, <1>4, <1>8 DEF Owner, Closing, EndOps
  <2> QED BY <2>1, <1>1, <1>2, <1>3 DEF LockInv, Owned, Settling
<1> QED BY <1>5, <1>6, <1>7, <1>9, <1>10 DEF LockInv

LEMMA LocksReturn ==
    ASSUME LockInv, NEW step, NEW now,
           \/ step = "opened" /\ now = "open"
           \/ step = "acked" /\ now = "acked"
           \/ step = "over" /\ now = "over",
           Return(step, now)
    PROVE  LockInv'
<1>1. /\ Onward(job.rows) /\ UNCHANGED <<cache, disk, ctx, made, gone, kills, losses>>
      /\ phase' = [phase EXCEPT ![job.txn] = now]
      /\ job.txn \in Txn /\ job.at = LastStep(job.op) /\ job.op \notin {"none", "recover"}
      /\ \/ job.op = "begin" /\ now = "open" /\ phase[job.txn] = "new"
         \/ job.op \in EndOps /\ now \in {"acked", "over"} /\ job.rows = <<>>
  BY Where DEF LockInv, Return, JobOK, LastStep, EndOps
<1>2. /\ job' \in [op : Op, at : Nat, txn : Txn \union {Nobody}, rows : Seq(Addr)]
      /\ Idle' /\ job'.op = "none" /\ job'.rows = <<>>
  BY <1>1, Further DEF LockInv, TypeOK
<1>3. phase' \in [Txn -> Phase] /\ phase'[job.txn] = now
      /\ \A u \in Txn : u # job.txn => phase'[u] = phase[u]
  BY <1>1 DEF LockInv, TypeOK, Phase
<1>4. TypeOK'
  BY <1>1, <1>2, <1>3 DEF LockInv, TypeOK
<1>5. JobOK'
  BY <1>2 DEF JobOK, StageOps
<1>6. Signed(cache)' /\ Signed(disk)' /\ Unborn'
  BY <1>1, <1>3 DEF LockInv, Signed, Unborn, Touched, EndOps
<1>7. \A u : ~Closing(u)'
  BY <1>2 DEF Closing, EndOps
<1>8. Remembered'
  BY <1>1, <1>3, <1>7 DEF LockInv, Remembered, Touched, Unborn, Closing, EndOps
<1>9. Owned'
  <2>1. ASSUME NEW a \in Addr, cache.hex[a].locked PROVE Owner(cache.data[a].txn, a)'
    <3>1. Owner(cache.data[a].txn, a)
      BY <1>1, <2>1 DEF LockInv, Owned, Settling, EndOps
    <3>2. ~Closing(cache.data[a].txn)
      BY <3>1, <1>1, RangeShort DEF Owner, Closing, EndOps
    <3>3. cache.data[a].txn # job.txn
      BY <3>1, <3>2, <1>1 DEF Owner, Closing
    <3> QED BY <3>1, <3>2, <3>3, <1>1, <1>3, <1>7 DEF Owner
  <2> QED BY <2>1, <1>1 DEF Owned
<1> QED BY <1>4, <1>5, <1>6, <1>8, <1>9 DEF LockInv

\* the row a visit is of, and what the visit leaves of the cache
LEMMA Visiting ==
    ASSUME LockInv, NEW step \in Visits, Visit(step)
    PROVE  /\ job.op \in StageOps \union {"commit", "rollback"} /\ job.txn \in Txn
           /\ job.rows # <<>> /\ Head(job.rows) \in Addr /\ Head(job.rows) \in Range(job.rows)
           /\ Tail(job.rows) \in Seq(Addr)
           /\ \A x : x \in Range(job.rows) <=> x = Head(job.rows) \/ x \in Range(Tail(job.rows))
           /\ step \in {"add", "replace", "remove"} <=> job.op \in StageOps
           /\ step = "flip" <=> (job.op = "commit" /\ job.at = 4)
           /\ step = "undo" <=> (job.op = "rollback" /\ job.at = 1)
           /\ UNCHANGED <<disk, ctx, phase, made, gone, kills, losses>>
           /\ cache' \in Files /\ cache'.listed = cache.listed /\ cache'.intent = cache.intent
           /\ RowAt(cache', Head(job.rows)) = Visited(step, job.txn, RowAt(cache, Head(job.rows)))
           /\ Visited(step, job.txn, RowAt(cache, Head(job.rows))) \in Row
           /\ \A b \in Addr : b # Head(job.rows) => RowAt(cache', b) = RowAt(cache, b)
<1>1. /\ At(step) /\ UNCHANGED <<disk, ctx, phase, made, gone, kills, losses>>
      /\ cache' = DumpControl(cache, Head(job.rows), Visited(step, job.txn, RowAt(cache, Head(job.rows))))
  BY DEF Visit
<1>2. /\ job.op \in StageOps \union {"commit", "rollback"} /\ job.txn \in Txn /\ job.rows # <<>>
      /\ step \in {"add", "replace", "remove"} <=> job.op \in StageOps
      /\ step = "flip" <=> (job.op = "commit" /\ job.at = 4)
      /\ step = "undo" <=> (job.op = "rollback" /\ job.at = 1)
  BY <1>1, Where DEF LockInv, JobOK, StageOps, Visits
<1>3. job.rows \in Seq(Addr) /\ cache \in Files
  BY DEF LockInv, TypeOK
<1>4. /\ Head(job.rows) \in Addr /\ Head(job.rows) \in Range(job.rows) /\ Tail(job.rows) \in Seq(Addr)
      /\ \A x : x \in Range(job.rows) <=> x = Head(job.rows) \/ x \in Range(Tail(job.rows))
  BY <1>2, <1>3, RangeHeadTail
<1>5. Visited(step, job.txn, RowAt(cache, Head(job.rows))) \in Row
  BY <1>2, <1>3, <1>4, RowOf, VisitedRow
<1>6. /\ cache' \in Files /\ cache'.listed = cache.listed /\ cache'.intent = cache.intent
      /\ RowAt(cache', Head(job.rows)) = Visited(step, job.txn, RowAt(cache, Head(job.rows)))
      /\ \A b \in Addr : b # Head(job.rows) => RowAt(cache', b) = RowAt(cache, b)
  BY <1>1, <1>3, <1>4, <1>5, DumpOne
<1> QED BY <1>1, <1>2, <1>4, <1>5, <1>6

\* A stage puts its lock on a row it has on its context.
LEMMA LocksStage ==
    ASSUME LockInv, NEW step \in {"add", "replace", "remove"}, Visit(step)
    PROVE  LockInv'
<1> DEFINE a == Head(job.rows)
           t == job.txn
<1>1. /\ job.op \in StageOps /\ t \in Txn /\ job.rows # <<>> /\ a \in Addr /\ a \in Range(job.rows)
      /\ Tail(job.rows) \in Seq(Addr)
      /\ \A x : x \in Range(job.rows) <=> x = a \/ x \in Range(Tail(job.rows))
      /\ UNCHANGED <<disk, ctx, phase, made, gone, kills, losses>>
      /\ cache' \in Files
      /\ RowAt(cache', a) = Visited(step, t, RowAt(cache, a))
      /\ \A b \in Addr : b # a => RowAt(cache', b) = RowAt(cache, b)
  BY Visiting DEF Visits
<1>2. phase[t] = "open" /\ a \in Touched(t)
  BY <1>1 DEF LockInv, JobOK
<1>3. RowAt(cache', a).hex.locked /\ RowAt(cache', a).data.txn = t
  <2>1. RowAt(cache, a) \in Row
    BY <1>1, RowOf DEF LockInv, TypeOK
  <2>2. Visited(step, t, RowAt(cache, a)) \in
          {Added(t), Staged(RowAt(cache, a), "updated", t), Staged(RowAt(cache, a), "deleted", t)}
    BY <1>1, <2>1, VisitedRow
  <2> QED BY <1>1, <2>1, <2>2, AddedRow, StagedRow
<1>4. /\ cache'.hex[a].locked /\ cache'.data[a].txn = t
      /\ \A b \in Addr : b # a => cache'.hex[b] = cache.hex[b] /\ cache'.data[b] = cache.data[b]
  BY <1>1, <1>3 DEF RowAt
<1>5. Onward(Tail(job.rows))
  BY DEF Visit
<1>6. /\ job' \in [op : Op, at : Nat, txn : Txn \union {Nobody}, rows : Seq(Addr)]
      /\ job.at = LastStep(job.op) => Idle' /\ job'.op = "none"
      /\ job.at # LastStep(job.op) => /\ job'.op = job.op /\ job'.at = job.at + 1
                                      /\ job'.txn = job.txn /\ job'.rows = Tail(job.rows)
  BY <1>1, <1>5, Further DEF LockInv, StageOps
<1>7. TypeOK'
  BY <1>1, <1>6 DEF LockInv, TypeOK
<1>8. JobOK'
  <2>1. CASE job.at = LastStep(job.op)
    BY <2>1, <1>6 DEF JobOK, StageOps
  <2>2. CASE job.at # LastStep(job.op)
    <3>1. job.op = "update" /\ job.at = 1 /\ Len(job.rows) = 2
      <4>1. job.op = "update"
        BY <2>2, <1>1 DEF LockInv, JobOK, LastStep, StageOps
      <4>2. job.at \in 1 .. 2 /\ Len(job.rows) = 3 - job.at
        BY <4>1 DEF LockInv, JobOK
      <4>3. job.at # 2
        BY <4>1, <2>2 DEF LastStep
      <4> QED BY <4>1, <4>2, <4>3
    <3>2. Len(Tail(job.rows)) = 1 /\ Tail(job.rows) # <<>>
      <4>1. job.rows \in Seq(Addr)
        BY DEF LockInv, TypeOK
      <4>2. Len(Tail(job.rows)) = 1
        BY <3>1, <4>1, <1>1, RangeHeadTail
      <4>3. ASSUME NEW s \in Seq(Addr), Len(s) = 1 PROVE s # <<>>
        BY <4>3
      <4> QED BY <4>2, <4>3, <1>1
    <3>3. Range(Tail(job.rows)) \subseteq made[job.txn] \union gone[job.txn]
      BY <1>1 DEF LockInv, JobOK, Touched
    <3>4. /\ job'.op = "update" /\ job'.at = 2 /\ job'.txn = job.txn /\ job'.rows = Tail(job.rows)
      BY <3>1, <2>2, <1>6
    <3>5. /\ phase'[job'.txn] = "open" /\ job'.txn \in Txn
          /\ Range(job'.rows) \subseteq made'[job'.txn] \union gone'[job'.txn]
      BY <3>3, <3>4, <1>1, <1>2
    <3> QED BY <3>2, <3>4, <3>5 DEF JobOK, StageOps, Touched
  <2> QED BY <2>1, <2>2
<1>9. Signed(cache)' /\ Signed(disk)' /\ Unborn'
  BY <1>1, <1>2, <1>4 DEF LockInv, Signed, Unborn, Touched
<1>10. \A u : ~Closing(u) /\ ~Closing(u)'
  BY <1>1, <1>6 DEF Closing, EndOps, StageOps
<1>11. Remembered'
  BY <1>1, <1>10 DEF LockInv, Remembered, Touched
<1>12. Owned'
  BY <1>1, <1>2, <1>4, <1>10 DEF LockInv, Owned, Owner, Settling, StageOps
<1> QED BY <1>7, <1>8, <1>9, <1>11, <1>12 DEF LockInv

\* A commit or a rollback takes its lock off the row, and the rows left are still locked.
LEMMA LocksResolve ==
    ASSUME LockInv, NEW step \in {"flip", "undo"}, Visit(step)
    PROVE  LockInv'
<1> DEFINE a == Head(job.rows)
           t == job.txn
<1>1. /\ t \in Txn /\ job.rows # <<>> /\ a \in Addr /\ a \in Range(job.rows)
      /\ Tail(job.rows) \in Seq(Addr)
      /\ \A x : x \in Range(job.rows) <=> x = a \/ x \in Range(Tail(job.rows))
      /\ \/ step = "flip" /\ job.op = "commit" /\ job.at = 4
         \/ step = "undo" /\ job.op = "rollback" /\ job.at = 1
      /\ UNCHANGED <<disk, ctx, phase, made, gone, kills, losses>>
      /\ cache' \in Files
      /\ RowAt(cache', a) = Visited(step, t, RowAt(cache, a))
      /\ \A b \in Addr : b # a => RowAt(cache', b) = RowAt(cache, b)
  BY Visiting DEF Visits
<1>2. \/ RowAt(cache, a).data.txn # t /\ RowAt(cache', a) = RowAt(cache, a)
      \/ RowAt(cache, a).data.txn = t /\ ~RowAt(cache', a).hex.locked /\ RowAt(cache', a).data.txn = Nobody
  <2>1. RowAt(cache, a) \in Row
    BY <1>1, RowOf DEF LockInv, TypeOK
  <2> QED BY <1>1, <2>1, VisitedRow, CommittedRow, RolledBackRow
<1>3. /\ \A b \in Addr : b # a => cache'.hex[b] = cache.hex[b] /\ cache'.data[b] = cache.data[b]
      /\ \/ cache.data[a].txn # t /\ cache'.hex[a] = cache.hex[a] /\ cache'.data[a] = cache.data[a]
         \/ ~cache'.hex[a].locked /\ cache'.data[a].txn = Nobody
  BY <1>1, <1>2 DEF RowAt
<1>4. IF Tail(job.rows) # <<>> THEN job' = [job EXCEPT !.rows = Tail(job.rows)]
                               ELSE Onward(Tail(job.rows))
  BY <1>1 DEF Visit
<1>5. /\ job' \in [op : Op, at : Nat, txn : Txn \union {Nobody}, rows : Seq(Addr)]
      /\ job'.op = job.op /\ job'.txn = job.txn /\ job'.rows = Tail(job.rows)
      /\ job'.at = IF Tail(job.rows) # <<>> THEN job.at ELSE job.at + 1
  <2>1. job \in [op : Op, at : Nat, txn : Txn \union {Nobody}, rows : Seq(Addr)]
    BY DEF LockInv, TypeOK
  <2>2. CASE Tail(job.rows) # <<>>
    BY <2>1, <2>2, <1>1, <1>4
  <2>3. CASE Tail(job.rows) = <<>>
    <3>1. job.at # LastStep(job.op) /\ job.op \notin {"none", "recover"} /\ Onward(Tail(job.rows))
      BY <1>1, <1>4, <2>3 DEF LastStep
    <3> QED BY <3>1, <2>3, <1>1, Further DEF LockInv
  <2> QED BY <2>2, <2>3
<1>6. TypeOK'
  BY <1>1, <1>5 DEF LockInv, TypeOK
<1>7. JobOK'
  <2>1. CASE job.op = "commit"
    BY <2>1, <1>1, <1>5 DEF LockInv, JobOK, StageOps
  <2>2. CASE job.op = "rollback"
    BY <2>2, <1>1, <1>5 DEF LockInv, JobOK, StageOps
  <2> QED BY <2>1, <2>2, <1>1
<1>8. Signed(cache)' /\ Signed(disk)' /\ Unborn'
  BY <1>1, <1>3 DEF LockInv, Signed, Unborn, Touched
<1>9. \A u : Closing(u)' <=> Closing(u)
  BY <1>5 DEF Closing
<1>10. Remembered'
  BY <1>1, <1>9 DEF LockInv, Remembered, Touched
<1>11. Owned'
  <2>1. ASSUME NEW b \in Addr, cache'.hex[b].locked PROVE Owner(cache.data[b].txn, b)'
    <3>1. cache'.hex[b] = cache.hex[b] /\ cache'.data[b] = cache.data[b] /\ (b = a => cache.data[a].txn # t)
      BY <2>1, <1>3
    <3>2. Owner(cache.data[b].txn, b)
      BY <3>1, <2>1, <1>1 DEF LockInv, Owned, Settling
    <3>3. CASE phase[cache.data[b].txn] = "open" /\ ~Closing(cache.data[b].txn)
      BY <3>1, <3>2, <3>3, <1>1, <1>9 DEF Owner
    <3>4. CASE Closing(cache.data[b].txn) /\ b \in Range(job.rows)
      <4>1. cache.data[b].txn = t
        BY <3>4 DEF Closing
      <4> QED BY <4>1, <3>1, <3>2, <3>4, <1>1, <1>5, <1>9 DEF Owner
    <3> QED BY <3>2, <3>3, <3>4 DEF Owner
  <2> QED BY <2>1 DEF Owned
<1> QED BY <1>6, <1>7, <1>8, <1>10, <1>11 DEF LockInv

\* What the kernel writes back was written by a transaction that touched the row.
LEMMA LocksWriteBack ==
    ASSUME LockInv, WriteBack
    PROVE  LockInv'
<1>1. UNCHANGED <<cache, job, ctx, phase, made, gone, kills, losses>>
  BY DEF WriteBack
<1>2. disk' \in Files /\ \A a \in Addr : disk'.data[a] \in {disk.data[a], cache.data[a]}
  <2>1. cache \in Files /\ disk \in Files
    BY DEF LockInv, TypeOK
  <2>2. ASSUME NEW a \in Addr, disk' = [disk EXCEPT !.hex[a] = cache.hex[a]]
        PROVE  disk' \in Files /\ disk'.data = disk.data
    BY <2>1, <2>2 DEF Files
  <2>3. ASSUME NEW a \in Addr, disk' = [disk EXCEPT !.data[a] = cache.data[a]]
         PROVE  disk' \in Files /\ \A b \in Addr : disk'.data[b] \in {disk.data[b], cache.data[b]}
    BY <2>1, <2>3 DEF Files
  <2>4. ASSUME NEW t \in Txn, disk' = [disk EXCEPT !.listed[t] = cache.listed[t]]
        PROVE  disk' \in Files /\ disk'.data = disk.data
    BY <2>1, <2>4 DEF Files
  <2>5. ASSUME NEW t \in Txn, disk' = [disk EXCEPT !.intent[t] = cache.intent[t]]
        PROVE  disk' \in Files /\ disk'.data = disk.data
    BY <2>1, <2>5 DEF Files
  <2> QED BY <2>2, <2>3, <2>4, <2>5 DEF WriteBack
<1>3. TypeOK'
  BY <1>1, <1>2 DEF LockInv, TypeOK
<1>4. JobOK' /\ Unborn' /\ Remembered' /\ Owned' /\ Signed(cache)'
  BY <1>1 DEF LockInv, JobOK, Unborn, Remembered, Owned, Signed, Touched, Closing, Owner, Settling, Idle, Left
<1>5. Signed(disk)'
  BY <1>1, <1>2 DEF LockInv, Signed, Touched
<1> QED BY <1>3, <1>4, <1>5 DEF LockInv

\* startup recovery with these files before it
LEMMA Recovering ==
    ASSUME NEW files, Recovery(files)
    PROVE  /\ job' \in [op : Op, at : Nat, txn : Txn \union {Nobody}, rows : Seq(Addr)]
           /\ job'.rows = <<>> /\ job'.txn = Nobody
           /\ \/ Idle' /\ job'.op = "none" /\ Left(files) = {}
              \/ job'.op = "recover" /\ job'.at = 1 /\ Left(files) # {}
              \/ job'.op = "recover" /\ job'.at = 2 /\ Left(files) = {}
<1>1. <<>> \in Seq(Addr)
  OBVIOUS
<1>2. CASE Left(files) = {} /\ Records(files) = {}
  <2>1. job' = NoJob
    BY <1>2 DEF Recovery
  <2> QED BY <2>1, <1>1, <1>2 DEF NoJob, Job, Op, Idle
<1>3. CASE Left(files) = {} /\ Records(files) # {}
  <2>1. job' = [op |-> "recover", at |-> 2, txn |-> Nobody, rows |-> <<>>]
    BY <1>3 DEF Recovery, Job
  <2> QED BY <2>1, <1>1, <1>3 DEF Op
<1>4. CASE Left(files) # {}
  <2>1. job' = [op |-> "recover", at |-> 1, txn |-> Nobody, rows |-> <<>>]
    BY <1>4 DEF Recovery, Job
  <2> QED BY <2>1, <1>1, <1>4 DEF Op
<1> QED BY <1>2, <1>3, <1>4

\* recovery under way or over: nothing is open
LEMMA LocksRecovery ==
    ASSUME TypeOK, Unborn, cache' \in Files, disk' \in Files, Signed(cache)', Signed(disk)',
           Recovery(cache'), UNCHANGED <<made, gone>>, ctx' \in [Txn -> Seq(Addr)],
           phase' \in [Txn -> Phase], \A t \in Txn : phase'[t] # "open",
           \A t \in Txn : phase'[t] = "new" => phase[t] = "new",
           kills' \in 0 .. MaxKills, losses' \in 0 .. MaxLosses
    PROVE  LockInv'
<1>1. /\ job' \in [op : Op, at : Nat, txn : Txn \union {Nobody}, rows : Seq(Addr)]
      /\ job'.txn = Nobody
      /\ \/ Idle' /\ job'.op = "none" /\ Left(cache') = {}
         \/ job'.op = "recover" /\ job'.at = 1
         \/ job'.op = "recover" /\ job'.at = 2 /\ Left(cache') = {}
  BY Recovering
<1>2. TypeOK'
  BY <1>1 DEF TypeOK
<1>3. JobOK'
  BY <1>1 DEF JobOK, StageOps
<1>4. Unborn' /\ Remembered'
  BY DEF Unborn, Remembered, Touched
<1>5. Owned'
  BY <1>1 DEF Owned, Settling, Left
<1> QED BY <1>2, <1>3, <1>4, <1>5 DEF LockInv

\* A row that recovery settles is locked no more; the others are as they were.
LEMMA Settling1 ==
    ASSUME LockInv, Settle
    PROVE  /\ Settling /\ UNCHANGED <<disk, ctx, phase, made, gone, kills, losses>>
           /\ Recovery(cache') /\ \A t \in Txn : phase[t] # "open"
           /\ cache' \in Files /\ cache'.listed = cache.listed /\ cache'.intent = cache.intent
           /\ \E a \in Addr :
                /\ cache.hex[a].locked
                /\ RowAt(cache', a) = Resolved(cache, RowAt(cache, a))
                /\ RowAt(cache', a).data.txn = Nobody /\ ~RowAt(cache', a).hex.locked
                /\ \A b \in Addr : b # a => RowAt(cache', b) = RowAt(cache, b)
<1>1. /\ At("settle") /\ UNCHANGED <<disk, ctx, phase, made, gone, kills, losses>>
      /\ Recovery(cache')
  BY DEF Settle
<1>2. PICK a \in Left(cache) :
        cache' = DumpControl(cache, a, Resolved(cache, RowAt(cache, a)))
  BY DEF Settle
<1>3. Settling /\ \A t \in Txn : phase[t] # "open"
  BY <1>1, Where DEF LockInv, JobOK, Settling
<1>4. a \in Addr /\ cache.hex[a].locked /\ cache \in Files
  BY DEF Left, LockInv, TypeOK
<1>5. /\ Resolved(cache, RowAt(cache, a)) \in Row
      /\ Resolved(cache, RowAt(cache, a)).data.txn = Nobody
      /\ ~Resolved(cache, RowAt(cache, a)).hex.locked
  BY <1>4, RowOf, CommittedRow, RolledBackRow DEF Resolved
<1>6. /\ cache' \in Files /\ cache'.listed = cache.listed /\ cache'.intent = cache.intent
      /\ RowAt(cache', a) = Resolved(cache, RowAt(cache, a))
      /\ \A b \in Addr : b # a => RowAt(cache', b) = RowAt(cache, b)
  BY <1>2, <1>4, <1>5, DumpOne
<1> QED BY <1>1, <1>3, <1>4, <1>5, <1>6

LEMMA LocksSettle ==
    ASSUME LockInv, Settle
    PROVE  LockInv'
<1>1. /\ UNCHANGED <<disk, ctx, phase, made, gone, kills, losses>>
      /\ Recovery(cache') /\ cache' \in Files /\ \A t \in Txn : phase[t] # "open"
  BY Settling1
<1>2. PICK a \in Addr : /\ RowAt(cache', a).data.txn = Nobody
                        /\ \A b \in Addr : b # a => RowAt(cache', b) = RowAt(cache, b)
  BY Settling1
<1>3. Signed(cache)' /\ Signed(disk)'
  BY <1>1, <1>2 DEF LockInv, Signed, RowAt, Touched
<1> QED BY <1>1, <1>3, LocksRecovery DEF LockInv, TypeOK

LEMMA Sweeping ==
    ASSUME LockInv, Sweep
    PROVE  /\ UNCHANGED <<disk, ctx, phase, made, gone, kills, losses>>
           /\ Recovery(cache') /\ Left(cache) = {} /\ \A t \in Txn : phase[t] # "open"
           /\ cache' \in Files /\ cache'.hex = cache.hex /\ cache'.data = cache.data
           /\ cache'.intent = cache.intent
<1>1. /\ At("sweep") /\ UNCHANGED <<disk, ctx, phase, made, gone, kills, losses>>
      /\ Recovery(cache')
      /\ \E t \in Records(cache) : cache' = [cache EXCEPT !.listed[t] = FALSE]
  BY DEF Sweep
<1>2. Left(cache) = {} /\ \A t \in Txn : phase[t] # "open"
  BY <1>1, Where DEF LockInv, JobOK
<1>3. cache' \in Files /\ cache'.hex = cache.hex /\ cache'.data = cache.data /\ cache'.intent = cache.intent
  <2>1. cache \in Files
    BY DEF LockInv, TypeOK
  <2>2. PICK t \in Txn : cache' = [cache EXCEPT !.listed[t] = FALSE]
    BY <1>1 DEF Records
  <2> QED BY <2>1, <2>2 DEF Files
<1> QED BY <1>1, <1>2, <1>3

LEMMA LocksSweep ==
    ASSUME LockInv, Sweep
    PROVE  LockInv'
<1>1. Signed(cache)' /\ Signed(disk)'
  BY Sweeping DEF LockInv, Signed, Touched
<1> QED BY <1>1, Sweeping, LocksRecovery DEF LockInv, TypeOK

\* A restart on files whose rows name only transactions that touched them.
LEMMA LocksRestart ==
    ASSUME LockInv, NEW files \in Files, Signed(files), Restart(files), UNCHANGED disk,
           kills' \in 0 .. MaxKills, losses' \in 0 .. MaxLosses
    PROVE  LockInv'
<1>1. /\ cache' = files /\ Recovery(files) /\ UNCHANGED <<made, gone>>
      /\ ctx' = [t \in Txn |-> <<>>]
      /\ phase' = [t \in Txn |-> IF phase[t] = "open" THEN "over" ELSE phase[t]]
  BY DEF Restart
<1>2. ctx' \in [Txn -> Seq(Addr)]
  BY <1>1
<1>3. phase' \in [Txn -> Phase] /\ \A t \in Txn : phase'[t] # "open" /\ (phase'[t] = "new" => phase[t] = "new")
  BY <1>1 DEF LockInv, TypeOK, Phase
<1>4. Signed(cache)' /\ Signed(disk)'
  BY <1>1 DEF LockInv, Signed, Touched
<1> QED BY <1>1, <1>2, <1>3, <1>4, LocksRecovery DEF LockInv, TypeOK

\* the row that is being written, and what it is to be
LEMMA DumpedRow ==
    ASSUME LockInv, NEW d \in Dumps
    PROVE  /\ d[1] \in Addr /\ d[2] \in Row /\ RowAt(cache, d[1]) \in Row
           /\ \/ \E step \in Visits :
                   /\ At(step) /\ job.txn \in Txn
                   /\ d[1] = Head(job.rows) /\ job.rows # <<>>
                   /\ d[2] = Visited(step, job.txn, RowAt(cache, d[1]))
              \/ cache.hex[d[1]].locked /\ d[2] = Resolved(cache, RowAt(cache, d[1]))
<1>1. cache \in Files /\ job.rows \in Seq(Addr)
  BY DEF LockInv, TypeOK
<1>2. ASSUME NEW step \in Visits, At(step),
             d = <<Head(job.rows), Visited(step, job.txn, RowAt(cache, Head(job.rows)))>>
      PROVE  /\ job.txn \in Txn /\ job.rows # <<>> /\ d[1] \in Addr /\ d[2] \in Row
             /\ RowAt(cache, d[1]) \in Row
  <2>1. job.txn \in Txn /\ job.rows # <<>>
    BY <1>2, Where DEF LockInv, JobOK, Visits, StageOps
  <2>2. Head(job.rows) \in Addr
    BY <1>1, <2>1, RangeHeadTail
  <2> QED BY <2>1, <2>2, <1>1, <1>2, RowOf, VisitedRow
<1>3. ASSUME NEW a \in Left(cache), d = <<a, Resolved(cache, RowAt(cache, a))>>
      PROVE  /\ cache.hex[d[1]].locked /\ d[1] \in Addr /\ d[2] \in Row
             /\ RowAt(cache, d[1]) \in Row
  BY <1>1, <1>3, RowOf, CommittedRow, RolledBackRow DEF Left, Resolved
<1> QED BY <1>2, <1>3 DEF Dumps

\* its transaction has touched it, before and after
LEMMA DumpedTxn ==
    ASSUME LockInv, NEW d \in Dumps
    PROVE  d[2].data.txn \in Txn => d[1] \in Touched(d[2].data.txn)
<1> DEFINE a == d[1]
           c == RowAt(cache, a)
<1>1. a \in Addr /\ c \in Row /\ c.data = cache.data[a] /\ Nobody \notin Txn
  BY DumpedRow DEF RowAt
<1>2. c.data.txn \in Txn => a \in Touched(c.data.txn)
  BY <1>1 DEF LockInv, Signed
<1>3. ASSUME NEW step \in Visits, At(step), job.txn \in Txn, a = Head(job.rows), job.rows # <<>>,
             d[2] = Visited(step, job.txn, c)
      PROVE  d[2].data.txn \in Txn => a \in Touched(d[2].data.txn)
  <2>1. CASE step \in {"add", "replace", "remove"}
    <3>1. job.op \in StageOps
      BY <1>3, <2>1, Where DEF LockInv, StageOps
    <3>2. a \in Touched(job.txn)
      <4>1. job.rows \in Seq(Addr)
        BY DEF LockInv, TypeOK
      <4> QED BY <3>1, <4>1, <1>3, RangeHeadTail DEF LockInv, JobOK
    <3>3. d[2].data.txn = job.txn
      BY <1>1, <1>3, <2>1, VisitedRow, AddedRow, StagedRow
    <3> QED BY <3>2, <3>3
  <2>2. CASE step \in {"flip", "undo"}
    <3>1. d[2] = c \/ d[2].data.txn = Nobody
      BY <1>1, <1>3, <2>2, VisitedRow, CommittedRow, RolledBackRow
    <3> QED BY <3>1, <1>1, <1>2
  <2> QED BY <1>3, <2>1, <2>2 DEF Visits
<1>4. ASSUME d[2] = Resolved(cache, c) PROVE d[2].data.txn = Nobody
  BY <1>1, <1>4, CommittedRow, RolledBackRow DEF Resolved
<1> QED BY <1>1, <1>3, <1>4, DumpedRow

\* What a kill leaves is the cache, but for one row whose dump it may have cut in two.
LEMMA RemainsOne ==
    ASSUME LockInv, NEW files \in Remains
    PROVE  /\ files \in Files /\ files.listed = cache.listed /\ files.intent = cache.intent
           /\ \/ files = cache
              \/ \E d \in Dumps :
                   /\ RowAt(files, d[1]) \in Cut(RowAt(cache, d[1]), d[2])
                   /\ \A b \in Addr : b # d[1] => RowAt(files, b) = RowAt(cache, b)
<1>1. cache \in Files
  BY DEF LockInv, TypeOK
<1>2. CASE files = cache
  BY <1>1, <1>2
<1>3. CASE files # cache
  <2>1. PICK d \in Dumps : \E e \in Cut(RowAt(cache, d[1]), d[2]) : files = DumpControl(cache, d[1], e)
    BY <1>3 DEF Remains
  <2>2. PICK e \in Cut(RowAt(cache, d[1]), d[2]) : files = DumpControl(cache, d[1], e)
    BY <2>1
  <2>3. d[1] \in Addr /\ e \in Row
    BY DumpedRow, CutRow
  <2> QED BY <2>2, <2>3, <1>1, DumpOne
<1> QED BY <1>2, <1>3

LEMMA RemainsSigned ==
    ASSUME LockInv, NEW files \in Remains
    PROVE  files \in Files /\ Signed(files)
<1>1. files \in Files
  BY RemainsOne
<1>2. CASE files = cache
  BY <1>1, <1>2 DEF LockInv
<1>3. ASSUME NEW d \in Dumps, RowAt(files, d[1]) \in Cut(RowAt(cache, d[1]), d[2]),
             \A b \in Addr : b # d[1] => RowAt(files, b) = RowAt(cache, b)
      PROVE  Signed(files)
  <2>1. RowAt(files, d[1]).data.txn \in {RowAt(cache, d[1]).data.txn, d[2].data.txn}
    BY <1>3, DumpedRow, CutRow
  <2>2. files.data[d[1]].txn \in {cache.data[d[1]].txn, d[2].data.txn}
    BY <2>1 DEF RowAt
  <2>3. \A b \in Addr : b # d[1] => files.data[b] = cache.data[b]
    BY <1>3 DEF RowAt
  <2> QED BY <2>2, <2>3, DumpedTxn DEF LockInv, Signed
<1> QED BY <1>1, <1>2, <1>3, RemainsOne

LEMMA LocksCrash ==
    ASSUME LockInv, Kill \/ PowerLoss
    PROVE  LockInv'
<1>1. CASE Kill
  <2>1. PICK files \in Remains : Restart(files)
    BY <1>1 DEF Kill
  <2>2. UNCHANGED disk /\ kills' \in 0 .. MaxKills /\ losses' \in 0 .. MaxLosses
    BY <1>1 DEF Kill, LockInv, TypeOK
  <2> QED BY <2>1, <2>2, RemainsSigned, LocksRestart
<1>2. CASE PowerLoss
  <2>1. Restart(disk) /\ UNCHANGED disk /\ kills' \in 0 .. MaxKills /\ losses' \in 0 .. MaxLosses
    BY <1>2 DEF PowerLoss, LockInv, TypeOK
  <2>2. disk \in Files /\ Signed(disk)
    BY DEF LockInv, TypeOK
  <2> QED BY <2>1, <2>2, LocksRestart
<1> QED BY <1>1, <1>2

LEMMA InitRow ==
    ASSUME Init, NEW a \in Addr
    PROVE  /\ ~cache.hex[a].locked /\ cache.data[a].txn = Nobody
           /\ cache.hex[a].off = IF a \in InitRows THEN "inserted" ELSE "none"
           /\ cache.data[a].died = 0
           /\ a \notin InitRows => cache.data[a].born = 0
  BY DEF Init, NoHex, NoData

LEMMA LocksInit ==
    ASSUME Init
    PROVE  LockInv
<1>1. cache \in Files /\ disk \in Files
  <2> DEFINE hex  == [a \in Addr |-> IF a \in InitRows THEN [NoHex EXCEPT !.off = "inserted"] ELSE NoHex]
             data == [a \in Addr |-> IF a \in InitRows THEN [NoData EXCEPT !.born = 1] ELSE NoData]
  <2>1. hex \in [Addr -> Hex]
    BY DEF NoHex, Hex, RowState
  <2>2. data \in [Addr -> Data]
    BY DEF NoData, Data
  <2>3. [t \in Txn |-> FALSE] \in [Txn -> BOOLEAN] /\ [t \in Txn |-> 0] \in [Txn -> 0 .. 1]
    OBVIOUS
  <2>4. /\ cache = [hex |-> hex, data |-> data, listed |-> [t \in Txn |-> FALSE], intent |-> [t \in Txn |-> 0]]
        /\ disk = cache
    BY DEF Init
  <2> QED BY <2>1, <2>2, <2>3, <2>4 DEF Files
<1>2. NoJob \in [op : Op, at : Nat, txn : Txn \union {Nobody}, rows : Seq(Addr)] /\ <<>> \in Seq(Addr)
  BY DEF NoJob, Job, Op
<1>3. TypeOK
  BY <1>1, <1>2 DEF Init, TypeOK, Phase
<1>4. JobOK
  BY DEF Init, JobOK, NoJob, Job, Idle, StageOps
<1>5. Signed(cache) /\ Signed(disk)
  BY InitRow DEF Signed, Init
<1>6. Unborn /\ Remembered
  BY DEF Init, Unborn, Remembered, Touched
<1>7. Owned
  BY InitRow DEF Owned
<1> QED BY <1>3, <1>4, <1>5, <1>6, <1>7 DEF LockInv

\* an operation of a transaction takes the guard
Calls == \E t \in Txn :
    \/ Begin(t) \/ Commit(t) \/ Rollback(t)
    \/ \E n \in Addr : Insert(t, n) \/ Delete(t, n) \/ \E a \in Addr : Update(t, a, n)

LEMMA LocksCall ==
    ASSUME LockInv, Calls
    PROVE  LockInv'
<1>1. ASSUME NEW t \in Txn, Begin(t) PROVE LockInv'
  BY <1>1, LocksBegin
<1>2. ASSUME NEW t \in Txn, Commit(t) \/ Rollback(t) PROVE LockInv'
  <2>1. ctx[t] \in Seq(Addr)
    BY DEF LockInv, TypeOK
  <2>2. Reverse(ctx[t]) \in Seq(Addr) /\ Range(Reverse(ctx[t])) = Range(ctx[t])
    BY <2>1, ReverseRange
  <2> QED BY <1>2, <2>1, <2>2, LocksEnd DEF Commit, Rollback
<1>3. ASSUME NEW t \in Txn, NEW n \in Addr, Insert(t, n) PROVE LockInv'
  <2>3. /\ "insert" \in StageOps /\ {n} \in SUBSET Addr /\ {} \in SUBSET Addr
        /\ Len(<<n>>) = IF "insert" = "update" THEN 2 ELSE 1
    BY RangeShort DEF StageOps
  <2>1. Staging(t, "insert", <<n>>, {n}, {})
    BY <1>3 DEF Insert
  <2>2. <<n>> \in Seq(Addr) /\ Range(<<n>>) = {n} \union {} /\ <<n>> # <<>>
    BY RangeShort
  <2> QED BY <2>1, <2>2, <2>3, LocksStaging
<1>4. ASSUME NEW t \in Txn, NEW n \in Addr, Delete(t, n) PROVE LockInv'
  <2>3. /\ "delete" \in StageOps /\ {n} \in SUBSET Addr /\ {} \in SUBSET Addr
        /\ Len(<<n>>) = IF "delete" = "update" THEN 2 ELSE 1
    BY RangeShort DEF StageOps
  <2>1. Staging(t, "delete", <<n>>, {}, {n})
    BY <1>4 DEF Delete
  <2>2. <<n>> \in Seq(Addr) /\ Range(<<n>>) = {} \union {n} /\ <<n>> # <<>>
    BY RangeShort
  <2> QED BY <2>1, <2>2, <2>3, LocksStaging
<1>5. ASSUME NEW t \in Txn, NEW n \in Addr, NEW a \in Addr, Update(t, a, n) PROVE LockInv'
  <2>1. Staging(t, "update", <<a, n>>, {n}, {a})
    BY <1>5 DEF Update
  <2>2. /\ <<a, n>> \in Seq(Addr) /\ <<a, n>> # <<>> /\ Range(<<a, n>>) = {a, n}
        /\ Len(<<a, n>>) = IF "update" = "update" THEN 2 ELSE 1
    BY RangeShort
  <2>3. /\ "update" \in StageOps /\ {n} \in SUBSET Addr /\ {a} \in SUBSET Addr
        /\ {a, n} = {n} \union {a}
    BY DEF StageOps
  <2> QED BY <2>1, <2>2, <2>3, LocksStaging
<1> QED BY <1>1, <1>2, <1>3, <1>4, <1>5 DEF Calls

LEMMA LocksDo ==
    ASSUME LockInv, Do
    PROVE  LockInv'
<1>1. ASSUME NEW step \in Visits, Visit(step) PROVE LockInv'
  BY <1>1, LocksStage, LocksResolve DEF Visits
<1>2. CASE \/ Return("opened", "open") \/ Return("acked", "acked") \/ Return("over", "over")
  BY <1>2, LocksReturn
<1>3. CASE List("list", TRUE) \/ List("free", FALSE)
  BY <1>3, LocksList
<1>4. CASE Blank \/ Intend \/ SyncData \/ SyncHexmap
  BY <1>4, LocksBlank, LocksIntend, LocksSync
<1> QED BY <1>1, <1>2, <1>3, <1>4 DEF Do

LEMMA LocksStutter ==
    ASSUME LockInv, UNCHANGED vars
    PROVE  LockInv'
  BY DEF vars, LockInv, TypeOK, JobOK, Signed, Unborn, Remembered, Owned, Owner, Closing, Settling,
         Touched, Idle, Left

LEMMA LocksNext ==
    ASSUME LockInv, [Next]_vars
    PROVE  LockInv'
<1>1. \/ UNCHANGED vars \/ Calls \/ Do \/ WriteBack \/ Settle \/ Sweep \/ Kill \/ PowerLoss
  BY DEF Next, Done, Calls
<1> QED BY <1>1, LocksStutter, LocksCall, LocksDo, LocksWriteBack, LocksSettle, LocksSweep, LocksCrash

\* The locking part of the invariant holds always.
THEOREM Locks == Spec => []LockInv
<1>1. Init => LockInv
  BY LocksInit
<1>2. LockInv /\ [Next]_vars => LockInv'
  BY LocksNext
<1> QED BY <1>1, <1>2, PTL DEF Spec

\* Every variable keeps its type (TypeOK).
THEOREM Types == Spec => []TypeOK
<1>1. LockInv => TypeOK
  BY DEF LockInv
<1> QED BY <1>1, Locks, PTL

\* Once the store is open, a row is locked only by a live transaction that has it on its
\* context (NoOrphanLocks): memory_initialize settles every row a dead transaction left
\* locked, wherever the crash fell, in the middle of a dump_control included.
THEOREM NoRowIsLeftLocked == Spec => []NoOrphanLocks
<1>1. LockInv => NoOrphanLocks
  <2> SUFFICES ASSUME LockInv, Idle, NEW a \in Addr, cache.hex[a].locked
               PROVE  \E t \in Txn : /\ phase[t] = "open" /\ cache.data[a].txn = t
                                     /\ \E i \in 1 .. Len(ctx[t]) : ctx[t][i] = a
    BY DEF NoOrphanLocks
  <2> DEFINE t == cache.data[a].txn
  <2>1. t \in Txn /\ phase[t] = "open" /\ ~Closing(t)
    BY IdleJob DEF LockInv, Owned, Owner
  <2>2. a \in Range(ctx[t]) /\ ctx[t] \in Seq(Addr)
    BY <2>1 DEF LockInv, TypeOK, Signed, Remembered
  <2>3. \E i \in 1 .. Len(ctx[t]) : ctx[t][i] = a
    BY <2>2 DEF Range
  <2> QED BY <2>1, <2>3
<1> QED BY <1>1, Locks, PTL

-----------------------------------------------------------------------------
(* The addresses nobody has used                                           *)

Used == InitRows \union UNION {made[t] : t \in Txn}

\* nothing was ever written there
Blanks(files) == \A a \in Addr \ Used : files.hex[a] = NoHex /\ files.data[a].born = 0

UsedInv ==
    /\ Blanks(cache) /\ Blanks(disk)
    /\ \A t \in Txn : gone[t] \subseteq Used

LEMMA FreshRow ==
    ASSUME UsedInv, NEW a \in Addr, Fresh(a)
    PROVE  cache.hex[a] = NoHex /\ cache.data[a].born = 0
  BY DEF UsedInv, Blanks, Used, Fresh

LEMMA TouchedUsed ==
    ASSUME UsedInv, NEW t \in Txn
    PROVE  Touched(t) \subseteq Used
  BY DEF UsedInv, Used, Touched

\* a row somebody has locked, or may take
LEMMA UsedRow ==
    ASSUME UsedInv, NEW a \in Addr
    PROVE  /\ cache.hex[a].locked => a \in Used
           /\ \A t : Free(t, a) => a \in Used
  BY DEF UsedInv, Blanks, NoHex, Free, Alive, RowAt

LEMMA UsedFiles ==
    ASSUME UsedInv, UNCHANGED <<made, gone>>,
           \A a \in Addr \ Used :
             /\ cache'.hex[a] \in {cache.hex[a], disk.hex[a]}
             /\ cache'.data[a] \in {cache.data[a], disk.data[a]}
             /\ disk'.hex[a] \in {cache.hex[a], disk.hex[a]}
             /\ disk'.data[a] \in {cache.data[a], disk.data[a]}
    PROVE  UsedInv'
<1>1. Used' = Used
  BY DEF Used
<1>2. Blanks(cache)' /\ Blanks(disk)'
  BY <1>1 DEF UsedInv, Blanks
<1> QED BY <1>1, <1>2 DEF UsedInv

LEMMA UsedStaging ==
    ASSUME LockInv, UsedInv, NEW t \in Txn, NEW op, NEW rows, NEW new \in SUBSET Addr,
           NEW old \in SUBSET Used, Staging(t, op, rows, new, old)
    PROVE  UsedInv'
<1>1. /\ UNCHANGED <<cache, disk>>
      /\ made' = [made EXCEPT ![t] = @ \union new]
      /\ gone' = [gone EXCEPT ![t] = @ \union old]
  BY DEF Staging
<1>2. /\ \A u \in Txn : made[u] \subseteq made'[u]
      /\ \A u \in Txn : gone'[u] \subseteq gone[u] \union old
  BY <1>1 DEF LockInv, TypeOK
<1>3. Used \subseteq Used'
  BY <1>2 DEF Used
<1> QED BY <1>1, <1>2, <1>3 DEF UsedInv, Blanks

\* the row a dump is of, if the dump changes it
LEMMA UsedDumped ==
    ASSUME LockInv, UsedInv, NEW d \in Dumps
    PROVE  d[1] \in Used \/ d[2] = RowAt(cache, d[1])
<1>1. d[1] \in Addr /\ RowAt(cache, d[1]) \in Row /\ RowAt(cache, d[1]).data = cache.data[d[1]]
  BY DumpedRow DEF RowAt
<1>2. ASSUME NEW step \in Visits, At(step), job.txn \in Txn, d[1] = Head(job.rows),
             job.rows # <<>>, d[2] = Visited(step, job.txn, RowAt(cache, d[1]))
      PROVE  d[1] \in Touched(job.txn) \/ d[2] = RowAt(cache, d[1])
  <2>1. CASE step \in {"add", "replace", "remove"}
    <3>1. job.op \in StageOps /\ job.rows \in Seq(Addr)
      BY <1>2, <2>1, Where DEF LockInv, StageOps, TypeOK
    <3> QED BY <3>1, <1>2, RangeHeadTail DEF LockInv, JobOK
  <2>2. CASE step \in {"flip", "undo"}
    BY <2>2, <1>1, <1>2, VisitedRow DEF LockInv, Signed
  <2> QED BY <1>2, <2>1, <2>2 DEF Visits
<1> QED BY <1>1, <1>2, DumpedRow, TouchedUsed, UsedRow

LEMMA UsedCall ==
    ASSUME LockInv, UsedInv, Calls
    PROVE  UsedInv'
<1>1. ASSUME NEW t \in Txn, Begin(t) \/ Commit(t) \/ Rollback(t) PROVE UsedInv'
  BY <1>1, UsedFiles DEF Begin, Commit, Rollback, End
<1>2. ASSUME NEW t \in Txn, NEW n \in Addr, Insert(t, n) PROVE UsedInv'
  BY <1>2, UsedStaging DEF Insert
<1>3. ASSUME NEW t \in Txn, NEW n \in Addr, Delete(t, n) PROVE UsedInv'
  BY <1>3, UsedStaging, UsedRow DEF Delete
<1>4. ASSUME NEW t \in Txn, NEW n \in Addr, NEW a \in Addr, Update(t, a, n) PROVE UsedInv'
  BY <1>4, UsedStaging, UsedRow DEF Update
<1> QED BY <1>1, <1>2, <1>3, <1>4 DEF Calls

LEMMA UsedDo ==
    ASSUME LockInv, UsedInv, Do
    PROVE  UsedInv'
<1>1. ASSUME NEW step \in Visits, Visit(step) PROVE UsedInv'
  <2> DEFINE a == Head(job.rows)
  <2>1. /\ UNCHANGED <<disk, made, gone>>
        /\ RowAt(cache', a) = Visited(step, job.txn, RowAt(cache, a))
        /\ \A b \in Addr : b # a => RowAt(cache', b) = RowAt(cache, b)
    BY <1>1, Visiting
  <2>2. <<a, Visited(step, job.txn, RowAt(cache, a))>> \in Dumps
    BY <1>1 DEF Visit, Dumps
  <2>3. a \in Used \/ RowAt(cache', a) = RowAt(cache, a)
    BY <2>1, <2>2, UsedDumped
  <2>4. \A b \in Addr \ Used : RowAt(cache', b) = RowAt(cache, b)
    BY <2>1, <2>3
  <2> QED BY <2>1, <2>4, UsedFiles DEF RowAt
<1>2. CASE Blank \/ List("list", TRUE) \/ List("free", FALSE) \/ Intend
  <2>1. cache'.hex = cache.hex /\ cache'.data = cache.data /\ UNCHANGED <<disk, made, gone>>
    BY <1>2 DEF Blank, List, Intend, LockInv, TypeOK, Files
  <2> QED BY <2>1, UsedFiles
<1>3. CASE SyncData \/ SyncHexmap
  <2>1. /\ disk'.hex \in {disk.hex, cache.hex} /\ disk'.data \in {disk.data, cache.data}
        /\ UNCHANGED <<cache, made, gone>>
    BY <1>3 DEF SyncData, SyncHexmap, LockInv, TypeOK, Files
  <2> QED BY <2>1, UsedFiles
<1>4. CASE Return("opened", "open") \/ Return("acked", "acked") \/ Return("over", "over")
  BY <1>4, UsedFiles DEF Return
<1> QED BY <1>1, <1>2, <1>3, <1>4 DEF Do

LEMMA UsedCrash ==
    ASSUME LockInv, UsedInv, Kill \/ PowerLoss
    PROVE  UsedInv'
<1>1. CASE Kill
  <2>1. PICK files \in Remains : cache' = files /\ UNCHANGED <<disk, made, gone>>
    BY <1>1 DEF Kill, Restart
  <2>2. CASE files = cache
    BY <2>1, <2>2, UsedFiles
  <2>3. ASSUME NEW d \in Dumps, RowAt(files, d[1]) \in Cut(RowAt(cache, d[1]), d[2]),
               \A b \in Addr : b # d[1] => RowAt(files, b) = RowAt(cache, b)
        PROVE  UsedInv'
    <3>1. d[1] \in Used \/ RowAt(files, d[1]) = RowAt(cache, d[1])
      BY <2>3, UsedDumped, DumpedRow, CutRow
    <3>2. \A b \in Addr \ Used : RowAt(files, b) = RowAt(cache, b)
      BY <2>3, <3>1
    <3> QED BY <3>2, <2>1, UsedFiles DEF RowAt
  <2> QED BY <2>2, <2>3, RemainsOne
<1>2. CASE PowerLoss
  BY <1>2, UsedFiles DEF PowerLoss, Restart
<1> QED BY <1>1, <1>2

LEMMA UsedSettle ==
    ASSUME LockInv, UsedInv, Settle
    PROVE  UsedInv'
<1>1. UNCHANGED <<disk, made, gone>>
  BY DEF Settle
<1>2. PICK a \in Addr : /\ cache.hex[a].locked
                        /\ \A b \in Addr : b # a => RowAt(cache', b) = RowAt(cache, b)
  BY Settling1
<1>3. \A b \in Addr \ Used : RowAt(cache', b) = RowAt(cache, b)
  BY <1>2, UsedRow
<1> QED BY <1>1, <1>3, UsedFiles DEF RowAt

\* the kernel writes back cells of the cache
LEMMA WrittenBack ==
    ASSUME LockInv, WriteBack
    PROVE  /\ \A a \in Addr : /\ disk'.hex[a] \in {disk.hex[a], cache.hex[a]}
                              /\ disk'.data[a] \in {disk.data[a], cache.data[a]}
           /\ \A t \in Txn : disk'.intent[t] \in {disk.intent[t], cache.intent[t]}
<1>1. cache \in Files /\ disk \in Files
  BY DEF LockInv, TypeOK
<1>2. ASSUME NEW a \in Addr, disk' = [disk EXCEPT !.hex[a] = cache.hex[a]]
       PROVE  /\ \A b \in Addr : /\ disk'.hex[b] \in {disk.hex[b], cache.hex[b]}
                               /\ disk'.data[b] \in {disk.data[b], cache.data[b]}
              /\ \A u \in Txn : disk'.intent[u] \in {disk.intent[u], cache.intent[u]}
  BY <1>1, <1>2 DEF Files
<1>3. ASSUME NEW a \in Addr, disk' = [disk EXCEPT !.data[a] = cache.data[a]]
       PROVE  /\ \A b \in Addr : /\ disk'.hex[b] \in {disk.hex[b], cache.hex[b]}
                               /\ disk'.data[b] \in {disk.data[b], cache.data[b]}
              /\ \A u \in Txn : disk'.intent[u] \in {disk.intent[u], cache.intent[u]}
  BY <1>1, <1>3 DEF Files
<1>4. ASSUME NEW t \in Txn, disk' = [disk EXCEPT !.listed[t] = cache.listed[t]]
       PROVE  /\ \A b \in Addr : /\ disk'.hex[b] \in {disk.hex[b], cache.hex[b]}
                               /\ disk'.data[b] \in {disk.data[b], cache.data[b]}
              /\ \A u \in Txn : disk'.intent[u] \in {disk.intent[u], cache.intent[u]}
  BY <1>1, <1>4 DEF Files
<1>5. ASSUME NEW t \in Txn, disk' = [disk EXCEPT !.intent[t] = cache.intent[t]]
       PROVE  /\ \A b \in Addr : /\ disk'.hex[b] \in {disk.hex[b], cache.hex[b]}
                               /\ disk'.data[b] \in {disk.data[b], cache.data[b]}
              /\ \A u \in Txn : disk'.intent[u] \in {disk.intent[u], cache.intent[u]}
  BY <1>1, <1>5 DEF Files
<1> QED BY <1>2, <1>3, <1>4, <1>5 DEF WriteBack

LEMMA UsedWriteBack ==
    ASSUME LockInv, UsedInv, WriteBack
    PROVE  UsedInv'
<1>1. UNCHANGED <<cache, made, gone>>
  BY DEF WriteBack
<1>2. \A a \in Addr : /\ disk'.hex[a] \in {disk.hex[a], cache.hex[a]}
                       /\ disk'.data[a] \in {disk.data[a], cache.data[a]}
  BY WrittenBack
<1> QED BY <1>1, <1>2, UsedFiles

LEMMA UsedInit ==
    ASSUME Init
    PROVE  UsedInv
<1>1. \A a \in Addr \ InitRows : cache.hex[a] = NoHex /\ cache.data[a].born = 0
  BY DEF Init, NoData
<1>2. Blanks(cache) /\ Blanks(disk)
  BY <1>1 DEF Init, Blanks, Used
<1> QED BY <1>2 DEF Init, UsedInv

LEMMA UsedNext ==
    ASSUME LockInv, UsedInv, [Next]_vars
    PROVE  UsedInv'
<1>1. \/ UNCHANGED vars \/ Calls \/ Do \/ WriteBack \/ Settle \/ Sweep \/ Kill \/ PowerLoss
  BY DEF Next, Done, Calls
<1>2. CASE UNCHANGED vars
  BY <1>2, UsedFiles DEF vars
<1>3. CASE Sweep
  BY <1>3, Sweeping, UsedFiles
<1> QED BY <1>1, <1>2, <1>3, UsedCall, UsedDo, UsedWriteBack, UsedSettle, UsedCrash

-----------------------------------------------------------------------------
(* The rows: what each step of a plan has done                             *)

\* only a commit that has passed its commit point and not returned has an intention
Intended(files) == \A t \in Txn : files.intent[t] # 0 => phase[t] = "committed"

\* a transaction has its record from its begin until its rows are settled
Enlisted ==
    /\ \A t \in Txn : phase[t] = "open" /\ ~Closing(t) => cache.listed[t]
    /\ job.op = "begin" /\ job.at > 1 => cache.listed[job.txn]
    /\ job.op = "commit" /\ job.at < 5 => cache.listed[job.txn]

\* a row locked for t, in the state t staged last
Held(t, a) ==
    /\ cache.hex[a].locked /\ cache.data[a].txn = t
    /\ cache.hex[a].on \in IF a \in gone[t] THEN {"updated", "deleted"} ELSE {"inserted"}

\* the rows a stage under way has still to write
Pending(t) == IF job.op \in StageOps /\ job.txn = t THEN Range(job.rows) ELSE {}

\* every row of an open transaction is locked for it
Holding ==
    \A t \in Txn : phase[t] = "open" /\ ~Closing(t) =>
        \A a \in Touched(t) : a \in Pending(t) \/ Held(t, a)

\* a stage writes its new version on an address nobody has used, and takes a row it may
NewRow(a) ==
    /\ cache.hex[a] = NoHex /\ cache.data[a].born = 0
    /\ a \in made[job.txn] \ gone[job.txn]
OldRow(a) == Free(job.txn, a) /\ a \in gone[job.txn]

Ready ==
    /\ job.op = "insert" \/ (job.op = "update" /\ job.at = 2) => NewRow(job.rows[1])
    /\ job.op = "delete" \/ (job.op = "update" /\ job.at = 1) => OldRow(job.rows[1])
    /\ job.op = "update" /\ job.at = 1 => NewRow(job.rows[2])

\* a version replaced or removed for good
Buried(c) ==
    /\ ~c.hex.locked /\ c.data.txn = Nobody
    /\ c.hex.off \in {"updated", "deleted"} /\ c.data.died = 1

\* a row after the commit of t has moved it
Landed(t, a) ==
    /\ ~cache.hex[a].locked /\ cache.data[a].txn = Nobody
    /\ IF a \in gone[t] THEN Buried(RowAt(cache, a)) ELSE cache.hex[a].off = "inserted"

\* A commit under way: its rows are held up to the move, landed after it, and on the
\* disk after the syncs that follow.
Committing ==
    job.op = "commit" =>
      \A a \in Touched(job.txn) :
        /\ job.at = 1 => Held(job.txn, a) /\ a \in Range(job.rows)
        /\ job.at \in 2 .. 4 =>
             (Held(job.txn, a) /\ a \in Range(job.rows)) \/ Landed(job.txn, a)
        /\ job.at > 4 => Landed(job.txn, a)
        /\ job.at > 5 => disk.data[a] = cache.data[a]
        /\ job.at > 6 => disk.hex[a] = cache.hex[a]

\* its intention, written before the first row is moved and retired after the last is synced
Intent ==
    job.op = "commit" =>
        /\ job.at \in 2 .. 7 => cache.intent[job.txn] = 1
        /\ job.at > 7 => cache.intent[job.txn] = 0
        /\ job.at > 8 => disk.intent[job.txn] = 0

\* the rows a commit not acknowledged has spoken for, and those settled for good
Of(p)   == {t \in Txn : phase[t] = p}
Doubted == UNION {Touched(t) : t \in Of("committed")}
Removed == UNION {gone[t] : t \in Of("acked")}
Rooted  == InitRows \union UNION {made[t] : t \in Of("acked")}

\* a row nobody reads: free, or rolled back, the modify_time stamped first
NeverBorn(c) == c.hex.off \in {"none", "deleted"} /\ c.data.born <= c.data.died

\* what no crash can take back: these files and the disk agree on the fate of the
\* rows not in doubt
Past(files, a) ==
    /\ a \in Removed => Buried(RowAt(files, a)) /\ RowAt(disk, a) = RowAt(files, a)
    /\ a \in Rooted /\ a \notin Removed /\ a \notin Doubted =>
         files.hex[a].off = "inserted" /\ disk.hex[a].off = "inserted"
    /\ a \notin Rooted /\ a \notin Removed /\ a \notin Doubted =>
         NeverBorn(RowAt(files, a)) /\ NeverBorn(RowAt(disk, a))

StoreInv ==
    /\ Intended(cache) /\ Intended(disk) /\ Enlisted
    /\ Holding /\ Ready /\ Committing /\ Intent /\ \A a \in Addr : Past(cache, a)

\* While nobody commits or is acknowledged, the rows in doubt and the rows settled for good stay.
LEMMA SameHistory ==
    ASSUME \A t \in Txn : /\ phase'[t] = "committed" <=> phase[t] = "committed"
                          /\ phase'[t] = "acked" <=> phase[t] = "acked"
                          /\ phase[t] \in {"committed", "acked"} =>
                               made'[t] = made[t] /\ gone'[t] = gone[t]
    PROVE  Removed' = Removed /\ Rooted' = Rooted /\ Doubted' = Doubted
<1>1. Of("committed")' = Of("committed") /\ Of("acked")' = Of("acked")
  BY DEF Of
<1>2. \A t \in Of("committed") : Touched(t)' = Touched(t)
  BY DEF Of, Touched
<1>3. \A t \in Of("acked") : made'[t] = made[t] /\ gone'[t] = gone[t]
  BY DEF Of
<1>4. Removed' = Removed
  BY <1>1, <1>3 DEF Removed
<1>5. Rooted' = Rooted
  BY <1>1, <1>3 DEF Rooted
<1>6. Doubted' = Doubted
  BY <1>1, <1>2 DEF Doubted
<1> QED BY <1>4, <1>5, <1>6

\* pages written back, and nothing else
LEMMA PastWritten ==
    ASSUME NEW a \in Addr, Past(cache, a), Removed' = Removed, Rooted' = Rooted, Doubted' = Doubted,
           cache'.hex[a] = cache.hex[a], cache'.data[a] = cache.data[a],
           disk'.hex[a] \in {disk.hex[a], cache.hex[a]},
           disk'.data[a] \in {disk.data[a], cache.data[a]}
    PROVE  Past(cache, a)'
  BY DEF Past, RowAt, NeverBorn, Buried

\* The operations take the guard.
LEMMA StoreBegin ==
    ASSUME LockInv, StoreInv, NEW t \in Txn, Begin(t)
    PROVE  StoreInv'
<1>1. /\ Idle /\ phase[t] = "new" /\ UNCHANGED <<cache, disk, ctx, phase, made, gone, kills, losses>>
      /\ job' = [op |-> "begin", at |-> 1, txn |-> t, rows |-> <<>>]
  BY DEF Begin, Job
<1>2. Intended(cache)' /\ Intended(disk)'
  BY <1>1 DEF StoreInv, Intended
<1>3. \A u : ~Closing(u) /\ ~Closing(u)' /\ Pending(u) = {}
  BY <1>1, IdleJob DEF Closing, EndOps, Pending, StageOps
<1>4. Enlisted'
  BY <1>1, <1>3 DEF StoreInv, Enlisted
<1>5. Holding'
  BY <1>1, <1>3 DEF StoreInv, Holding, Held, Touched
<1>6. Ready' /\ Committing' /\ Intent'
  BY <1>1 DEF Ready, Committing, Intent
<1>7. \A a \in Addr : Past(cache, a)'
  BY <1>1 DEF StoreInv, Past, Removed, Rooted, Doubted, Of, Touched
<1> QED BY <1>2, <1>4, <1>5, <1>6, <1>7 DEF StoreInv

LEMMA StoreStaging ==
    ASSUME LockInv, StoreInv, NEW t \in Txn, NEW op \in StageOps, NEW rows \in Seq(Addr),
           NEW new \in SUBSET Addr, NEW old \in SUBSET Addr,
           Range(rows) = new \union old,
           op # "delete" => \E n \in new \ old :
                              /\ n = rows[IF op = "insert" THEN 1 ELSE 2]
                              /\ cache.hex[n] = NoHex /\ cache.data[n].born = 0,
           op # "insert" => rows[1] \in old /\ Free(t, rows[1]),
           Staging(t, op, rows, new, old)
    PROVE  StoreInv'
<1>1. /\ Idle /\ phase[t] = "open" /\ UNCHANGED <<cache, disk, phase, kills, losses>>
      /\ job' = [op |-> op, at |-> 1, txn |-> t, rows |-> rows]
      /\ made' = [made EXCEPT ![t] = @ \union new]
      /\ gone' = [gone EXCEPT ![t] = @ \union old]
  BY DEF Staging, Job
<1>2. /\ made'[t] = made[t] \union new /\ gone'[t] = gone[t] \union old
      /\ \A u \in Txn : u # t => made'[u] = made[u] /\ gone'[u] = gone[u]
  BY <1>1 DEF LockInv, TypeOK
<1>3. Intended(cache)' /\ Intended(disk)'
  BY <1>1 DEF StoreInv, Intended
<1>4. \A u : ~Closing(u) /\ ~Closing(u)' /\ Pending(u) = {}
  BY <1>1, IdleJob DEF Closing, EndOps, Pending, StageOps
<1>5. Enlisted'
  BY <1>1, <1>4 DEF StoreInv, Enlisted, StageOps
<1>6. \A a \in Touched(t) : Held(t, a)
  BY <1>1, <1>4 DEF StoreInv, Holding
<1>7. Holding'
  <2>1. ASSUME NEW u \in Txn, phase[u] = "open", NEW a \in Touched(u)', a \notin Pending(u)'
        PROVE  Held(u, a)'
    <3>1. CASE u = t
      <4>1. a \notin new /\ a \notin old
        BY <2>1, <3>1, <1>1 DEF Pending
      <4>2. a \in Touched(t)
        BY <2>1, <3>1, <4>1, <1>2 DEF Touched
      <4> QED BY <4>1, <4>2, <3>1, <1>1, <1>2, <1>6 DEF Held
    <3>2. CASE u # t
      <4>1. a \in Touched(u) /\ Held(u, a)
        BY <2>1, <3>2, <1>2, <1>4 DEF StoreInv, Holding, Touched
      <4> QED BY <4>1, <3>2, <1>1, <1>2 DEF Held
    <3> QED BY <3>1, <3>2
  <2> QED BY <2>1, <1>1 DEF Holding
<1>8. Ready'
  <2>1. \A n \in Addr : cache.hex[n] = NoHex => n \notin gone[t]
    BY <1>6 DEF Held, NoHex, Touched
  <2>2. ASSUME op # "delete"
        PROVE  /\ rows[IF op = "insert" THEN 1 ELSE 2] \in made'[t] \ gone'[t]
               /\ cache.hex[rows[IF op = "insert" THEN 1 ELSE 2]] = NoHex
               /\ cache.data[rows[IF op = "insert" THEN 1 ELSE 2]].born = 0
    BY <2>1, <2>2, <1>2
  <2>3. ASSUME op # "insert" PROVE rows[1] \in gone'[t] /\ Free(t, rows[1])
    BY <2>3, <1>2
  <2>4. \A a : Free(t, a)' <=> Free(t, a)
    BY <1>1 DEF Free, RowAt
  <2>5. job'.op = op /\ job'.at = 1 /\ job'.txn = t /\ job'.rows = rows
    BY <1>1
  <2>6. op = "insert" => NewRow(rows[1])'
    BY <2>2, <2>5, <1>1 DEF NewRow
  <2>7. op = "update" => NewRow(rows[2])'
    BY <2>2, <2>5, <1>1 DEF NewRow
  <2>8. op # "insert" => OldRow(rows[1])'
    BY <2>3, <2>4, <2>5 DEF OldRow
  <2> QED BY <2>5, <2>6, <2>7, <2>8 DEF Ready, StageOps
<1>9. Committing' /\ Intent'
  BY <1>1 DEF Committing, Intent, StageOps
<1>10. \A a \in Addr : Past(cache, a)'
  <2>1. Removed' = Removed /\ Rooted' = Rooted /\ Doubted' = Doubted
    BY <1>1, <1>2, SameHistory
  <2> QED BY <2>1, <1>1, PastWritten DEF StoreInv
<1> QED BY <1>3, <1>5, <1>7, <1>8, <1>9, <1>10 DEF StoreInv

LEMMA StoreEnd ==
    ASSUME LockInv, StoreInv, NEW t \in Txn, NEW op \in {"commit", "rollback"},
           NEW rows \in Seq(Addr), Range(rows) = Range(ctx[t]), End(t, op, rows)
    PROVE  StoreInv'
<1>1. /\ Idle /\ phase[t] = "open" /\ UNCHANGED <<cache, disk, phase, made, gone, kills, losses>>
      /\ job' = [op |-> IF ctx[t] = <<>> THEN "spent" ELSE op, at |-> 1, txn |-> t, rows |-> rows]
  BY DEF End, Job
<1>2. Intended(cache)' /\ Intended(disk)'
  BY <1>1 DEF StoreInv, Intended
<1>3. \A u : ~Closing(u) /\ Pending(u) = {}
  BY <1>1, IdleJob DEF Closing, EndOps, Pending, StageOps
<1>4. Enlisted'
  BY <1>1, <1>3 DEF StoreInv, Enlisted
<1>5. \A u \in Txn : phase[u] = "open" => \A a \in Touched(u) : Held(u, a)
  BY <1>3 DEF StoreInv, Holding
<1>6. \A u, a : Held(u, a)' <=> Held(u, a)
  BY <1>1 DEF Held
<1>7. Holding'
  BY <1>1, <1>5, <1>6 DEF Holding, Touched
<1>8. Ready' /\ Intent'
  BY <1>1 DEF Ready, Intent
<1>9. Committing'
  BY <1>1, <1>3, <1>5, <1>6 DEF Committing, LockInv, Remembered, Touched
<1>10. \A a \in Addr : Past(cache, a)'
  BY <1>1 DEF StoreInv, Past, Removed, Rooted, Doubted, Of, Touched
<1> QED BY <1>2, <1>4, <1>7, <1>8, <1>9, <1>10 DEF StoreInv

\* no row of the cache is touched, and no transaction ends or commits
LEMMA StoreQuiet ==
    ASSUME LockInv, StoreInv, job.op \in {"begin", "commit", "rollback", "spent"},
           job.at # LastStep(job.op), ~(job.op = "commit" /\ job.at \in {1, 4}),
           Onward(job.rows), UNCHANGED <<ctx, phase, made, gone, kills, losses>>,
           cache'.hex = cache.hex, cache'.data = cache.data,
           \A a \in Addr : /\ disk'.hex[a] \in {disk.hex[a], cache.hex[a]}
                           /\ disk'.data[a] \in {disk.data[a], cache.data[a]},
           job.op = "commit" /\ job.at = 5 => disk'.data = cache.data,
           job.op = "commit" /\ job.at = 6 => disk'.hex = cache.hex,
           Intended(cache)', Intended(disk)', Enlisted', Intent'
    PROVE  StoreInv'
<1>1. job'.op = job.op /\ job'.at = job.at + 1 /\ job'.txn = job.txn /\ job'.rows = job.rows
  BY Further DEF LockInv, TypeOK
<1>2. /\ \A u : (Closing(u)' <=> Closing(u)) /\ Pending(u) = {} /\ Pending(u)' = {}
      /\ \A u, a : Held(u, a)' <=> Held(u, a)
  BY <1>1 DEF Closing, Pending, StageOps, Held
<1>3. Holding'
  BY <1>2 DEF StoreInv, Holding, Touched
<1>4. Ready'
  BY <1>1 DEF Ready
<1>5. Committing'
  <2>1. \A u, a : Landed(u, a)' <=> Landed(u, a)
    BY DEF Landed, RowAt
  <2>2. SUFFICES ASSUME job.op = "commit", NEW a \in Touched(job.txn)
                 PROVE  /\ job'.at \in 2 .. 4 =>
                             (Held(job.txn, a) /\ a \in Range(job.rows)) \/ Landed(job.txn, a)
                        /\ job'.at > 4 => Landed(job.txn, a)
                        /\ job'.at > 5 => disk'.data[a] = cache.data[a]
                        /\ job'.at > 6 => disk'.hex[a] = cache.hex[a]
                        /\ job'.at # 1
    BY <2>1, <1>1, <1>2 DEF Committing, Touched
  <2>3. job.at \in 2 .. 10 /\ job.at # 4 /\ job.txn \in Txn
    BY <2>2 DEF LockInv, JobOK
  <2>4. a \in Addr
    BY <2>2, <2>3 DEF LockInv, TypeOK, Touched
  <2>5. /\ job.at \in 2 .. 4 =>
             (Held(job.txn, a) /\ a \in Range(job.rows)) \/ Landed(job.txn, a)
        /\ job.at > 4 => Landed(job.txn, a)
        /\ job.at > 5 => disk.data[a] = cache.data[a]
        /\ job.at > 6 => disk.hex[a] = cache.hex[a]
    BY <2>2 DEF StoreInv, Committing
  <2> QED BY <2>2, <2>3, <2>4, <2>5, <1>1
<1>6. \A a \in Addr : Past(cache, a)'
  <2>1. Removed' = Removed /\ Rooted' = Rooted /\ Doubted' = Doubted
    BY SameHistory
  <2> QED BY <2>1, PastWritten DEF StoreInv
<1> QED BY <1>3, <1>4, <1>5, <1>6 DEF StoreInv

\* The steps that write the transaction records and sync the files.
LEMMA StoreList ==
    ASSUME LockInv, StoreInv, List("list", TRUE) \/ List("free", FALSE)
    PROVE  StoreInv'
<1>1. /\ Onward(job.rows) /\ UNCHANGED <<disk, ctx, phase, made, gone, kills, losses>>
      /\ \/ job.op = "begin" /\ job.at = 1 /\ cache' = [cache EXCEPT !.listed[job.txn] = TRUE]
         \/ /\ \/ job.op = "rollback" /\ job.at = 2
               \/ job.op = "spent" /\ job.at = 1
            /\ cache' = [cache EXCEPT !.listed[job.txn] = FALSE]
  BY Where DEF List, LockInv
<1>2. /\ cache'.hex = cache.hex /\ cache'.data = cache.data /\ cache'.intent = cache.intent
      /\ \A u \in Txn : u # job.txn => cache'.listed[u] = cache.listed[u]
      /\ job.op = "begin" => cache'.listed[job.txn]
  BY <1>1 DEF LockInv, TypeOK, Files, JobOK
<1>3. job'.op = job.op /\ job'.at = job.at + 1 /\ job'.txn = job.txn
  <2>1. job.at # LastStep(job.op) /\ job.op \notin {"none", "recover"}
    BY <1>1 DEF LastStep
  <2>2. job.rows \in Seq(Addr)
    BY DEF LockInv, TypeOK
  <2> QED BY <1>1, <2>1, <2>2, Further DEF LockInv
<1>4. Intended(cache)' /\ Intended(disk)'
  BY <1>1, <1>2 DEF StoreInv, Intended
<1>5. Enlisted'
  <2>1. ASSUME NEW u \in Txn, phase[u] = "open", ~Closing(u)' PROVE cache'.listed[u]
    BY <2>1, <1>1, <1>2, <1>3 DEF StoreInv, Enlisted, Closing, EndOps
  <2> QED BY <2>1, <1>1, <1>2, <1>3 DEF Enlisted
<1>6. Intent'
  BY <1>1, <1>3 DEF Intent
<1>7. \A a \in Addr : /\ disk'.hex[a] \in {disk.hex[a], cache.hex[a]}
                      /\ disk'.data[a] \in {disk.data[a], cache.data[a]}
  BY <1>1
<1> QED BY <1>1, <1>2, <1>4, <1>5, <1>6, <1>7, StoreQuiet DEF LastStep

LEMMA StoreBlank ==
    ASSUME LockInv, StoreInv, Blank
    PROVE  StoreInv'
<1>1. /\ Onward(job.rows) /\ UNCHANGED <<disk, ctx, phase, made, gone, kills, losses>>
      /\ cache' = [cache EXCEPT !.intent[job.txn] = 0]
      /\ \/ job.op = "begin" /\ job.at = 2
         \/ job.op = "commit" /\ job.at = 7
  BY Where DEF Blank, LockInv
<1>2. /\ cache'.hex = cache.hex /\ cache'.data = cache.data /\ cache'.listed = cache.listed
      /\ \A u \in Txn : cache'.intent[u] = IF u = job.txn THEN 0 ELSE cache.intent[u]
  <2>1. cache \in Files /\ 0 \in 0 .. 1
    BY DEF LockInv, TypeOK
  <2> QED BY <1>1, <2>1, IntentField
<1>3. job'.op = job.op /\ job'.at = job.at + 1 /\ job'.txn = job.txn
  <2>1. job.at # LastStep(job.op) /\ job.op \notin {"none", "recover"}
    BY <1>1 DEF LastStep
  <2>2. job.rows \in Seq(Addr)
    BY DEF LockInv, TypeOK
  <2> QED BY <1>1, <2>1, <2>2, Further DEF LockInv
<1>4. Intended(cache)' /\ Intended(disk)'
  BY <1>1, <1>2 DEF StoreInv, Intended
<1>5. Enlisted'
  BY <1>1, <1>2, <1>3 DEF StoreInv, Enlisted, Closing
<1>6. Intent'
  <2>1. job.op = "commit" => job.txn \in Txn
    BY DEF LockInv, JobOK
  <2> QED BY <1>1, <1>2, <1>3, <2>1 DEF Intent
<1>7. \A a \in Addr : /\ disk'.hex[a] \in {disk.hex[a], cache.hex[a]}
                      /\ disk'.data[a] \in {disk.data[a], cache.data[a]}
  BY <1>1
<1> QED BY <1>1, <1>2, <1>4, <1>5, <1>6, <1>7, StoreQuiet DEF LastStep

LEMMA StoreSync ==
    ASSUME LockInv, StoreInv, SyncData \/ SyncHexmap
    PROVE  StoreInv'
<1>1. /\ Onward(job.rows) /\ UNCHANGED <<cache, ctx, phase, made, gone, kills, losses>>
      /\ \/ /\ disk' = [disk EXCEPT !.data = cache.data, !.intent = cache.intent]
            /\ (job.op = "commit" /\ job.at \in {2, 5, 8}) \/ (job.op = "rollback" /\ job.at = 3)
         \/ /\ disk' = [disk EXCEPT !.hex = cache.hex, !.listed = cache.listed]
            /\ (job.op = "commit" /\ job.at \in {3, 6, 9}) \/ (job.op = "rollback" /\ job.at = 4)
  BY Where DEF SyncData, SyncHexmap, LockInv
<1>2. /\ disk'.data \in {disk.data, cache.data} /\ disk'.hex \in {disk.hex, cache.hex}
      /\ disk'.intent \in {disk.intent, cache.intent}
      /\ job.op = "commit" /\ job.at = 5 => disk'.data = cache.data
      /\ job.op = "commit" /\ job.at = 6 => disk'.hex = cache.hex
      /\ job.op = "commit" /\ job.at = 8 => disk'.intent = cache.intent
  <2>1. disk \in Files
    BY DEF LockInv, TypeOK
  <2>2. CASE /\ disk' = [disk EXCEPT !.data = cache.data, !.intent = cache.intent]
             /\ (job.op = "commit" /\ job.at \in {2, 5, 8}) \/ (job.op = "rollback" /\ job.at = 3)
    BY <2>1, <2>2 DEF Files
  <2>3. CASE /\ disk' = [disk EXCEPT !.hex = cache.hex, !.listed = cache.listed]
             /\ (job.op = "commit" /\ job.at \in {3, 6, 9}) \/ (job.op = "rollback" /\ job.at = 4)
    BY <2>1, <2>3 DEF Files
  <2> QED BY <1>1, <2>2, <2>3
<1>3. /\ job'.op = job.op /\ job'.at = job.at + 1 /\ job'.txn = job.txn
      /\ job.at # LastStep(job.op) /\ job.op \in {"commit", "rollback"}
      /\ ~(job.op = "commit" /\ job.at \in {1, 4})
  <2>1. TypeOK /\ JobOK /\ job.op \in {"commit", "rollback"} /\ Onward(job.rows)
    BY <1>1 DEF LockInv
  <2>2. job.rows \in Seq(Addr)
    BY DEF LockInv, TypeOK
  <2>3. job.at # LastStep(job.op) /\ ~(job.op = "commit" /\ job.at \in {1, 4})
    BY <1>1 DEF LastStep
  <2>4. job'.op = job.op /\ job'.at = job.at + 1 /\ job'.txn = job.txn
    BY <2>1, <2>2, <2>3, Further
  <2> QED BY <2>1, <2>3, <2>4
<1>4. Intended(cache)' /\ Intended(disk)'
  BY <1>1, <1>2 DEF StoreInv, Intended
<1>5. Enlisted'
  <2>1. \A u : Closing(u)' <=> Closing(u)
    BY <1>3 DEF Closing
  <2> QED BY <1>1, <1>3, <2>1 DEF StoreInv, Enlisted, LockInv, TypeOK
<1>6. Intent'
  <2>1. CASE job.op = "commit"
    <3>1. job.at \in {2, 3, 5, 6, 8, 9}
      BY <1>1, <2>1
    <3> QED BY <2>1, <3>1, <1>1, <1>2, <1>3 DEF Intent, StoreInv
  <2>2. CASE job.op # "commit"
    BY <2>2, <1>3 DEF Intent
  <2> QED BY <2>1, <2>2
<1>7. \A a \in Addr : /\ disk'.hex[a] \in {disk.hex[a], cache.hex[a]}
                      /\ disk'.data[a] \in {disk.data[a], cache.data[a]}
  BY <1>2
<1> QED BY <1>1, <1>2, <1>3, <1>4, <1>5, <1>6, <1>7, StoreQuiet

LEMMA StoreWriteBack ==
    ASSUME LockInv, StoreInv, WriteBack
    PROVE  StoreInv'
<1>1. UNCHANGED <<cache, job, ctx, phase, made, gone, kills, losses>>
  BY DEF WriteBack
<1>2. /\ \A a \in Addr : /\ disk'.hex[a] \in {disk.hex[a], cache.hex[a]}
                         /\ disk'.data[a] \in {disk.data[a], cache.data[a]}
      /\ \A t \in Txn : disk'.intent[t] \in {disk.intent[t], cache.intent[t]}
  BY WrittenBack
<1>3. Intended(cache)' /\ Intended(disk)'
  BY <1>1, <1>2 DEF StoreInv, Intended
<1>4. Enlisted' /\ Holding' /\ Ready'
  BY <1>1 DEF StoreInv, Enlisted, Holding, Ready, Closing, Touched, Pending, Held, NewRow, OldRow, Free, RowAt
<1>5. Committing'
  <2>1. \A u, a : (Landed(u, a)' <=> Landed(u, a)) /\ (Held(u, a)' <=> Held(u, a))
    BY <1>1 DEF Landed, RowAt, Held
  <2>2. job.op = "commit" => Touched(job.txn) \subseteq Addr
    BY DEF LockInv, JobOK, TypeOK, Touched
  <2> QED BY <2>1, <2>2, <1>1, <1>2 DEF StoreInv, Committing, Touched
<1>6. Intent'
  <2>1. job.op = "commit" => job.txn \in Txn /\ job.at \in 1 .. 10
    BY DEF LockInv, JobOK
  <2> QED BY <2>1, <1>1, <1>2 DEF StoreInv, Intent
<1>7. \A a \in Addr : Past(cache, a)'
  <2>1. Removed' = Removed /\ Rooted' = Rooted /\ Doubted' = Doubted
    BY <1>1, SameHistory
  <2> QED BY <2>1, <1>1, <1>2, PastWritten DEF StoreInv
<1> QED BY <1>3, <1>4, <1>5, <1>6, <1>7 DEF StoreInv

\* The commit point: every row of the transaction is locked for it.
LEMMA StoreIntend ==
    ASSUME LockInv, StoreInv, Intend
    PROVE  StoreInv'
<1>1. /\ Onward(job.rows) /\ UNCHANGED <<disk, ctx, made, gone, kills, losses>>
      /\ cache' = [cache EXCEPT !.intent[job.txn] = 1]
      /\ phase' = [phase EXCEPT ![job.txn] = "committed"]
      /\ job.op = "commit" /\ job.at = 1 /\ job.txn \in Txn /\ phase[job.txn] = "open"
  BY Where DEF LockInv, Intend, JobOK
<1>2. /\ cache'.hex = cache.hex /\ cache'.data = cache.data /\ cache'.listed = cache.listed
      /\ \A u \in Txn : cache'.intent[u] = IF u = job.txn THEN 1 ELSE cache.intent[u]
  <2>1. cache \in Files /\ 1 \in 0 .. 1
    BY DEF LockInv, TypeOK
  <2> QED BY <1>1, <2>1, IntentField
<1>3. job'.op = "commit" /\ job'.at = 2 /\ job'.txn = job.txn /\ job'.rows = job.rows
  <2>1. job.at # LastStep(job.op) /\ job.op \notin {"none", "recover"}
    BY <1>1 DEF LastStep
  <2>2. job.rows \in Seq(Addr)
    BY DEF LockInv, TypeOK
  <2> QED BY <1>1, <2>1, <2>2, Further DEF LockInv
<1>4. /\ phase'[job.txn] = "committed"
      /\ \A u \in Txn : u # job.txn => phase'[u] = phase[u]
  BY <1>1 DEF LockInv, TypeOK
<1>5. Intended(cache)' /\ Intended(disk)'
  BY <1>1, <1>2, <1>4 DEF StoreInv, Intended
<1>6. \A u : (Closing(u)' <=> Closing(u)) /\ Pending(u) = {} /\ Pending(u)' = {}
  BY <1>1, <1>3 DEF Closing, Pending, StageOps
<1>7. \A u, a : Held(u, a)' <=> Held(u, a)
  BY <1>1, <1>2 DEF Held
<1>8. Enlisted'
  BY <1>1, <1>2, <1>3, <1>4, <1>6 DEF StoreInv, Enlisted
<1>9. Holding'
  BY <1>1, <1>4, <1>6, <1>7 DEF StoreInv, Holding, Touched
<1>10. Ready' /\ Intent'
  BY <1>1, <1>2, <1>3 DEF Ready, Intent
<1>11. Committing'
  BY <1>1, <1>3, <1>7 DEF StoreInv, Committing, Touched
<1>12. \A a \in Addr : Past(cache, a)'
  <2>1. /\ \A u \in Txn : u \in Of("acked")' <=> u \in Of("acked")
        /\ \A u \in Txn : u \in Of("committed")' <=> u \in Of("committed") \/ u = job.txn
    BY <1>1, <1>4 DEF Of
  <2>2. Removed' = Removed /\ Rooted' = Rooted
    BY <2>1, <1>1 DEF Removed, Rooted, Of
  <2>3. Doubted \subseteq Doubted'
    BY <2>1, <1>1 DEF Doubted, Of, Touched
  <2>4. \A a : RowAt(cache, a)' = RowAt(cache, a) /\ RowAt(disk, a)' = RowAt(disk, a)
    BY <1>1, <1>2 DEF RowAt
  <2> QED BY <2>2, <2>3, <2>4, <1>1, <1>2 DEF StoreInv, Past
<1> QED BY <1>5, <1>8, <1>9, <1>10, <1>11, <1>12 DEF StoreInv

\* The ends of the calls.
LEMMA StoreReturn ==
    ASSUME LockInv, StoreInv, NEW step, NEW now,
           \/ step = "opened" /\ now = "open"
           \/ step = "over" /\ now = "over",
           Return(step, now)
    PROVE  StoreInv'
<1>1. /\ Onward(job.rows) /\ UNCHANGED <<cache, disk, ctx, made, gone, kills, losses>>
      /\ phase' = [phase EXCEPT ![job.txn] = now]
      /\ job.txn \in Txn /\ job.at = LastStep(job.op) /\ job.op \notin {"none", "recover"}
      /\ \/ job.op = "begin" /\ now = "open" /\ phase[job.txn] = "new" /\ job.at > 1
         \/ job.op \in EndOps /\ now = "over" /\ phase[job.txn] = "open"
  BY Where DEF LockInv, Return, JobOK, LastStep, EndOps
<1>2. Idle' /\ job'.op = "none"
  <2>1. job.rows \in Seq(Addr)
    BY DEF LockInv, TypeOK
  <2> QED BY <1>1, <2>1, Further DEF LockInv
<1>3. phase'[job.txn] = now /\ \A u \in Txn : u # job.txn => phase'[u] = phase[u]
  BY <1>1 DEF LockInv, TypeOK
<1>4. Intended(cache)' /\ Intended(disk)'
  BY <1>1, <1>3 DEF StoreInv, Intended
<1>5. \A u : ~Closing(u)' /\ (Closing(u) => u = job.txn) /\ Pending(u) = {}
  BY <1>1, <1>2 DEF Closing, EndOps, Pending, StageOps
<1>6. Enlisted'
  BY <1>1, <1>2, <1>3, <1>5 DEF StoreInv, Enlisted
<1>7. Holding'
  <2>1. ASSUME NEW u \in Txn, phase'[u] = "open", NEW a \in Touched(u)' PROVE Held(u, a)'
    <3>1. u # job.txn
      BY <2>1, <1>1, <1>3 DEF LockInv, Unborn, Touched
    <3>2. Held(u, a)
      BY <3>1, <2>1, <1>1, <1>3, <1>5 DEF StoreInv, Holding, Touched
    <3> QED BY <3>2, <1>1 DEF Held
  <2> QED BY <2>1 DEF Holding
<1>8. Ready' /\ Committing' /\ Intent'
  BY <1>2 DEF Ready, Committing, Intent
<1>9. \A a \in Addr : Past(cache, a)'
  <2>1. Removed' = Removed /\ Rooted' = Rooted /\ Doubted' = Doubted
    BY <1>1, <1>3, SameHistory
  <2> QED BY <2>1, <1>1, PastWritten DEF StoreInv
<1> QED BY <1>4, <1>6, <1>7, <1>8, <1>9 DEF StoreInv

\* A commit returns: both files have its rows and have its intention retired.
LEMMA StoreAcked ==
    ASSUME LockInv, StoreInv, Return("acked", "acked")
    PROVE  StoreInv'
<1> DEFINE t == job.txn
<1>1. /\ Onward(job.rows) /\ UNCHANGED <<cache, disk, ctx, made, gone, kills, losses>>
      /\ phase' = [phase EXCEPT ![t] = "acked"]
      /\ t \in Txn /\ job.op = "commit" /\ job.at = 10 /\ phase[t] = "committed"
  BY Where DEF LockInv, Return, JobOK
<1>2. Idle' /\ job'.op = "none"
  <2>1. job.rows \in Seq(Addr) /\ job.at = LastStep(job.op) /\ job.op \notin {"none", "recover"}
    BY <1>1 DEF LockInv, TypeOK, LastStep
  <2> QED BY <1>1, <2>1, Further DEF LockInv
<1>3. /\ \A u \in Txn : phase'[u] = IF u = t THEN "acked" ELSE phase[u]
  BY <1>1 DEF LockInv, TypeOK
<1>4. cache.intent[t] = 0 /\ disk.intent[t] = 0
  BY <1>1 DEF StoreInv, Intent
<1>5. Intended(cache)' /\ Intended(disk)'
  BY <1>1, <1>3, <1>4 DEF StoreInv, Intended
<1>6. \A u : ~Closing(u)' /\ (Closing(u) => u = t) /\ Pending(u) = {}
  BY <1>1, <1>2 DEF Closing, EndOps, Pending, StageOps
<1>7. Enlisted'
  BY <1>1, <1>2, <1>3, <1>6 DEF StoreInv, Enlisted
<1>8. Holding'
  BY <1>1, <1>2, <1>3, <1>6 DEF StoreInv, Holding, Held, Touched, Closing
<1>9. Ready' /\ Committing' /\ Intent'
  BY <1>2 DEF Ready, Committing, Intent
<1>10. \A a \in Touched(t) :
         Landed(t, a) /\ disk.data[a] = cache.data[a] /\ disk.hex[a] = cache.hex[a]
  BY <1>1 DEF StoreInv, Committing
<1>11. /\ \A u \in Txn : u \in Of("acked")' <=> u \in Of("acked") \/ u = t
       /\ \A u \in Txn : u \in Of("committed")' <=> u \in Of("committed") /\ u # t
  BY <1>1, <1>3 DEF Of
<1>12. /\ \A a : a \in Removed' <=> a \in Removed \/ a \in gone[t]
       /\ \A a : a \in Rooted' <=> a \in Rooted \/ a \in made[t]
  BY <1>1, <1>11 DEF Removed, Rooted, Of
<1>13. \A a : a \in Doubted => a \in Doubted' \/ a \in Touched(t)
  BY <1>1, <1>11 DEF Doubted, Of, Touched
<1>14. ASSUME NEW a \in Addr PROVE Past(cache, a)'
  <2>1. /\ RowAt(cache, a)' = RowAt(cache, a) /\ RowAt(disk, a)' = RowAt(disk, a)
        /\ a \in Touched(t) <=> a \in made[t] \/ a \in gone[t]
    BY <1>1 DEF RowAt, Touched
  <2>2. CASE a \in Touched(t)
    <3>1. RowAt(disk, a) = RowAt(cache, a) /\ Landed(t, a)
      BY <2>2, <1>10 DEF RowAt
    <3>2. a \in gone[t] => Buried(RowAt(cache, a))
      BY <3>1 DEF Landed
    <3>3. a \notin gone[t] => cache.hex[a].off = "inserted" /\ disk.hex[a].off = "inserted"
      BY <3>1, <2>2, <1>10 DEF Landed
    <3> QED BY <3>1, <3>2, <3>3, <2>1, <2>2, <1>1, <1>12 DEF Past, StoreInv
  <2>3. CASE a \notin Touched(t)
    BY <2>1, <2>3, <1>1, <1>12, <1>13 DEF Past, StoreInv
  <2> QED BY <2>2, <2>3
<1> QED BY <1>5, <1>7, <1>8, <1>9, <1>14 DEF StoreInv

\* recovery under way or over: nothing is open
LEMMA StoreRecovery ==
    ASSUME Recovery(cache'), \A t \in Txn : phase'[t] # "open",
           Intended(cache)', Intended(disk)', \A a \in Addr : Past(cache, a)'
    PROVE  StoreInv'
<1>1. job'.op \in {"none", "recover"}
  BY Recovering
<1>2. Enlisted' /\ Holding' /\ Ready' /\ Committing' /\ Intent'
  BY <1>1 DEF Enlisted, Holding, Ready, Committing, Intent
<1> QED BY <1>2 DEF StoreInv

\* a locked row whose record has an intention
Licensed(files, a) ==
    LET t == files.data[a].txn IN t # Nobody /\ files.listed[t] /\ files.intent[t] > 0

\* a licensed row is in doubt
LEMMA LicensedInDoubt ==
    ASSUME LockInv, NEW files \in Files, Signed(files), Intended(files),
           NEW a \in Addr, Licensed(files, a)
    PROVE  /\ files.data[a].txn \in Txn /\ phase[files.data[a].txn] = "committed"
           /\ a \in Touched(files.data[a].txn) /\ a \in Doubted
<1>1. files.data[a].txn \in Txn
  BY RowOf DEF Licensed
<1>2. phase[files.data[a].txn] = "committed"
  BY <1>1 DEF Licensed, Intended
<1> QED BY <1>1, <1>2 DEF Signed, Doubted, Of

\* Recovery settles a row: only an intention takes it anywhere new, and that row is in doubt.
LEMMA StoreSettle ==
    ASSUME LockInv, StoreInv, Settle
    PROVE  StoreInv'
<1>1. /\ UNCHANGED <<disk, ctx, phase, made, gone, kills, losses>>
      /\ Recovery(cache') /\ \A t \in Txn : phase[t] # "open"
      /\ cache'.intent = cache.intent
  BY Settling1
<1>2. PICK a \in Addr :
        /\ cache.hex[a].locked
        /\ RowAt(cache', a) = Resolved(cache, RowAt(cache, a))
        /\ \A b \in Addr : b # a => RowAt(cache', b) = RowAt(cache, b)
  BY Settling1
<1>3. Intended(cache)' /\ Intended(disk)'
  BY <1>1 DEF StoreInv, Intended
<1>4. Removed' = Removed /\ Rooted' = Rooted /\ Doubted' = Doubted
  BY <1>1, SameHistory
<1>5. ASSUME NEW b \in Addr, b # a PROVE Past(cache, b)'
  BY <1>1, <1>2, <1>4, <1>5, PastWritten DEF StoreInv, RowAt
<1>6. Past(cache, a)'
  <2>1. cache \in Files /\ Signed(cache) /\ Intended(cache) /\ RowAt(cache, a) \in Row
    BY RowOf DEF LockInv, TypeOK, StoreInv
  <2>2. a \notin Removed /\ Past(cache, a)
    BY <1>2 DEF StoreInv, Past, Buried, RowAt
  <2>3. CASE Licensed(cache, a)
    BY <2>1, <2>2, <2>3, <1>4, LicensedInDoubt DEF Past
  <2>4. CASE ~Licensed(cache, a)
    <3>1. RowAt(cache', a) = RollbackRow(RowAt(cache, a))
      BY <2>4, <1>2 DEF Resolved, Licensed, RowAt
    <3>2. /\ RowAt(cache, a).hex.off = "inserted" => RowAt(cache', a).hex.off = "inserted"
          /\ NeverBorn(RowAt(cache, a)) => NeverBorn(RowAt(cache', a))
      BY <3>1, <2>1, RolledBackRow DEF NeverBorn
    <3> QED BY <3>2, <2>2, <1>1, <1>4 DEF Past, RowAt
  <2> QED BY <2>3, <2>4
<1> QED BY <1>1, <1>3, <1>5, <1>6, StoreRecovery

LEMMA StoreSweep ==
    ASSUME LockInv, StoreInv, Sweep
    PROVE  StoreInv'
<1>1. Intended(cache)' /\ Intended(disk)'
  BY Sweeping DEF StoreInv, Intended
<1>2. \A a \in Addr : Past(cache, a)'
  <2>1. Removed' = Removed /\ Rooted' = Rooted /\ Doubted' = Doubted
    BY Sweeping, SameHistory
  <2> QED BY <2>1, Sweeping, PastWritten DEF StoreInv
<1> QED BY <1>1, <1>2, Sweeping, StoreRecovery

\* A crash leaves files that agree with the disk, and in which no transaction but one that
\* has passed its commit point has an intention.
LEMMA StoreCrash ==
    ASSUME LockInv, StoreInv, NEW files, Intended(files), \A a \in Addr : Past(files, a),
           Restart(files), UNCHANGED disk
    PROVE  StoreInv'
<1>1. /\ cache' = files /\ Recovery(cache') /\ UNCHANGED <<made, gone>>
      /\ phase' = [t \in Txn |-> IF phase[t] = "open" THEN "over" ELSE phase[t]]
  BY DEF Restart
<1>2. \A t \in Txn : phase'[t] # "open" /\ (phase'[t] = "committed" <=> phase[t] = "committed")
                     /\ (phase'[t] = "acked" <=> phase[t] = "acked")
  BY <1>1
<1>3. Intended(cache)' /\ Intended(disk)'
  BY <1>1, <1>2 DEF StoreInv, Intended
<1>4. Removed' = Removed /\ Rooted' = Rooted /\ Doubted' = Doubted
  BY <1>1, <1>2, SameHistory
<1>5. ASSUME NEW a \in Addr PROVE Past(cache, a)'
  BY <1>1, <1>4 DEF Past, RowAt
<1> QED BY <1>1, <1>2, <1>3, <1>5, StoreRecovery

\* The row a kill finds being written: a version removed for good is none, a version
\* added for good keeps its offline byte, and one that never was has its modify_time
\* stamped before its create_time.
LEMMA DumpedPast ==
    ASSUME LockInv, StoreInv, NEW d \in Dumps, NEW a, a = d[1], NEW c, c = RowAt(cache, a)
    PROVE  /\ a \in Removed => d[2] = c
           /\ a \notin Removed /\ a \notin Doubted =>
                /\ c.hex.off = "inserted" => d[2].hex.off = "inserted"
                /\ NeverBorn(c) => /\ d[2].hex.off \in {"none", "deleted"}
                                   /\ c.data.born <= d[2].data.died
<1>1. /\ a \in Addr /\ c \in Row /\ c.hex = cache.hex[a] /\ c.data = cache.data[a]
      /\ d[2] \in Row /\ c.data.born \in 0 .. 1 /\ cache \in Files
  BY DumpedRow DEF RowAt, Row, Data, LockInv, TypeOK
<1>2. Past(cache, a)
  BY <1>1 DEF StoreInv
<1>3. ASSUME d[2] = RollbackRow(c)
      PROVE  /\ c.hex.off = "inserted" => d[2].hex.off = "inserted"
             /\ NeverBorn(c) => /\ d[2].hex.off \in {"none", "deleted"}
                                /\ c.data.born <= d[2].data.died
  BY <1>1, <1>3, RolledBackRow DEF NeverBorn
<1>4. ASSUME cache.hex[a].locked, d[2] = Resolved(cache, c)
      PROVE  /\ a \notin Removed
             /\ a \notin Doubted => d[2] = RollbackRow(c)
  <2>1. a \notin Removed
    BY <1>2, <1>1, <1>4 DEF Past, Buried
  <2>2. Licensed(cache, a) => a \in Doubted
    BY <1>1, LicensedInDoubt DEF LockInv, StoreInv
  <2> QED BY <2>1, <2>2, <1>1, <1>4 DEF Resolved, Licensed
<1>5. ASSUME NEW step \in {"add", "replace", "remove"}, At(step), job.txn \in Txn, a = Head(job.rows),
             job.rows # <<>>, d[2] = Visited(step, job.txn, c)
      PROVE  /\ a \notin Removed
             /\ c.hex.off = "inserted" => d[2].hex.off = "inserted"
             /\ NeverBorn(c) => /\ d[2].hex.off \in {"none", "deleted"}
                                /\ c.data.born <= d[2].data.died
  <2>1. a = job.rows[1]
    <3>1. job.rows \in Seq(Addr)
      BY DEF LockInv, TypeOK
    <3> QED BY <3>1, <1>5, RangeHeadTail
  <2>2. /\ step = "add" => NewRow(a)
        /\ step \in {"replace", "remove"} => OldRow(a)
    BY <2>1, <1>5, Where DEF LockInv, StoreInv, Ready
  <2>3. CASE step = "add"
    <3>1. d[2] = Added(job.txn) /\ cache.hex[a] = NoHex /\ c.data.born = 0
      BY <2>2, <2>3, <1>1, <1>5, VisitedRow DEF NewRow
    <3>2. a \notin Removed
      BY <3>1, <1>2, <1>1 DEF Past, Buried, NoHex
    <3>3. c.hex.off = "none"
      BY <3>1, <1>1 DEF NoHex
    <3>4. d[2].hex.off = "none" /\ d[2].data.died = 0
      BY <3>1, <1>5, AddedRow
    <3> QED BY <3>1, <3>2, <3>3, <3>4
  <2>4. CASE step \in {"replace", "remove"}
    <3>1. \E state \in {"updated", "deleted"} : d[2] = Staged(c, state, job.txn)
      <4>1. /\ Visited("replace", job.txn, c) = Staged(c, "updated", job.txn)
            /\ Visited("remove", job.txn, c) = Staged(c, "deleted", job.txn)
        BY <1>1, <1>5, VisitedRow
      <4> QED BY <4>1, <2>4, <1>5
    <3>2. a \notin Removed
      BY <2>2, <2>4, <1>2, <1>1 DEF OldRow, Free, Past, Buried, Alive, RowAt
    <3>3. d[2].hex.off = c.hex.off /\ d[2].data.died = c.data.died
      BY <3>1, <1>1, <1>5, StagedRow
    <3> QED BY <3>2, <3>3 DEF NeverBorn
  <2> QED BY <2>3, <2>4
<1>6. ASSUME NEW step \in {"flip", "undo"}, At(step), job.txn \in Txn, d[2] = Visited(step, job.txn, c)
      PROVE  \/ d[2] = c
             \/ a \notin Removed /\ d[2] = RollbackRow(c)
             \/ a \notin Removed /\ a \in Doubted
  <2>1. CASE c.data.txn # job.txn
    BY <2>1, <1>1, <1>6, VisitedRow
  <2>2. CASE c.data.txn = job.txn
    <3>1. a \notin Removed
      BY <2>2, <1>2, <1>1, <1>6 DEF Past, Buried
    <3>2. CASE step = "undo"
      BY <3>1, <3>2, <2>2, <1>1, <1>6, VisitedRow
    <3>3. CASE step = "flip"
      <4>1. phase[job.txn] = "committed"
        BY <3>3, <1>6, Where DEF LockInv, JobOK
      <4>2. a \in Touched(job.txn)
        BY <2>2, <1>1, <1>6 DEF LockInv, Signed
      <4> QED BY <3>1, <4>1, <4>2, <1>6 DEF Doubted, Of
    <3> QED BY <3>2, <3>3
  <2> QED BY <2>1, <2>2
<1>7. d[2] = c => (NeverBorn(c) => d[2].hex.off \in {"none", "deleted"} /\ c.data.born <= d[2].data.died)
  BY DEF NeverBorn
<1>8. CASE cache.hex[a].locked /\ d[2] = Resolved(cache, c)
  BY <1>8, <1>3, <1>4
<1>9. ASSUME NEW step \in Visits, At(step), job.txn \in Txn, a = Head(job.rows), job.rows # <<>>,
             d[2] = Visited(step, job.txn, c)
      PROVE  /\ a \in Removed => d[2] = c
             /\ a \notin Removed /\ a \notin Doubted =>
                  /\ c.hex.off = "inserted" => d[2].hex.off = "inserted"
                  /\ NeverBorn(c) => /\ d[2].hex.off \in {"none", "deleted"}
                                     /\ c.data.born <= d[2].data.died
  <2>1. CASE step \in {"add", "replace", "remove"}
    BY <2>1, <1>5, <1>9
  <2>2. CASE step \in {"flip", "undo"}
    BY <2>2, <1>3, <1>6, <1>7, <1>9
  <2> QED BY <1>9, <2>1, <2>2 DEF Visits
<1> QED BY <1>8, <1>9, DumpedRow

\* What a kill leaves agrees with the disk as the cache did, a dump cut in two included.
LEMMA RemainsPast ==
    ASSUME LockInv, StoreInv, NEW files \in Remains
    PROVE  /\ files \in Files /\ Signed(files) /\ Intended(files)
           /\ \A a \in Addr : Past(files, a)
<1>1. files \in Files /\ Signed(files) /\ Intended(files)
  BY RemainsOne, RemainsSigned DEF StoreInv, Intended
<1>2. ASSUME NEW a \in Addr, RowAt(files, a) = RowAt(cache, a) PROVE Past(files, a)
  <2>1. files.hex[a] = cache.hex[a] /\ Past(cache, a)
    BY <1>2 DEF RowAt, StoreInv
  <2> QED BY <2>1, <1>2 DEF Past
<1>3. CASE files = cache
  BY <1>1, <1>2, <1>3
<1>4. ASSUME NEW d \in Dumps, RowAt(files, d[1]) \in Cut(RowAt(cache, d[1]), d[2]),
             \A b \in Addr : b # d[1] => RowAt(files, b) = RowAt(cache, b)
      PROVE  \A a \in Addr : Past(files, a)
  <2> DEFINE a == d[1]
             c == RowAt(cache, a)
             e == RowAt(files, a)
  <2>1. /\ a \in Addr /\ c \in Row /\ d[2] \in Row /\ e \in Row
        /\ e.hex.off \in {c.hex.off, d[2].hex.off}
        /\ e.data.died \in {c.data.died, d[2].data.died}
        /\ e.data.born = c.data.born
        /\ c = d[2] => e = c
    BY <1>4, DumpedRow, CutRow
  <2>2. /\ a \in Removed => d[2] = c
        /\ a \notin Removed /\ a \notin Doubted =>
             /\ c.hex.off = "inserted" => d[2].hex.off = "inserted"
             /\ NeverBorn(c) => /\ d[2].hex.off \in {"none", "deleted"}
                                /\ c.data.born <= d[2].data.died
    BY DumpedPast
  <2>3. Past(cache, a) /\ c.hex = cache.hex[a] /\ e.hex = files.hex[a]
    BY <2>1 DEF StoreInv, RowAt
  <2>4. a \notin Removed /\ a \notin Doubted =>
          /\ c.hex.off = "inserted" => e.hex.off = "inserted"
          /\ NeverBorn(c) => NeverBorn(e)
    BY <2>1, <2>2 DEF NeverBorn
  <2>5. a \in Removed => e = c
    BY <2>1, <2>2
  <2>6. Past(files, a)
    BY <2>3, <2>4, <2>5 DEF Past
  <2> QED BY <2>6, <1>2, <1>4
<1> QED BY <1>1, <1>3, <1>4, RemainsOne

\* a stage: the row it visits was nobody's to lose
LEMMA StoreStage ==
    ASSUME LockInv, StoreInv, NEW step \in {"add", "replace", "remove"}, Visit(step)
    PROVE  StoreInv'
<1>1. PICK a \in Addr : a = Head(job.rows)
  BY Visiting DEF Visits
<1>2. PICK t \in Txn : t = job.txn
  BY Visiting DEF Visits
<1>3. /\ job.op \in StageOps /\ a \in Range(job.rows)
      /\ \A x : x \in Range(job.rows) <=> x = a \/ x \in Range(Tail(job.rows))
      /\ UNCHANGED <<disk, ctx, phase, made, gone, kills, losses>>
      /\ cache' \in Files /\ cache'.listed = cache.listed /\ cache'.intent = cache.intent
      /\ RowAt(cache', a) = Visited(step, t, RowAt(cache, a))
      /\ \A b \in Addr : b # a => RowAt(cache', b) = RowAt(cache, b)
  BY <1>1, <1>2, Visiting DEF Visits
<1>4. /\ phase[t] = "open" /\ a \in Touched(t) /\ job.rows \in Seq(Addr) /\ job.rows # <<>>
      /\ RowAt(cache, a) \in Row /\ cache \in Files
  BY <1>2, <1>3, RowOf DEF LockInv, JobOK, TypeOK
<1>5. /\ a = job.rows[1]
      /\ \A i \in 1 .. Len(Tail(job.rows)) : Tail(job.rows)[i] = job.rows[i + 1]
      /\ Tail(job.rows) \in Seq(Addr) /\ Len(Tail(job.rows)) = Len(job.rows) - 1
  BY <1>1, <1>4, RangeHeadTail
\* what the visit makes of the row
<1>6. \/ /\ step = "add" /\ cache.hex[a] = NoHex /\ cache.data[a].born = 0
         /\ a \in made[t] \ gone[t]
         /\ RowAt(cache', a) = Added(t)
         /\ job.op = "insert" \/ (job.op = "update" /\ job.at = 2)
      \/ /\ step = "replace" /\ Free(t, a) /\ a \in gone[t]
         /\ RowAt(cache', a) = Staged(RowAt(cache, a), "updated", t)
         /\ job.op = "update" /\ job.at = 1
      \/ /\ step = "remove" /\ Free(t, a) /\ a \in gone[t]
         /\ RowAt(cache', a) = Staged(RowAt(cache, a), "deleted", t)
         /\ job.op = "delete"
  <2>1. /\ step = "add" => job.op = "insert" \/ (job.op = "update" /\ job.at = 2)
        /\ step = "replace" => job.op = "update" /\ job.at = 1
        /\ step = "remove" => job.op = "delete"
    BY Where DEF Visit, LockInv
  <2>2. /\ step = "add" => NewRow(a)
        /\ step \in {"replace", "remove"} => OldRow(a)
    BY <2>1, <1>5 DEF StoreInv, Ready
  <2> QED BY <2>1, <2>2, <1>2, <1>3, <1>4, VisitedRow DEF NewRow, OldRow
<1>7. /\ cache'.hex[a].locked /\ cache'.data[a].txn = t
      /\ cache'.hex[a].on \in IF a \in gone[t] THEN {"updated", "deleted"} ELSE {"inserted"}
      /\ \A b \in Addr : b # a => cache'.hex[b] = cache.hex[b] /\ cache'.data[b] = cache.data[b]
  <2>1. /\ RowAt(cache', a).hex.locked /\ RowAt(cache', a).data.txn = t
        /\ RowAt(cache', a).hex.on \in IF a \in gone[t] THEN {"updated", "deleted"} ELSE {"inserted"}
    BY <1>4, <1>6, AddedRow, StagedRow
  <2> QED BY <2>1, <1>3 DEF RowAt
\* it was not another transaction's, nor a removed row
<1>8. cache.hex[a].locked => cache.data[a].txn = t
  BY <1>6 DEF Free, RowAt, NoHex
<1>9. ~Buried(RowAt(cache, a))
  BY <1>6 DEF Free, RowAt, NoHex, Buried, Alive
<1>10. Intended(cache)' /\ Intended(disk)'
  BY <1>3 DEF StoreInv, Intended
<1>11. \/ job'.op = "none" /\ Range(Tail(job.rows)) = {}
       \/ /\ job.op = "update" /\ job.at = 1 /\ job'.op = "update" /\ job'.at = 2
          /\ job'.txn = t /\ job'.rows = Tail(job.rows)
  <2>1. Onward(Tail(job.rows))
    BY DEF Visit
  <2>2. /\ job.at = LastStep(job.op) => job'.op = "none"
        /\ job.at # LastStep(job.op) => /\ job'.op = job.op /\ job'.at = job.at + 1
                                        /\ job'.txn = job.txn /\ job'.rows = Tail(job.rows)
    BY <2>1, <1>3, <1>5, Further DEF LockInv, StageOps
  <2>3. CASE job.op = "update" /\ job.at = 1
    BY <2>2, <2>3, <1>2 DEF LastStep
  <2>4. CASE job.op \in {"insert", "delete"} \/ (job.op = "update" /\ job.at = 2)
    <3>1. job.at = LastStep(job.op) /\ Len(job.rows) = 1
      <4>1. CASE job.op \in {"insert", "delete"}
        BY <4>1 DEF LockInv, JobOK, LastStep
      <4>2. CASE job.op = "update" /\ job.at = 2
        <5>1. Len(job.rows) = 3 - 2
          BY <4>2 DEF LockInv, JobOK
        <5> QED BY <4>2, <5>1 DEF LastStep
      <4> QED BY <2>4, <4>1, <4>2
    <3>2. Len(Tail(job.rows)) = 0
      BY <3>1, <1>5
    <3>3. Range(Tail(job.rows)) = {}
      BY <3>2, <1>5 DEF Range
    <3> QED BY <3>1, <3>3, <2>2
  <2> QED BY <2>3, <2>4, <1>6
<1>12. \A u : ~Closing(u) /\ ~Closing(u)'
  BY <1>3, <1>11 DEF Closing, EndOps, StageOps
<1>13. Enlisted'
  BY <1>3, <1>11, <1>12 DEF StoreInv, Enlisted
<1>14. Holding'
  <2>1. ASSUME NEW u \in Txn, phase[u] = "open", NEW b \in Touched(u), b \notin Pending(u)'
        PROVE  Held(u, b)'
    <3>0. b \in Addr
      BY <2>1 DEF LockInv, TypeOK, Touched
    <3>1. b \in Pending(u) \/ Held(u, b)
      BY <2>1, <1>12 DEF StoreInv, Holding
    <3>2. CASE u = t /\ b = a
      BY <3>2, <1>3, <1>7 DEF Held
    <3>3. CASE u # t /\ b = a
      BY <3>1, <3>3, <1>2, <1>6, <1>8 DEF Held, Pending, NoHex, Free, RowAt
    <3>4. CASE b # a
      <4>1. Held(u, b)
        <5>1. ASSUME b \in Pending(u) PROVE FALSE
          <6>1. u = t /\ b \in Range(Tail(job.rows))
            BY <5>1, <3>4, <1>2, <1>3 DEF Pending
          <6>2. job'.op = "update" /\ job'.txn = t /\ job'.rows = Tail(job.rows)
            BY <6>1, <1>11
          <6> QED BY <6>1, <6>2, <2>1 DEF Pending, StageOps
        <5> QED BY <5>1, <3>1
      <4> QED BY <4>1, <3>0, <3>4, <1>3, <1>7 DEF Held
    <3> QED BY <3>2, <3>3, <3>4
  <2> QED BY <2>1, <1>3 DEF Holding, Touched
<1>15. Ready'
  <2>1. CASE job'.op = "none"
    BY <2>1 DEF Ready
  <2>2. CASE /\ job.op = "update" /\ job.at = 1 /\ job'.op = "update" /\ job'.at = 2
             /\ job'.txn = t /\ job'.rows = Tail(job.rows)
    <3>1. Len(job.rows) = 2 /\ job.rows[2] \in Addr
      BY <2>2, <1>4, ElementOfSeq DEF LockInv, JobOK
    <3>2. Tail(job.rows)[1] = job.rows[2]
      BY <3>1, <1>5
    <3>3. /\ cache.hex[job.rows[2]] = NoHex /\ cache.data[job.rows[2]].born = 0
          /\ job.rows[2] \in made[t] \ gone[t]
      BY <2>2, <1>2 DEF StoreInv, Ready, NewRow
    <3>4. job.rows[2] # a
      BY <3>3, <1>6, <2>2
    <3> QED BY <3>1, <3>2, <3>3, <3>4, <2>2, <1>3, <1>7 DEF Ready, NewRow
  <2> QED BY <2>1, <2>2, <1>11
<1>16. Committing' /\ Intent'
  BY <1>11 DEF Committing, Intent
<1>17. ASSUME NEW b \in Addr PROVE Past(cache, b)'
  <2>1. Removed' = Removed /\ Rooted' = Rooted /\ Doubted' = Doubted
    BY <1>3, SameHistory
  <2>2. Past(cache, b)
    BY DEF StoreInv
  <2>3. CASE b # a
    BY <2>1, <2>2, <2>3, <1>3, <1>7, PastWritten
  <2>4. CASE b = a
    <3>1. a \notin Removed
      BY <2>2, <2>4, <1>9 DEF Past
    <3>2. /\ RowAt(cache, a).hex.off = "inserted" => RowAt(cache', a).hex.off = "inserted"
          /\ NeverBorn(RowAt(cache, a)) => NeverBorn(RowAt(cache', a))
      <4>1. CASE RowAt(cache', a) = Added(t) /\ cache.hex[a] = NoHex
        BY <4>1, AddedRow DEF NeverBorn, RowAt, NoHex
      <4>2. CASE \E state \in {"updated", "deleted"} : RowAt(cache', a) = Staged(RowAt(cache, a), state, t)
        BY <1>4, <4>2, StagedRow DEF NeverBorn
      <4> QED BY <1>6, <4>1, <4>2
    <3> QED BY <3>1, <3>2, <2>1, <2>2, <2>4, <1>3 DEF Past, RowAt
  <2> QED BY <2>3, <2>4
<1> QED BY <1>10, <1>13, <1>14, <1>15, <1>16, <1>17 DEF StoreInv

\* a commit or a rollback: only its own stages are settled
LEMMA StoreResolve ==
    ASSUME LockInv, StoreInv, NEW step \in {"flip", "undo"}, Visit(step)
    PROVE  StoreInv'
<1>1. PICK a \in Addr : a = Head(job.rows)
  BY Visiting DEF Visits
<1>2. PICK t \in Txn : t = job.txn
  BY Visiting DEF Visits
<1>3. /\ a \in Range(job.rows) /\ Tail(job.rows) \in Seq(Addr)
      /\ \A x : x \in Range(job.rows) <=> x = a \/ x \in Range(Tail(job.rows))
      /\ \/ step = "flip" /\ job.op = "commit" /\ job.at = 4 /\ phase[t] = "committed"
         \/ step = "undo" /\ job.op = "rollback" /\ job.at = 1 /\ phase[t] = "open"
      /\ UNCHANGED <<disk, ctx, phase, made, gone, kills, losses>>
      /\ cache' \in Files /\ cache'.listed = cache.listed /\ cache'.intent = cache.intent
      /\ RowAt(cache', a) = Visited(step, t, RowAt(cache, a))
      /\ \A b \in Addr : b # a => RowAt(cache', b) = RowAt(cache, b)
  BY <1>1, <1>2, Visiting DEF Visits, LockInv, JobOK
<1>4. RowAt(cache, a) \in Row /\ cache \in Files
  BY RowOf DEF LockInv, TypeOK
<1>5. /\ cache.data[a].txn # t => RowAt(cache', a) = RowAt(cache, a)
      /\ cache.data[a].txn = t =>
           RowAt(cache', a) = IF step = "flip" THEN CommitRow(RowAt(cache, a))
                                               ELSE RollbackRow(RowAt(cache, a))
  BY <1>3, <1>4, VisitedRow DEF RowAt
<1>6. /\ job'.op = job.op /\ job'.txn = t /\ job'.rows = Tail(job.rows)
      /\ job'.at = IF Tail(job.rows) # <<>> THEN job.at ELSE job.at + 1
  <2>1. job \in [op : Op, at : Nat, txn : Txn \union {Nobody}, rows : Seq(Addr)]
    BY DEF LockInv, TypeOK
  <2>2. IF Tail(job.rows) # <<>> THEN job' = [job EXCEPT !.rows = Tail(job.rows)]
                                 ELSE Onward(Tail(job.rows))
    BY DEF Visit
  <2>3. CASE Tail(job.rows) # <<>>
    BY <1>2, <2>1, <2>2, <2>3
  <2>4. CASE Tail(job.rows) = <<>>
    <3>1. job.at # LastStep(job.op) /\ job.op \notin {"none", "recover"} /\ Onward(Tail(job.rows))
      BY <1>3, <2>2, <2>4 DEF LastStep
    <3> QED BY <1>2, <1>3, <2>4, <3>1, Further DEF LockInv
  <2> QED BY <2>3, <2>4
<1>7. Intended(cache)' /\ Intended(disk)'
  BY <1>3 DEF StoreInv, Intended
<1>8. \A u : (Closing(u)' <=> Closing(u)) /\ Pending(u) = {} /\ Pending(u)' = {}
  BY <1>2, <1>3, <1>6 DEF Closing, Pending, StageOps
<1>9. Enlisted'
  BY <1>2, <1>3, <1>6, <1>8 DEF StoreInv, Enlisted
<1>10. Closing(t)
  BY <1>2, <1>3 DEF Closing, EndOps
<1>11. \A b \in Addr : b # a => cache'.hex[b] = cache.hex[b] /\ cache'.data[b] = cache.data[b]
  BY <1>3 DEF RowAt
<1>12. cache.data[a].txn # t => cache'.hex[a] = cache.hex[a] /\ cache'.data[a] = cache.data[a]
  BY <1>5 DEF RowAt
<1>13. Holding'
  <2>1. ASSUME NEW u \in Txn, u # t, NEW b \in Addr, Held(u, b) PROVE Held(u, b)'
    BY <2>1, <1>3, <1>11, <1>12 DEF Held
  <2>2. \A u \in Txn : Touched(u) \subseteq Addr
    BY DEF LockInv, TypeOK, Touched
  <2> QED BY <2>1, <2>2, <1>3, <1>8, <1>10 DEF StoreInv, Holding, Touched
<1>14. Ready'
  BY <1>3, <1>6 DEF Ready
<1>15. Intent'
  BY <1>2, <1>3, <1>6 DEF StoreInv, Intent
<1>16. Committing'
  <2>1. SUFFICES ASSUME job.op = "commit", NEW b \in Touched(t)
                 PROVE  \/ Held(t, b)' /\ b \in Range(Tail(job.rows))
                        \/ Landed(t, b)'
    <3>1. Range(<<>>) = {}
      BY DEF Range
    <3>2. job'.op = "commit" => job.op = "commit" /\ job'.at \in {4, 5}
                                 /\ (job'.at = 5 => Tail(job.rows) = <<>>)
      BY <1>3, <1>6
    <3>3. Touched(job.txn)' = Touched(t)
      BY <1>3, <1>6 DEF Touched
    <3>4. ASSUME job'.op = "commit", NEW b \in Touched(t)
          PROVE  /\ job'.at \in {4, 5}
                 /\ job'.at = 4 => (Held(t, b)' /\ b \in Range(job'.rows)) \/ Landed(t, b)'
                 /\ job'.at = 5 => Landed(t, b)'
      BY <2>1, <3>1, <3>2, <3>4, <1>6
    <3> QED BY <3>3, <3>4, <1>6 DEF Committing
  <2>2. b \in Addr /\ job.at = 4 /\ step = "flip"
    BY <2>1, <1>3 DEF LockInv, TypeOK, Touched
  <2>3. (Held(t, b) /\ b \in Range(job.rows)) \/ Landed(t, b)
    BY <2>1, <2>2, <1>2 DEF StoreInv, Committing
  <2>4. CASE b # a
    <3>1. RowAt(cache', b) = RowAt(cache, b)
      BY <2>2, <2>4, <1>3
    <3> QED BY <2>2, <2>3, <2>4, <3>1, <1>3, <1>11 DEF Held, Landed
  <2>5. CASE b = a /\ Landed(t, b)
    <3>1. RowAt(cache', a) = RowAt(cache, a) /\ cache'.hex[a] = cache.hex[a] /\ cache'.data[a] = cache.data[a]
      BY <2>5, <1>5, <1>12 DEF Landed
    <3> QED BY <2>5, <3>1, <1>3 DEF Landed
  <2>6. CASE b = a /\ Held(t, b)
    <3>1. RowAt(cache', a) = CommitRow(RowAt(cache, a))
      BY <2>2, <2>6, <1>5 DEF Held
    <3>2. RowAt(cache, a).hex.on \in IF a \in gone[t] THEN {"updated", "deleted"} ELSE {"inserted"}
      BY <2>6 DEF Held, RowAt
    <3>3. /\ ~RowAt(cache', a).hex.locked /\ RowAt(cache', a).data.txn = Nobody
          /\ a \in gone[t] => Buried(RowAt(cache', a))
          /\ a \notin gone[t] => RowAt(cache', a).hex.off = "inserted"
      BY <3>1, <3>2, <1>4, CommittedRow DEF Buried
    <3>4. ~cache'.hex[a].locked /\ cache'.data[a].txn = Nobody
          /\ (a \notin gone[t] => cache'.hex[a].off = "inserted")
      BY <3>3 DEF RowAt
    <3> QED BY <2>6, <3>3, <3>4, <1>3 DEF Landed
  <2> QED BY <2>3, <2>4, <2>5, <2>6
<1>17. ASSUME NEW b \in Addr PROVE Past(cache, b)'
  <2>1. Removed' = Removed /\ Rooted' = Rooted /\ Doubted' = Doubted
    BY <1>3, SameHistory
  <2>2. Past(cache, b)
    BY DEF StoreInv
  <2>3. CASE b # a \/ cache.data[a].txn # t
    BY <2>1, <2>2, <2>3, <1>3, <1>11, <1>12, PastWritten
  <2>4. CASE b = a /\ cache.data[a].txn = t
    <3>1. a \notin Removed
      BY <2>2, <2>4 DEF Past, Buried, RowAt
    <3>2. CASE step = "flip"
      <4>1. a \in Touched(t)
        BY <2>4 DEF LockInv, Signed
      <4>2. a \in Doubted
        BY <3>2, <4>1, <1>3 DEF Doubted, Of
      <4> QED BY <3>1, <4>2, <2>1, <2>4 DEF Past
    <3>3. CASE step = "undo"
      <4>1. RowAt(cache', a) = RollbackRow(RowAt(cache, a))
        BY <3>3, <2>4, <1>5
      <4>2. /\ RowAt(cache, a).hex.off = "inserted" => RowAt(cache', a).hex.off = "inserted"
            /\ NeverBorn(RowAt(cache, a)) => NeverBorn(RowAt(cache', a))
        BY <4>1, <1>4, RolledBackRow DEF NeverBorn
      <4> QED BY <3>1, <4>2, <2>1, <2>2, <2>4, <1>3 DEF Past, RowAt
    <3> QED BY <3>2, <3>3
  <2> QED BY <2>3, <2>4
<1> QED BY <1>7, <1>9, <1>13, <1>14, <1>15, <1>16, <1>17 DEF StoreInv

LEMMA StoreInit ==
    ASSUME Init
    PROVE  StoreInv
<1>1. /\ \A t \in Txn : /\ phase[t] = "new" /\ cache.intent[t] = 0
                        /\ made[t] = {} /\ gone[t] = {}
      /\ disk = cache /\ job.op = "none"
  BY DEF Init, NoJob, Job
<1>2. Intended(cache) /\ Intended(disk) /\ Enlisted /\ Holding
  BY <1>1 DEF Intended, Enlisted, Holding
<1>3. Ready /\ Committing /\ Intent
  BY <1>1 DEF Ready, Committing, Intent
<1>4. Removed = {} /\ Rooted = InitRows
  BY <1>1 DEF Removed, Rooted, Of
<1>5. ASSUME NEW a \in Addr PROVE Past(cache, a)
  BY <1>1, <1>4, InitRow DEF Past, NeverBorn, RowAt
<1> QED BY <1>2, <1>3, <1>5 DEF StoreInv

LEMMA StoreCall ==
    ASSUME LockInv, UsedInv, StoreInv, Calls
    PROVE  StoreInv'
<1>1. ASSUME NEW t \in Txn, Begin(t) PROVE StoreInv'
  BY <1>1, StoreBegin
<1>2. ASSUME NEW t \in Txn, Commit(t) \/ Rollback(t) PROVE StoreInv'
  <2>1. ctx[t] \in Seq(Addr)
    BY DEF LockInv, TypeOK
  <2>2. Reverse(ctx[t]) \in Seq(Addr) /\ Range(Reverse(ctx[t])) = Range(ctx[t])
    BY <2>1, ReverseRange
  <2> QED BY <1>2, <2>1, <2>2, StoreEnd DEF Commit, Rollback
<1>3. ASSUME NEW t \in Txn, NEW n \in Addr, Insert(t, n) PROVE StoreInv'
  <2>1. Staging(t, "insert", <<n>>, {n}, {}) /\ cache.hex[n] = NoHex /\ cache.data[n].born = 0
    BY <1>3, FreshRow DEF Insert
  <2>2. /\ <<n>> \in Seq(Addr) /\ Range(<<n>>) = {n} \union {} /\ <<n>>[1] = n
        /\ "insert" \in StageOps /\ {n} \in SUBSET Addr /\ {} \in SUBSET Addr
    BY RangeShort DEF StageOps
  <2>3. \E m \in {n} \ {} : /\ m = <<n>>[IF "insert" = "insert" THEN 1 ELSE 2]
                          /\ cache.hex[m] = NoHex /\ cache.data[m].born = 0
    BY <2>1, <2>2
  <2> QED BY <2>1, <2>2, <2>3, StoreStaging
<1>4. ASSUME NEW t \in Txn, NEW n \in Addr, Delete(t, n) PROVE StoreInv'
  <2>1. Staging(t, "delete", <<n>>, {}, {n}) /\ Free(t, n)
    BY <1>4 DEF Delete
  <2>2. /\ <<n>> \in Seq(Addr) /\ Range(<<n>>) = {} \union {n} /\ <<n>>[1] = n
        /\ "delete" \in StageOps /\ {n} \in SUBSET Addr /\ {} \in SUBSET Addr
    BY RangeShort DEF StageOps
  <2> QED BY <2>1, <2>2, StoreStaging
<1>5. ASSUME NEW t \in Txn, NEW n \in Addr, NEW a \in Addr, Update(t, a, n) PROVE StoreInv'
  <2>1. /\ Staging(t, "update", <<a, n>>, {n}, {a}) /\ Free(t, a)
        /\ cache.hex[n] = NoHex /\ cache.data[n].born = 0
    BY <1>5, FreshRow DEF Update
  <2>2. /\ <<a, n>> \in Seq(Addr) /\ Range(<<a, n>>) = {n} \union {a}
        /\ <<a, n>>[1] = a /\ <<a, n>>[2] = n
        /\ "update" \in StageOps /\ {n} \in SUBSET Addr /\ {a} \in SUBSET Addr
    <3>1. {a, n} = {n} \union {a}
      OBVIOUS
    <3> QED BY <3>1, RangeShort DEF StageOps
  <2>3. n # a
    <3>1. ~cache.hex[n].locked /\ cache.hex[n].off = "none"
      BY <2>1 DEF NoHex
    <3> QED BY <2>1, <3>1 DEF Free, Alive, RowAt
  <2>4. \E m \in {n} \ {a} : /\ m = <<a, n>>[IF "update" = "insert" THEN 1 ELSE 2]
                           /\ cache.hex[m] = NoHex /\ cache.data[m].born = 0
    BY <2>1, <2>2, <2>3
  <2> QED BY <2>1, <2>2, <2>4, StoreStaging
<1> QED BY <1>1, <1>2, <1>3, <1>4, <1>5 DEF Calls

LEMMA StoreDo ==
    ASSUME LockInv, StoreInv, Do
    PROVE  StoreInv'
<1>1. ASSUME NEW step \in Visits, Visit(step) PROVE StoreInv'
  BY <1>1, StoreStage, StoreResolve DEF Visits
<1>2. CASE \/ Return("opened", "open") \/ Return("acked", "acked") \/ Return("over", "over")
  BY <1>2, StoreReturn, StoreAcked
<1>3. CASE List("list", TRUE) \/ List("free", FALSE)
  BY <1>3, StoreList
<1>4. CASE Blank \/ Intend \/ SyncData \/ SyncHexmap
  BY <1>4, StoreBlank, StoreIntend, StoreSync
<1> QED BY <1>1, <1>2, <1>3, <1>4 DEF Do

LEMMA StoreStutter ==
    ASSUME StoreInv, UNCHANGED vars
    PROVE  StoreInv'
<1>1. UNCHANGED <<cache, disk, job, ctx, phase, made, gone, kills, losses>>
  BY DEF vars
<1>2. Intended(cache)' /\ Intended(disk)' /\ Enlisted'
  BY <1>1 DEF StoreInv, Intended, Enlisted, Closing
<1>3. Holding' /\ Ready' /\ Intent'
  BY <1>1 DEF StoreInv, Holding, Ready, Intent, Closing, Pending, Held, NewRow, OldRow, Free, RowAt, Touched
<1>4. Committing'
  BY <1>1 DEF StoreInv, Committing, Held, Landed, RowAt, Touched
<1>5. \A a \in Addr : Past(cache, a)'
  <2>1. Removed' = Removed /\ Rooted' = Rooted /\ Doubted' = Doubted
    BY <1>1, SameHistory
  <2> QED BY <2>1, <1>1, PastWritten DEF StoreInv
<1> QED BY <1>2, <1>3, <1>4, <1>5 DEF StoreInv

LEMMA StoreNext ==
    ASSUME LockInv, UsedInv, StoreInv, [Next]_vars
    PROVE  StoreInv'
<1>1. \/ UNCHANGED vars \/ Calls \/ Do \/ WriteBack \/ Settle \/ Sweep \/ Kill \/ PowerLoss
  BY DEF Next, Done, Calls
<1>2. CASE Kill
  <2>1. PICK files \in Remains : Restart(files)
    BY <1>2 DEF Kill
  <2> QED BY <2>1, <1>2, RemainsPast, StoreCrash DEF Kill
<1>3. CASE PowerLoss
  <2>1. \A a \in Addr : Past(disk, a)
    BY DEF StoreInv, Past
  <2> QED BY <2>1, <1>3, StoreCrash DEF PowerLoss, StoreInv
<1> QED BY <1>1, <1>2, <1>3, StoreStutter, StoreCall, StoreDo, StoreWriteBack, StoreSettle, StoreSweep

\* The whole invariant holds always, wherever a kill falls.
THEOREM Stores == Spec => [](LockInv /\ UsedInv /\ StoreInv)
<1>1. Init => LockInv /\ UsedInv /\ StoreInv
  BY LocksInit, UsedInit, StoreInit
<1>2. LockInv /\ UsedInv /\ StoreInv /\ [Next]_vars => (LockInv /\ UsedInv /\ StoreInv)'
  BY LocksNext, UsedNext, StoreNext
<1> QED BY <1>1, <1>2, PTL DEF Spec

-----------------------------------------------------------------------------
(* The refinement                                                          *)

\* What a reader makes of a row.
LEMMA AliveRow ==
    ASSUME NEW c \in Row
    PROVE  /\ c.hex.off = "inserted" => Alive(c)
           /\ c.hex.off = "none" => ~Alive(c)
           /\ c.hex.off \in {"updated", "deleted"} /\ c.data.died = 1 => ~Alive(c)
           /\ NeverBorn(c) => ~Alive(c)
<1>1. c.data.died \in {0, 1} /\ c.data.born \in {0, 1}
  BY DEF Row, Data
<1> QED BY <1>1 DEF Alive, NeverBorn

LEMMA AliveSame ==
    ASSUME NEW c, NEW d, c.hex.off = d.hex.off, c.data.died = d.data.died, c.data.born = d.data.born
    PROVE  Alive(c) <=> Alive(d)
  BY DEF Alive

LEMMA AliveRolledBack ==
    ASSUME NEW c \in Row
    PROVE  Alive(RollbackRow(c)) <=> Alive(c)
<1>1. CASE c.hex.off = "none"
  BY <1>1, AliveRow, RolledBackRow
<1>2. CASE c.hex.off # "none"
  BY <1>2, AliveSame, RolledBackRow
<1> QED BY <1>1, <1>2

\* a new reader finds what the licensed rows will be and what the others are
LEMMA Keeping ==
    ASSUME NEW files \in Files, NEW a \in Addr
    PROVE  a \in Kept(files) <=>
             IF files.hex[a].locked /\ Licensed(files, a) THEN Alive(CommitRow(RowAt(files, a)))
                                                          ELSE Alive(RowAt(files, a))
<1>1. /\ RowAt(files, a) \in Row /\ RowAt(files, a).hex = files.hex[a]
      /\ RowAt(files, a).data = files.data[a]
  BY RowOf
<1>2. CASE files.hex[a].locked /\ Licensed(files, a)
  <2>1. Resolved(files, RowAt(files, a)) = CommitRow(RowAt(files, a))
    BY <1>1, <1>2 DEF Resolved, Licensed
  <2> QED BY <1>1, <1>2, <2>1 DEF Kept
<1>3. CASE files.hex[a].locked /\ ~Licensed(files, a)
  <2>1. Resolved(files, RowAt(files, a)) = RollbackRow(RowAt(files, a))
    BY <1>1, <1>3 DEF Resolved, Licensed
  <2> QED BY <1>1, <1>3, <2>1, AliveRolledBack DEF Kept
<1>4. CASE ~files.hex[a].locked
  BY <1>1, <1>4 DEF Kept
<1> QED BY <1>2, <1>3, <1>4

\* A row whose control block and whose record say the same is found as before.
LEMMA KeptRow ==
    ASSUME NEW f \in Files, NEW g \in Files, NEW a \in Addr, RowAt(g, a) = RowAt(f, a),
           f.hex[a].locked => (Licensed(f, a) <=> Licensed(g, a))
    PROVE  a \in Kept(f) <=> a \in Kept(g)
<1>1. f.hex[a] = g.hex[a]
  BY DEF RowAt
<1> QED BY <1>1, Keeping

LEMMA KeptSame ==
    ASSUME NEW f, NEW g, \A a \in Addr : a \in Kept(f) <=> a \in Kept(g)
    PROVE  Kept(f) = Kept(g)
  BY DEF Kept

\* A stage changes nothing a reader would find after a kill.
LEMMA KeptStage ==
    ASSUME LockInv, StoreInv, NEW step \in {"add", "replace", "remove"}, Visit(step)
    PROVE  Kept(cache)' = Kept(cache)
<1>1. PICK a \in Addr : a = Head(job.rows)
  BY Visiting DEF Visits
<1>2. PICK t \in Txn : t = job.txn
  BY Visiting DEF Visits
<1>3. /\ job.op \in StageOps
      /\ cache' \in Files /\ cache'.listed = cache.listed /\ cache'.intent = cache.intent
      /\ RowAt(cache', a) = Visited(step, t, RowAt(cache, a))
      /\ \A b \in Addr : b # a => RowAt(cache', b) = RowAt(cache, b)
  BY <1>1, <1>2, Visiting DEF Visits
<1>4. /\ phase[t] = "open" /\ RowAt(cache, a) \in Row /\ cache \in Files
      /\ job.rows \in Seq(Addr) /\ job.rows # <<>>
  BY <1>2, <1>3, RowOf DEF LockInv, JobOK, TypeOK
<1>5. \/ step = "add" /\ cache.hex[a] = NoHex /\ RowAt(cache', a) = Added(t)
      \/ /\ step # "add" /\ Free(t, a)
         /\ \/ RowAt(cache', a) = Staged(RowAt(cache, a), "updated", t)
            \/ RowAt(cache', a) = Staged(RowAt(cache, a), "deleted", t)
  <2>1. a = job.rows[1]
    BY <1>1, <1>4, RangeHeadTail
  <2>2. /\ step = "add" => NewRow(a)
        /\ step \in {"replace", "remove"} => OldRow(a)
    BY <2>1, Where DEF Visit, LockInv, StoreInv, Ready
  <2> QED BY <2>2, <1>2, <1>3, <1>4, VisitedRow DEF NewRow, OldRow
<1>6. cache.intent[t] = 0
  BY <1>4 DEF StoreInv, Intended
<1>7. ~(cache.hex[a].locked /\ Licensed(cache, a))
  BY <1>5, <1>6 DEF Free, RowAt, NoHex, Licensed
<1>8. RowAt(cache', a).data.txn = t
  BY <1>4, <1>5, AddedRow, StagedRow
<1>9. ~Licensed(cache', a)
  BY <1>3, <1>6, <1>8 DEF Licensed, RowAt
<1>10. Alive(RowAt(cache', a)) <=> Alive(RowAt(cache, a))
  <2>1. CASE cache.hex[a] = NoHex /\ RowAt(cache', a) = Added(t)
    <3>1. RowAt(cache, a).hex.off = "none" /\ RowAt(cache', a).hex.off = "none" /\ RowAt(cache', a) \in Row
      BY <2>1, AddedRow DEF RowAt, NoHex
    <3> QED BY <3>1, <1>4, AliveRow
  <2>2. CASE \/ RowAt(cache', a) = Staged(RowAt(cache, a), "updated", t)
             \/ RowAt(cache', a) = Staged(RowAt(cache, a), "deleted", t)
    BY <2>2, <1>4, StagedRow, AliveSame
  <2> QED BY <2>1, <2>2, <1>5
<1>11. a \in Kept(cache') <=> a \in Kept(cache)
  <2>1. a \in Kept(cache) <=> Alive(RowAt(cache, a))
    BY <1>4, <1>7, Keeping
  <2>2. a \in Kept(cache') <=> Alive(RowAt(cache', a))
    BY <1>3, <1>9, Keeping
  <2> QED BY <2>1, <2>2, <1>10
<1>12. \A b \in Addr : b # a => (b \in Kept(cache') <=> b \in Kept(cache))
  <2> SUFFICES ASSUME NEW b \in Addr, b # a PROVE b \in Kept(cache') <=> b \in Kept(cache)
    OBVIOUS
  <2>1. RowAt(cache', b) = RowAt(cache, b) /\ (Licensed(cache, b) <=> Licensed(cache', b))
    BY <1>3 DEF Licensed, RowAt
  <2> QED BY <2>1, <1>3, <1>4, KeptRow
<1> QED BY <1>11, <1>12, KeptSame

\* Nor does a control block moved: its record had decided it.
LEMMA KeptResolve ==
    ASSUME LockInv, StoreInv, NEW step \in {"flip", "undo"}, Visit(step)
    PROVE  Kept(cache)' = Kept(cache)
<1>1. PICK a \in Addr : a = Head(job.rows)
  BY Visiting DEF Visits
<1>2. PICK t \in Txn : t = job.txn
  BY Visiting DEF Visits
<1>3. /\ \/ step = "flip" /\ job.op = "commit" /\ job.at = 4
         \/ step = "undo" /\ job.op = "rollback" /\ phase[t] = "open"
      /\ cache' \in Files /\ cache'.listed = cache.listed /\ cache'.intent = cache.intent
      /\ RowAt(cache', a) = Visited(step, t, RowAt(cache, a))
      /\ \A b \in Addr : b # a => RowAt(cache', b) = RowAt(cache, b)
  BY <1>1, <1>2, Visiting DEF Visits, LockInv, JobOK
<1>4. RowAt(cache, a) \in Row /\ cache \in Files
  BY RowOf DEF LockInv, TypeOK
<1>5. \A b \in Addr : RowAt(cache', b) = RowAt(cache, b) => (b \in Kept(cache') <=> b \in Kept(cache))
  <2> SUFFICES ASSUME NEW b \in Addr, RowAt(cache', b) = RowAt(cache, b)
               PROVE  b \in Kept(cache') <=> b \in Kept(cache)
    OBVIOUS
  <2>1. Licensed(cache, b) <=> Licensed(cache', b)
    BY <1>3 DEF Licensed, RowAt
  <2> QED BY <2>1, <1>3, <1>4, KeptRow
<1>6. CASE cache.data[a].txn # t
  <2>1. RowAt(cache', a) = RowAt(cache, a)
    BY <1>3, <1>4, <1>6, VisitedRow DEF RowAt
  <2> QED BY <2>1, <1>3, <1>5, KeptSame
<1>7. CASE cache.data[a].txn = t /\ step = "flip"
  <2>1. RowAt(cache', a) = CommitRow(RowAt(cache, a))
    BY <1>3, <1>4, <1>7, VisitedRow DEF RowAt
  <2>2. a \in Touched(t) /\ t # Nobody
    BY <1>7 DEF LockInv, Signed
  <2>3. cache.hex[a].locked
    BY <1>2, <1>3, <1>7, <2>2 DEF StoreInv, Committing, Landed, Held
  <2>4. Licensed(cache, a)
    BY <1>2, <1>3, <1>7, <2>2 DEF StoreInv, Enlisted, Intent, Licensed
  <2>5. ~cache'.hex[a].locked
    BY <2>1, <1>4, CommittedRow DEF RowAt
  <2>6. a \in Kept(cache') <=> a \in Kept(cache)
    BY <2>1, <2>3, <2>4, <2>5, <1>3, <1>4, Keeping
  <2> QED BY <2>6, <1>3, <1>5, KeptSame
<1>8. CASE cache.data[a].txn = t /\ step = "undo"
  <2>1. RowAt(cache', a) = RollbackRow(RowAt(cache, a))
    BY <1>3, <1>4, <1>8, VisitedRow DEF RowAt
  <2>2. ~Licensed(cache, a)
    BY <1>3, <1>8 DEF StoreInv, Intended, Licensed
  <2>3. ~cache'.hex[a].locked
    BY <2>1, <1>4, RolledBackRow DEF RowAt
  <2>4. a \in Kept(cache') <=> a \in Kept(cache)
    <3>1. a \in Kept(cache) <=> Alive(RowAt(cache, a))
      BY <2>2, <1>4, Keeping
    <3>2. a \in Kept(cache') <=> Alive(RowAt(cache', a))
      BY <2>3, <1>3, Keeping
    <3> QED BY <2>1, <3>1, <3>2, <1>4, AliveRolledBack
  <2> QED BY <2>4, <1>3, <1>5, KeptSame
<1> QED BY <1>3, <1>6, <1>7, <1>8

\* no row under the transaction's lock, or no intention: its record tells nothing
LEMMA KeptRecord ==
    ASSUME LockInv, cache' \in Files, cache'.hex = cache.hex, cache'.data = cache.data, NEW t \in Txn,
           \A u \in Txn : u # t => cache'.listed[u] = cache.listed[u] /\ cache'.intent[u] = cache.intent[u],
           \/ cache.intent[t] = 0 /\ cache'.intent[t] = 0
           \/ \A a \in Addr : cache.hex[a].locked => cache.data[a].txn # t
    PROVE  Kept(cache)' = Kept(cache)
<1>1. cache \in Files
  BY DEF LockInv, TypeOK
<1>2. ASSUME NEW a \in Addr PROVE a \in Kept(cache) <=> a \in Kept(cache')
  <2>1. RowAt(cache', a) = RowAt(cache, a) /\ cache.data[a].txn \in Txn \union {Nobody}
    BY <1>1, RowOf DEF RowAt
  <2>2. cache.hex[a].locked => (Licensed(cache, a) <=> Licensed(cache', a))
    BY <2>1 DEF Licensed
  <2> QED BY <2>1, <2>2, <1>1, KeptRow
<1> QED BY <1>2, KeptSame

LEMMA KeptList ==
    ASSUME LockInv, StoreInv, List("list", TRUE) \/ List("free", FALSE)
    PROVE  Kept(cache)' = Kept(cache)
<1>1. PICK value \in BOOLEAN : cache' = [cache EXCEPT !.listed[job.txn] = value]
  BY DEF List
<1>2. job.txn \in Txn /\ phase[job.txn] \in {"new", "open"}
  BY Where DEF LockInv, List, JobOK
<1>3. /\ cache' \in Files /\ cache'.hex = cache.hex /\ cache'.data = cache.data
      /\ cache'.intent = cache.intent
      /\ \A u \in Txn : u # job.txn => cache'.listed[u] = cache.listed[u]
  BY <1>1 DEF LockInv, TypeOK, Files
<1>4. cache.intent[job.txn] = 0
  BY <1>2 DEF StoreInv, Intended
<1> QED BY <1>2, <1>3, <1>4, KeptRecord

LEMMA KeptBlank ==
    ASSUME LockInv, StoreInv, Blank
    PROVE  Kept(cache)' = Kept(cache)
<1>1. /\ cache' = [cache EXCEPT !.intent[job.txn] = 0] /\ job.txn \in Txn
      /\ \/ phase[job.txn] = "new"
         \/ job.op = "commit" /\ job.rows = <<>> /\ phase[job.txn] = "committed"
  BY Where DEF LockInv, Blank, JobOK
<1>2. /\ cache' \in Files /\ cache'.hex = cache.hex /\ cache'.data = cache.data
      /\ cache'.listed = cache.listed
      /\ \A u \in Txn : cache'.intent[u] = IF u = job.txn THEN 0 ELSE cache.intent[u]
  <2>1. cache \in Files /\ 0 \in 0 .. 1
    BY DEF LockInv, TypeOK
  <2> QED BY <1>1, <2>1, IntentField
<1>3. CASE phase[job.txn] = "new"
  BY <1>1, <1>2, <1>3, KeptRecord DEF StoreInv, Intended
<1>4. CASE job.op = "commit" /\ job.rows = <<>> /\ phase[job.txn] = "committed"
  <2>1. \A a \in Addr : cache.hex[a].locked => cache.data[a].txn # job.txn
    <3>1. Range(<<>>) = {}
      BY DEF Range
    <3> QED BY <3>1, <1>4 DEF LockInv, Owned, Owner, Settling
  <2> QED BY <2>1, <1>1, <1>2, KeptRecord
<1> QED BY <1>1, <1>3, <1>4

\* Nor does recovery.
LEMMA KeptSettle ==
    ASSUME LockInv, StoreInv, Settle
    PROVE  Kept(cache)' = Kept(cache)
<1>1. cache' \in Files /\ cache'.listed = cache.listed /\ cache'.intent = cache.intent
  BY Settling1
<1>2. PICK a \in Addr :
        /\ cache.hex[a].locked /\ ~RowAt(cache', a).hex.locked
        /\ RowAt(cache', a) = Resolved(cache, RowAt(cache, a))
        /\ \A b \in Addr : b # a => RowAt(cache', b) = RowAt(cache, b)
  BY Settling1
<1>3. cache \in Files
  BY DEF LockInv, TypeOK
<1>4. a \in Kept(cache') <=> a \in Kept(cache)
  <2>1. a \in Kept(cache') <=> Alive(RowAt(cache', a))
    BY <1>1, <1>2, Keeping DEF RowAt
  <2>2. a \in Kept(cache) <=> Alive(Resolved(cache, RowAt(cache, a)))
    BY <1>2 DEF Kept, RowAt
  <2> QED BY <2>1, <2>2, <1>2
<1>5. \A b \in Addr : b # a => (b \in Kept(cache') <=> b \in Kept(cache))
  <2> SUFFICES ASSUME NEW b \in Addr, b # a PROVE b \in Kept(cache') <=> b \in Kept(cache)
    OBVIOUS
  <2>1. RowAt(cache', b) = RowAt(cache, b) /\ (Licensed(cache, b) <=> Licensed(cache', b))
    BY <1>1, <1>2 DEF Licensed, RowAt
  <2> QED BY <2>1, <1>1, <1>3, KeptRow
<1> QED BY <1>4, <1>5, KeptSame

LEMMA KeptSweep ==
    ASSUME LockInv, Sweep
    PROVE  Kept(cache)' = Kept(cache)
<1>1. /\ cache' \in Files /\ cache'.hex = cache.hex /\ cache'.data = cache.data
      /\ \A a \in Addr : ~cache.hex[a].locked
  BY Sweeping DEF Left
<1>2. cache \in Files
  BY DEF LockInv, TypeOK
<1>3. ASSUME NEW a \in Addr PROVE a \in Kept(cache) <=> a \in Kept(cache')
  <2>1. RowAt(cache', a) = RowAt(cache, a)
    BY <1>1 DEF RowAt
  <2> QED BY <2>1, <1>1, <1>2, KeptRow
<1> QED BY <1>3, KeptSame

\* the commit point: all of the transaction's rows and no other's
LEMMA KeptIntend ==
    ASSUME LockInv, StoreInv, Intend
    PROVE  Kept(cache)' = (Kept(cache) \ gone[job.txn]) \union (made[job.txn] \ gone[job.txn])
<1> DEFINE t == job.txn
           kept == (Kept(cache) \ gone[t]) \union (made[t] \ gone[t])
<1>1. /\ cache' = [cache EXCEPT !.intent[t] = 1]
      /\ job.op = "commit" /\ job.at = 1 /\ t \in Txn
  BY Where DEF LockInv, Intend, JobOK
<1>2. /\ cache' \in Files /\ cache'.hex = cache.hex /\ cache'.data = cache.data
      /\ cache'.listed = cache.listed
      /\ \A u \in Txn : cache'.intent[u] = IF u = t THEN 1 ELSE cache.intent[u]
  <2>1. cache \in Files /\ 1 \in 0 .. 1
    BY DEF LockInv, TypeOK
  <2> QED BY <1>1, <2>1, IntentField
<1>3. cache \in Files /\ made[t] \subseteq Addr /\ gone[t] \subseteq Addr
  BY <1>1 DEF LockInv, TypeOK
<1>4. ASSUME NEW a \in Addr PROVE a \in Kept(cache') <=> a \in kept
  <2>0. /\ RowAt(cache', a) = RowAt(cache, a) /\ RowAt(cache, a) \in Row
        /\ RowAt(cache, a).hex = cache.hex[a] /\ cache.data[a].txn \in Txn \union {Nobody}
    BY <1>2, <1>3, RowOf DEF RowAt
  <2>1. CASE a \in Touched(t)
    <3>1. Held(t, a)
      BY <1>1, <2>1 DEF StoreInv, Committing
    <3>2. cache'.hex[a].locked /\ Licensed(cache', a)
      BY <3>1, <1>1, <1>2 DEF Held, Licensed, StoreInv, Enlisted
    <3>3. a \in Kept(cache') <=> Alive(CommitRow(RowAt(cache, a)))
      BY <3>2, <2>0, <1>2, Keeping
    <3>4. CASE a \in gone[t]
      <4>1. ~Alive(CommitRow(RowAt(cache, a)))
        BY <3>1, <3>4, <2>0, CommittedRow, AliveRow DEF Held
      <4> QED BY <4>1, <3>3, <3>4
    <3>5. CASE a \notin gone[t]
      <4>1. Alive(CommitRow(RowAt(cache, a)))
        BY <3>1, <3>5, <2>0, CommittedRow, AliveRow DEF Held
      <4> QED BY <4>1, <3>3, <3>5, <2>1 DEF Touched
    <3> QED BY <3>4, <3>5
  <2>2. CASE a \notin Touched(t)
    <3>1. cache.data[a].txn # t
      BY <2>2, <1>1 DEF LockInv, Signed
    <3>2. Licensed(cache, a) <=> Licensed(cache', a)
      BY <3>1, <2>0, <1>2 DEF Licensed
    <3>3. a \in Kept(cache) <=> a \in Kept(cache')
      BY <3>2, <2>0, <1>2, <1>3, KeptRow
    <3> QED BY <3>3, <2>2 DEF Touched
  <2> QED BY <2>1, <2>2
<1>5. Kept(cache') \subseteq Addr /\ kept \subseteq Addr
  BY <1>3 DEF Kept
<1> QED BY <1>4, <1>5

\* files that agree with the disk differ from it in rows whose commit was not acknowledged
LEMMA KeptOnDisk ==
    ASSUME LockInv, StoreInv, NEW files \in Files, Signed(files), Intended(files),
           NEW a \in Addr, Past(files, a), a \notin Doubted \ Removed
    PROVE  a \in Kept(disk) <=> a \in Kept(files)
<1>1. /\ disk \in Files /\ Signed(disk) /\ Intended(disk)
      /\ RowAt(files, a) \in Row /\ RowAt(disk, a) \in Row
  BY RowOf DEF LockInv, TypeOK, StoreInv
<1>2. CASE a \in Removed
  <2>1. RowAt(disk, a) = RowAt(files, a) /\ ~files.hex[a].locked
    BY <1>1, <1>2 DEF Past, Buried, RowAt
  <2> QED BY <2>1, <1>1, KeptRow
<1>3. CASE a \notin Removed /\ a \notin Doubted
  <2>1. ~Licensed(files, a) /\ ~Licensed(disk, a)
    BY <1>1, <1>3, LicensedInDoubt
  <2>2. /\ a \in Kept(files) <=> Alive(RowAt(files, a))
        /\ a \in Kept(disk) <=> Alive(RowAt(disk, a))
    BY <2>1, <1>1, Keeping
  <2>3. Alive(RowAt(disk, a)) <=> Alive(RowAt(files, a))
    <3>1. CASE a \in Rooted
      BY <3>1, <1>1, <1>3, AliveRow DEF Past, RowAt
    <3>2. CASE a \notin Rooted
      BY <3>2, <1>1, <1>3, AliveRow DEF Past
    <3> QED BY <3>1, <3>2
  <2> QED BY <2>2, <2>3
<1> QED BY <1>2, <1>3

\* The refinement, step by step.
LEMMA AtomicInit ==
    ASSUME Init
    PROVE  Atomic!Init
<1>1. cache \in Files
  BY LocksInit DEF LockInv, TypeOK
<1>2. ASSUME NEW a \in Addr PROVE a \in Kept(cache) <=> a \in InitRows
  <2>1. RowAt(cache, a) \in Row /\ RowAt(cache, a).hex = cache.hex[a]
    BY <1>1, RowOf
  <2> QED BY <2>1, <1>1, InitRow, Keeping, AliveRow
<1>3. Kept(cache) = InitRows
  BY <1>2 DEF Kept
<1> QED BY <1>3 DEF Init, Atomic!Init

LEMMA AtomicStutter ==
    ASSUME Kept(cache)' = Kept(cache), UNCHANGED <<made, gone, phase, losses>>
    PROVE  UNCHANGED Atomic!vars
  BY DEF Atomic!vars

\* a stage adds addresses no reader finds, and takes rows a reader finds or its own
LEMMA AtomicCall ==
    ASSUME LockInv, UsedInv, StoreInv, Calls
    PROVE  [Atomic!Next]_(Atomic!vars)
<1>1. cache \in Files
  BY DEF LockInv, TypeOK
<1>2. ASSUME NEW t \in Txn, Begin(t) \/ Commit(t) \/ Rollback(t) PROVE UNCHANGED Atomic!vars
  BY <1>2, AtomicStutter DEF Begin, Commit, Rollback, End
<1>3. ASSUME NEW n \in Addr, Fresh(n) PROVE n \notin Kept(cache)
  <2>1. ~cache.hex[n].locked /\ RowAt(cache, n).hex.off = "none" /\ RowAt(cache, n) \in Row
    BY <1>1, <1>3, FreshRow, RowOf DEF NoHex
  <2> QED BY <2>1, <1>1, Keeping, AliveRow
<1>4. ASSUME Idle, NEW t \in Txn, phase[t] = "open", NEW a \in Addr, Free(t, a)
      PROVE  a \in Kept(cache) \union made[t]
  <2>1. CASE ~cache.hex[a].locked
    <3>1. Alive(RowAt(cache, a))
      BY <1>1, <1>4, <2>1, RowOf DEF Free
    <3> QED BY <3>1, <2>1, <1>1, Keeping
  <2>2. CASE cache.hex[a].locked
    <3>1. cache.data[a].txn = t /\ cache.hex[a].on = "inserted"
      BY <2>2, <1>1, <1>4, RowOf DEF Free
    <3>2. a \in Touched(t)
      BY <3>1 DEF LockInv, Signed
    <3>3. Held(t, a)
      BY <3>2, <1>4, IdleJob DEF StoreInv, Holding, Pending, StageOps
    <3> QED BY <3>1, <3>2, <3>3 DEF Held, Touched
  <2> QED BY <2>1, <2>2
<1>5. ASSUME NEW t \in Txn, NEW op, NEW rows, NEW new \in SUBSET Addr, NEW old \in SUBSET Addr,
             new \intersect Kept(cache) = {}, old \subseteq Kept(cache) \union made[t],
             Staging(t, op, rows, new, old)
      PROVE  Atomic!Next
  <2>1. Atomic!Stage(t, new, old)
    BY <1>5 DEF Staging, Atomic!Stage
  <2> QED BY <2>1 DEF Atomic!Next
<1>6. ASSUME NEW t \in Txn, NEW n \in Addr, Insert(t, n) PROVE Atomic!Next
  <2>1. Staging(t, "insert", <<n>>, {n}, {}) /\ Fresh(n)
    BY <1>6 DEF Insert
  <2>2. {n} \intersect Kept(cache) = {} /\ {n} \in SUBSET Addr /\ {} \in SUBSET Addr
    BY <2>1, <1>3
  <2> QED BY <2>1, <2>2, <1>5
<1>7. ASSUME NEW t \in Txn, NEW n \in Addr, Delete(t, n) PROVE Atomic!Next
  <2>1. Staging(t, "delete", <<n>>, {}, {n}) /\ Free(t, n)
    BY <1>7 DEF Delete
  <2>2. {n} \subseteq Kept(cache) \union made[t] /\ {n} \in SUBSET Addr /\ {} \in SUBSET Addr
    BY <2>1, <1>4 DEF Staging
  <2> QED BY <2>1, <2>2, <1>5
<1>8. ASSUME NEW t \in Txn, NEW n \in Addr, NEW a \in Addr, Update(t, a, n) PROVE Atomic!Next
  <2>1. Staging(t, "update", <<a, n>>, {n}, {a}) /\ Free(t, a) /\ Fresh(n)
    BY <1>8 DEF Update
  <2>2. /\ {n} \intersect Kept(cache) = {} /\ {n} \in SUBSET Addr
        /\ {a} \subseteq Kept(cache) \union made[t] /\ {a} \in SUBSET Addr
    BY <2>1, <1>3, <1>4 DEF Staging
  <2> QED BY <2>1, <2>2, <1>5
<1> QED BY <1>2, <1>6, <1>7, <1>8 DEF Calls

LEMMA AtomicDo ==
    ASSUME LockInv, StoreInv, Do
    PROVE  [Atomic!Next]_(Atomic!vars)
<1>1. ASSUME NEW step \in Visits, Visit(step) PROVE UNCHANGED Atomic!vars
  <2>1. Kept(cache)' = Kept(cache)
    BY <1>1, KeptStage, KeptResolve DEF Visits
  <2> QED BY <2>1, <1>1, AtomicStutter DEF Visit
<1>2. CASE Blank \/ List("list", TRUE) \/ List("free", FALSE)
  <2>1. Kept(cache)' = Kept(cache)
    BY <1>2, KeptBlank, KeptList
  <2> QED BY <2>1, <1>2, AtomicStutter DEF Blank, List
<1>3. CASE SyncData \/ SyncHexmap
  BY <1>3, AtomicStutter DEF SyncData, SyncHexmap
<1>4. CASE Intend
  <2>1. job.txn \in Txn /\ phase[job.txn] = "open"
    BY <1>4, Where DEF Intend, LockInv, JobOK
  <2>2. Atomic!Commit(job.txn)
    BY <1>4, <2>1, KeptIntend DEF Intend, Atomic!Commit
  <2> QED BY <2>1, <2>2 DEF Atomic!Next
<1>5. CASE Return("opened", "open")
  <2>1. job.txn \in Txn /\ phase[job.txn] = "new"
    BY <1>5, Where DEF Return, LockInv, JobOK
  <2>2. Atomic!Begin(job.txn)
    BY <1>5, <2>1 DEF Return, Atomic!Begin
  <2> QED BY <2>1, <2>2 DEF Atomic!Next
<1>6. CASE Return("acked", "acked")
  <2>1. job.txn \in Txn /\ phase[job.txn] = "committed"
    BY <1>6, Where DEF Return, LockInv, JobOK
  <2>2. Atomic!Acknowledge(job.txn)
    BY <1>6, <2>1 DEF Return, Atomic!Acknowledge
  <2> QED BY <2>1, <2>2 DEF Atomic!Next
<1>7. CASE Return("over", "over")
  <2>1. job.txn \in Txn /\ phase[job.txn] = "open"
    BY <1>7, Where DEF Return, LockInv, JobOK
  <2>2. Atomic!Abort(job.txn)
    BY <1>7, <2>1 DEF Return, Atomic!Abort
  <2> QED BY <2>1, <2>2 DEF Atomic!Next
<1> QED BY <1>1, <1>2, <1>3, <1>4, <1>5, <1>6, <1>7 DEF Do

\* the rows the abstract store may lose
LEMMA RowsInDoubt == Atomic!InDoubt = Doubted \ Removed
<1> DEFINE U == UNION {made[t] \union gone[t] : t \in {u \in Txn : phase[u] = "committed"}}
           V == UNION {gone[t] : t \in {u \in Txn : phase[u] = "acked"}}
<1>1. Doubted = U
  BY Zenon DEF Doubted, Of, Touched
<1>2. Removed = V
  BY Zenon DEF Removed, Of
<1>3. Atomic!InDoubt = U \ V
  BY Zenon DEF Atomic!InDoubt
<1> HIDE DEF U, V
<1> QED BY Zenon, <1>1, <1>2, <1>3

\* files that agree with the disk, and so with the cache, are found apart from it in
\* rows in doubt alone
LEMMA Spoiled ==
    ASSUME LockInv, StoreInv, NEW files \in Files, Signed(files), Intended(files),
           \A a \in Addr : Past(files, a),
           NEW S, S = (Kept(cache) \ Kept(files)) \union (Kept(files) \ Kept(cache))
    PROVE  S \in SUBSET Atomic!InDoubt /\ Kept(files) = (Kept(cache) \ S) \union (S \ Kept(cache))
<1>1. ASSUME NEW a \in Addr, a \notin Doubted \ Removed
      PROVE  a \in Kept(cache) <=> a \in Kept(files)
  <2>1. a \in Kept(disk) <=> a \in Kept(files)
    BY <1>1, KeptOnDisk
  <2>2. a \in Kept(disk) <=> a \in Kept(cache)
    <3>1. cache \in Files /\ Signed(cache) /\ Intended(cache) /\ Past(cache, a)
      BY DEF LockInv, TypeOK, StoreInv
    <3> QED BY <3>1, <1>1, KeptOnDisk
  <2> QED BY <2>1, <2>2
<1>2. Kept(cache) \subseteq Addr /\ Kept(files) \subseteq Addr
  BY DEF Kept
<1> QED BY <1>1, <1>2, RowsInDoubt

\* A kill harms at most the row whose dump it cut in two, and that only if it is in doubt.
LEMMA AtomicKill ==
    ASSUME LockInv, StoreInv, Kill
    PROVE  Atomic!Kill
<1>1. PICK files \in Remains : Restart(files) /\ UNCHANGED losses
  BY DEF Kill
<1>2. /\ cache' = files /\ UNCHANGED <<made, gone, losses>>
      /\ phase' = [t \in Txn |-> IF phase[t] = "open" THEN "over" ELSE phase[t]]
  BY <1>1 DEF Restart
<1> DEFINE S == (Kept(cache) \ Kept(files)) \union (Kept(files) \ Kept(cache))
<1>3. S \in SUBSET Atomic!InDoubt /\ Kept(files) = (Kept(cache) \ S) \union (S \ Kept(cache))
  BY RemainsPast, Spoiled
<1>4. S = {} \/ \E a \in Addr : S = {a}
  <2>1. CASE files = cache
    BY <2>1
  <2>2. ASSUME NEW d \in Dumps, \A b \in Addr : b # d[1] => RowAt(files, b) = RowAt(cache, b)
        PROVE  S = {} \/ \E a \in Addr : S = {a}
    <3>1. ASSUME NEW b \in Addr, b # d[1] PROVE b \in Kept(files) <=> b \in Kept(cache)
      <4>1. /\ RowAt(files, b) = RowAt(cache, b) /\ files \in Files /\ cache \in Files
            /\ files.listed = cache.listed /\ files.intent = cache.intent
        BY <2>2, <3>1, RemainsOne DEF LockInv, TypeOK
      <4>2. Licensed(cache, b) <=> Licensed(files, b)
        BY <4>1 DEF Licensed, RowAt
      <4> QED BY <4>1, <4>2, KeptRow
    <3>2. S \subseteq {d[1]}
      BY <3>1 DEF Kept
    <3>3. S = {} \/ S = {d[1]}
      BY <3>2
    <3> QED BY <3>3, DumpedRow
  <2> QED BY <2>1, <2>2, RemainsOne
<1>5. Kept(cache)' = (Kept(cache) \ S) \union (S \ Kept(cache))
  BY <1>2, <1>3
<1> HIDE DEF S
<1> QED BY <1>2, <1>3, <1>4, <1>5 DEF Atomic!Kill, Atomic!Loses, Atomic!Ended

LEMMA AtomicLoss ==
    ASSUME LockInv, StoreInv, PowerLoss
    PROVE  Atomic!PowerLoss
<1>1. /\ cache' = disk /\ UNCHANGED <<made, gone>> /\ losses' = losses + 1
      /\ phase' = [t \in Txn |-> IF phase[t] = "open" THEN "over" ELSE phase[t]]
  BY DEF PowerLoss, Restart
<1>2. disk \in Files /\ Signed(disk) /\ Intended(disk) /\ \A a \in Addr : Past(disk, a)
  BY DEF LockInv, TypeOK, StoreInv, Past
<1> DEFINE S == (Kept(cache) \ Kept(disk)) \union (Kept(disk) \ Kept(cache))
<1>3. S \in SUBSET Atomic!InDoubt /\ Kept(disk) = (Kept(cache) \ S) \union (S \ Kept(cache))
  BY <1>2, Spoiled
<1>4. Kept(cache)' = (Kept(cache) \ S) \union (S \ Kept(cache))
  BY <1>1, <1>3
<1> HIDE DEF S
<1> QED BY <1>1, <1>3, <1>4 DEF Atomic!PowerLoss, Atomic!Loses, Atomic!Ended

LEMMA AtomicNext ==
    ASSUME LockInv, UsedInv, StoreInv, [Next]_vars
    PROVE  [Atomic!Next]_(Atomic!vars)
<1>1. \/ UNCHANGED vars \/ Calls \/ Do \/ WriteBack \/ Settle \/ Sweep \/ Kill \/ PowerLoss
  BY DEF Next, Done, Calls
<1>2. CASE UNCHANGED vars
  BY <1>2 DEF vars, Atomic!vars
<1>3. CASE WriteBack
  BY <1>3, AtomicStutter DEF WriteBack
<1>4. CASE Settle
  BY <1>4, KeptSettle, AtomicStutter DEF Settle
<1>5. CASE Sweep
  BY <1>5, KeptSweep, AtomicStutter DEF Sweep
<1>6. CASE Kill
  BY <1>6, AtomicKill DEF Atomic!Next
<1>7. CASE PowerLoss
  BY <1>7, AtomicLoss DEF Atomic!Next
<1> QED BY <1>1, <1>2, <1>3, <1>4, <1>5, <1>6, <1>7, AtomicCall, AtomicDo

\* The order of writes and syncs in commit_transaction and rollback_transaction, with
\* memory_initialize after any crash, implements the store whose transactions change all of
\* their rows at once (CrashesSpareTheRest): a kill, between two writes of a dump_control
\* included, harms nothing but the one row that was being written, and that only if its
\* commit has not returned; a power loss harms nothing but such commits.
THEOREM CrashesKeepWholeTransactions == Spec => CrashesSpareTheRest
<1>1. Init => Atomic!Init
  BY AtomicInit
<1>2. LockInv /\ UsedInv /\ StoreInv /\ [Next]_vars => [Atomic!Next]_(Atomic!vars)
  BY AtomicNext
<1> QED BY <1>1, <1>2, Stores, PTL DEF Spec, CrashesSpareTheRest, Atomic!Spec
=============================================================================
