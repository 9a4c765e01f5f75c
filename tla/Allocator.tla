------------------------------ MODULE Allocator ------------------------------
(***************************************************************************)
(* The page and span allocator of the MVCCS storage engine                 *)
(* (MVCCS-cicili/mvccs-lib.cicili): who owns which chunk.                  *)
(*                                                                         *)
(* Three accounts of the same chunks have to agree.  The hexmap file has a *)
(* byte for every chunk; the free list, in memory only, has the spans that *)
(* can be handed out; and the records themselves stand where allocate put  *)
(* them.  Nobody stores a record's length: the cursor, TRUNCATE, free and  *)
(* start-up each measure it by walking the hexmap bytes, and start-up      *)
(* rebuilds the whole free list from them.                                 *)
(*                                                                         *)
(* Every operation runs under the store's Streams guard and is one step,   *)
(* except online_update: its check_lock gives the guard back between       *)
(* allocate, which takes the span off the list, and the writes that mark   *)
(* it allocated in the hexmap.                                             *)
(*                                                                         *)
(* Abstractions.  A chunk is the unit of size; the page's own control      *)
(* chunks are one; the size classes of the free list and the order of its  *)
(* chains are left out, so allocate may take any entry that fits; the      *)
(* state bits of a control byte are the field dead of a row, and a data    *)
(* byte read as a control byte reads as a row that is not dead.            *)
(***************************************************************************)
EXTENDS Integers, FiniteSets, FiniteSetsExt

CONSTANTS
    Key,        \* the hash keys: tables, indexes, the transactions' own
    Raw,        \* keys of the engine's own records, freed one at a time
    Updated,    \* tables whose rows online_update rewrites
    Truncated,  \* tables TRUNCATE is run on
    Session,    \* threads that may be inside online_update
    Size,       \* Size[k]: the data chunks a record of k may take
    CONTROL_COUNT, \* the control chunks in front of a record
    PageChunks, \* hbpp, the chunks of a page
    MaxPages,   \* bound: pages the file may grow to
    FREE,       \* FREE_HASHKEY
    NONE        \* not a key: the page is past the end of the file

ASSUME AllocatorAssumption ==
    /\ Raw \subseteq Key /\ Updated \subseteq Key /\ Truncated \subseteq Key
    /\ FREE \notin Key /\ NONE \notin Key /\ FREE # NONE
    /\ CONTROL_COUNT \in Nat \ {0} /\ PageChunks \in Nat \ {0} /\ MaxPages \in Nat \ {0}
    /\ \A k \in Key : Size[k] \subseteq 1 .. PageChunks - 1 - CONTROL_COUNT

VARIABLES
    store, \* [hex, page, list]: what the hexmap byte of each chunk says, the
           \* key each page hangs from, the free list
    rows,  \* history: the records that were written and not freed
    pend   \* pend[s]: the update s has allocated for and waits in check_lock

vars == <<store, rows, pend>>

-----------------------------------------------------------------------------
(* Hexmap bytes: bit 7 says allocated, bit 6 ends a run                    *)

Byte == {"free", "freeEnd", "head", "headEnd", "data", "dataEnd"}

Allocated(b)  == b \notin {"free", "freeEnd"}
Standalone(b) == b \in {"freeEnd", "headEnd", "dataEnd"}

Pages == 0 .. MaxPages - 1
Chunk == 0 .. MaxPages * PageChunks - 1

PageOf(c) == c \div PageChunks
First(p)  == p * PageChunks + 1           \* behind the page's control chunk
Limit(p)  == (p + 1) * PageChunks         \* the first chunk past the page

Span(e) == e.addr .. e.addr + e.size - 1  \* of a free entry: all its chunks
Body(r) == r.addr .. r.addr + CONTROL_COUNT + r.size - 1 \* of a record: control and data

\* fill_n and one last byte: a run of count chunks from a
Fill(h, a, count, inner, last) ==
    [c \in DOMAIN h |-> IF c \in a .. a + count - 2 THEN inner
                        ELSE IF c = a + count - 1 THEN last
                        ELSE h[c]]

DumpControl(h, a)   == Fill(h, a, CONTROL_COUNT, "head", "headEnd")
FullHexmap(h, a, n) == Fill(h, a + CONTROL_COUNT, n, "data", "dataEnd")
FreeHexmap(h, a, n) == Fill(h, a, n, "free", "freeEnd")

\* allocate_page: the page's control chunk full, everything behind it free
AllocatePage(h, p) ==
    FreeHexmap(Fill(h, First(p) - 1, 1, "data", "dataEnd"), First(p), PageChunks - 1)

-----------------------------------------------------------------------------
(* Allocation                                                              *)

Entry(k, a, n) == [key |-> k, addr |-> a, size |-> n]

Fits(st, k, n) == {e \in st.list : e.key = k /\ CONTROL_COUNT + n <= e.size}

\* mutant: the leftover measured without the control chunks
LeftoverForgetsControl(e, n) == IF e.size = n THEN {} ELSE {Entry(e.key, e.addr + n, e.size - n)}

\* what is left of a span a record of n data chunks was taken from the front of
Leftover(e, n) == IF e.size = CONTROL_COUNT + n THEN {}
              ELSE {Entry(e.key, e.addr + CONTROL_COUNT + n, e.size - CONTROL_COUNT - n)}

\* the pages a new page is made from: a FREE one, or the next of the file
NewPages(st) ==
    LET free == {p \in Pages : st.page[p] = FREE}
        past == {p \in Pages : st.page[p] = NONE}
    IN  IF free # {} \/ past = {} THEN free ELSE {Min(past)}

NewPage(st, k, p, n) ==
    [hex  |-> AllocatePage(st.hex, p),
     page |-> [st.page EXCEPT ![p] = k],
     list |-> st.list \union {Entry(k, First(p) + CONTROL_COUNT + n, PageChunks - 1 - CONTROL_COUNT - n)}]

\* allocate: the address a record of n data chunks may be given and the store
\* that leaves.  The hexmap still says the span is free.
Allocate(st, k, n) ==
    IF Fits(st, k, n) # {}
    THEN {[at |-> e.addr, st |-> [st EXCEPT !.list = (@ \ {e}) \union Leftover(e, n)]] :
             e \in Fits(st, k, n)}
    ELSE {[at |-> First(p), st |-> NewPage(st, k, p, n)] : p \in NewPages(st)}

-----------------------------------------------------------------------------
(* Freeing                                                                 *)

\* mutant: the standalone byte that ends the run before a taken for a boundary
FreePrevCountStopsAtEnd(h, a) ==
    a - 1 - Max({c \in First(PageOf(a)) - 1 .. a - 1 : Allocated(h[c]) \/ Standalone(h[c])})

\* free_prev_count: the free chunks right before a, whatever runs they are of
FreePrevCount(h, a) ==
    a - 1 - Max({c \in First(PageOf(a)) - 1 .. a - 1 : Allocated(h[c])})

\* free_next_count: the free run at a, if it ends in a standalone byte before
\* anything allocated and before the page does
FreeNextCount(h, a) ==
    LET stops == {c \in a .. Limit(PageOf(a - 1)) - 1 : h[c] # "free"}
    IN  IF stops # {} /\ h[Min(stops)] = "freeEnd" THEN Min(stops) - a + 1 ELSE 0

\* free_list_erase_at
EraseAt(l, k, a) == {e \in l : e.key # k \/ e.addr # a}

\* mutant: a span measured against the whole page, its control chunk included
WholePageAndControl(full) == full = PageChunks

\* nothing but the page's own control chunk is left allocated
WholePage(full) == full = PageChunks - 1

\* free_pointer of a record of k with n data chunks at a
FreePointer(st, k, a, n) ==
    LET prev  == FreePrevCount(st.hex, a)
        next  == FreeNextCount(st.hex, a + CONTROL_COUNT + n)
        begin == a - prev
        full  == prev + CONTROL_COUNT + n + next
        rest  == EraseAt(IF prev > 0 THEN EraseAt(st.list, k, begin) ELSE st.list,
                         k, IF next > 0 THEN a + CONTROL_COUNT + n ELSE -1)
        hex   == FreeHexmap(st.hex, begin, full)
    IN  IF WholePage(full)
        THEN [hex  |-> AllocatePage(hex, PageOf(begin)),
              page |-> [st.page EXCEPT ![PageOf(begin)] = FREE],
              list |-> rest]
        ELSE [hex |-> hex, page |-> st.page,
              list |-> rest \union {Entry(k, begin, full)}]

-----------------------------------------------------------------------------
(* Walking the hexmap                                                      *)

\* mutant: a hole read as the control block of a record
WalkReadsHoles(h, p) ==
    LET from[i \in First(p) .. Limit(p)] ==
            LET ends == {c \in i + CONTROL_COUNT .. Limit(p) - 1 :
                           Standalone(h[c]) /\ h[c] # "headEnd"}
                end  == Min(ends)
                here == [addr |-> i, size |-> end - i - CONTROL_COUNT + 1]
            IN  IF i = Limit(p) \/ ends = {} THEN {}
                ELSE (IF h[end] = "dataEnd" THEN {here} ELSE {}) \union from[end + 1]
    IN  from[First(p)]

\* the records a cursor, or dead_pointers, takes the bytes of page p for
Walk(h, p) ==
    LET from[i \in First(p) .. Limit(p)] ==
            LET ends == {c \in i + CONTROL_COUNT .. Limit(p) - 1 :
                           Standalone(h[c]) /\ h[c] # "headEnd"}
                end  == Min(ends)
                here == [addr |-> i, size |-> end - i - CONTROL_COUNT + 1]
            IN  IF i = Limit(p)             THEN {}
                ELSE IF ~Allocated(h[i])    THEN from[i + 1]
                ELSE IF ends = {}           THEN {}
                ELSE (IF h[end] = "dataEnd" THEN {here} ELSE {}) \union from[end + 1]
    IN  from[First(p)]

\* mutant: start-up leaves the page at its first hole
HolesFirstOnly(h, p, k) ==
    LET free == {c \in First(p) .. Limit(p) - 1 : ~Allocated(h[c])}
        end  == Min({c \in free : h[c] = "freeEnd"})
    IN  IF free = {} THEN {} ELSE {Entry(k, Min(free), end - Min(free) + 1)}

\* the free runs start-up finds in page p and lists under the page's key
Holes(h, p, k) ==
    LET from[i \in First(p) .. Limit(p)] ==
            LET ends == {c \in i + CONTROL_COUNT .. Limit(p) - 1 : Standalone(h[c])}
                stop == Min({c \in i .. Limit(p) - 1 : Allocated(h[c]) \/ h[c] = "freeEnd"}
                              \union {Limit(p)})
                next == IF stop < Limit(p) /\ ~Allocated(h[stop]) THEN stop + 1 ELSE stop
            IN  IF i = Limit(p)          THEN {}
                ELSE IF ~Allocated(h[i]) THEN {Entry(k, i, next - i)} \union from[next]
                \* a head with no data behind it: the rest of the page is passed over
                ELSE IF ends = {} \/ h[Min(ends)] = "freeEnd" THEN {}
                ELSE from[Min(ends) + 1]
    IN  from[First(p)]

PagesOf(st, k) == {p \in Pages : st.page[p] = k}

-----------------------------------------------------------------------------
(* Operations                                                              *)

Row(k, a, n) == [key |-> k, addr |-> a, size |-> n, dead |-> FALSE]

Written(h, a, n) == FullHexmap(DumpControl(h, a), a, n)

\* online_insert, offline_insert: one hold of the guard
Insert(k, n) ==
    \E x \in Allocate(store, k, n) :
        /\ store' = [x.st EXCEPT !.hex = Written(@, x.at, n)]
        /\ rows' = rows \union {Row(k, x.at, n)}
        /\ UNCHANGED pend

NoUpdate == [key |-> NONE, addr |-> 0, size |-> 0, old |-> 0]

\* online_update up to the wait: the new version's span is off the list and
\* nothing in the hexmap says so when check_lock gives the guard back
UpdateAllocates(s, old, n) ==
    /\ pend[s] = NoUpdate
    /\ \E x \in Allocate(store, old.key, n) :
        /\ store' = x.st
        /\ pend' = [pend EXCEPT ![s] = [key |-> old.key, addr |-> x.at, size |-> n,
                                        old |-> old.addr]]
    /\ UNCHANGED rows

\* a record of the table stands where the version to be replaced stood: that
\* one, superseded or not, or one its address was given to since
OldStands(u) == \E r \in rows : r.key = u.key /\ r.addr = u.old

\* check_lock answers: the row is ours, control_update heads the new version
UpdateGranted(s) ==
    LET u == pend[s]
    IN  /\ u # NoUpdate /\ OldStands(u)
        /\ store' = [store EXCEPT !.hex = Written(@, u.addr, u.size)]
        /\ rows' = rows \union {Row(u.key, u.addr, u.size)}
        /\ pend' = [pend EXCEPT ![s] = NoUpdate]

\* check_lock answers false, for a deleted row, a freed one or another's staged
\* version: control_update returns at once, and online_update goes on to mark
\* the data chunks of a record that has no head
UpdateRefused(s) ==
    LET u == pend[s]
    IN  /\ u # NoUpdate
        /\ store' = [store EXCEPT !.hex = FullHexmap(@, u.addr, u.size)]
        /\ pend' = [pend EXCEPT ![s] = NoUpdate]
        /\ UNCHANGED rows

\* check_lock throws "lock wait timeout": the span stays off the list
UpdateGivesUp(s) ==
    /\ pend[s] # NoUpdate /\ OldStands(pend[s])
    /\ pend' = [pend EXCEPT ![s] = NoUpdate]
    /\ UNCHANGED <<store, rows>>

\* a version settles dead: its deletion or its successor commits, or its own
\* insertion rolls back
Die(r) ==
    /\ r.key \notin Raw /\ ~r.dead
    /\ rows' = (rows \ {r}) \union {[r EXCEPT !.dead = TRUE]}
    /\ UNCHANGED <<store, pend>>

\* an index node, a transaction record, a sequence is freed by its address
Release(r) ==
    /\ r.key \in Raw
    /\ store' = FreePointer(store, r.key, r.addr, r.size)
    /\ rows' = rows \ {r}
    /\ UNCHANGED pend

\* dead_pointers: the records of k the walk finds and reads as settled dead
DeadPointers(k) ==
    {w \in UNION {Walk(store.hex, p) : p \in PagesOf(store, k)} :
        \E r \in rows : r.key = k /\ r.addr = w.addr /\ r.dead}

\* the store once all of dead are freed, from the last chunk to the first: the
\* order of the dead list
FreeAll(k, dead) ==
    LET from[c \in 0 .. MaxPages * PageChunks] ==
            LET here == {w \in dead : w.addr = c}
            IN  IF c = MaxPages * PageChunks THEN store
                ELSE IF here = {}            THEN from[c + 1]
                ELSE FreePointer(from[c + 1], k, c, (CHOOSE w \in here : TRUE).size)
    IN  from[0]

\* truncate_key: collected in full before anything is freed, one hold
Truncate(k) ==
    LET dead == DeadPointers(k)
    IN  /\ dead # {}
        /\ store' = FreeAll(k, dead)
        /\ rows' = {r \in rows : r.key = k /\ r.dead => \A w \in dead : w.addr # r.addr}
        /\ UNCHANGED pend

\* the store is closed, or its process dies, and it is opened again: nothing
\* in memory is left and the list is what the hexmap says
Restart ==
    /\ store' = [store EXCEPT !.list =
                    UNION {Holes(store.hex, p, store.page[p]) :
                             p \in {q \in Pages : store.page[q] \in Key}}]
    /\ pend' = [s \in Session |-> NoUpdate]
    /\ UNCHANGED rows

Init ==
    /\ store = [hex  |-> [c \in Chunk |-> "free"],
                page |-> [p \in Pages |-> NONE],
                list |-> {}]
    /\ rows = {}
    /\ pend = [s \in Session |-> NoUpdate]

Next ==
    \/ \E k \in Key : \E n \in Size[k] : Insert(k, n)
    \/ \E s \in Session, r \in rows :
          /\ r.key \in Updated /\ ~r.dead
          /\ \E n \in Size[r.key] : UpdateAllocates(s, r, n)
    \/ \E s \in Session : UpdateGranted(s) \/ UpdateRefused(s) \/ UpdateGivesUp(s)
    \/ \E r \in rows : Die(r) \/ Release(r)
    \/ \E k \in Truncated : Truncate(k)
    \/ Restart

Spec == Init /\ [][Next]_vars

-----------------------------------------------------------------------------
(* Properties                                                              *)

\* TYPE INVARIANT.  The free list names only chunks the file has.
TypeOK ==
    /\ DOMAIN store = {"hex", "page", "list"}
    /\ store.hex \in [Chunk -> Byte]
    /\ store.page \in [Pages -> Key \union {FREE, NONE}]
    /\ \A e \in store.list : e.key \in Key /\ e.size \in Nat /\ Span(e) \subseteq Chunk
    /\ \A r \in rows : r.key \in Key /\ r.addr \in Chunk /\ r.size \in Size[r.key]
    /\ \A s \in Session : pend[s] # NoUpdate => pend[s].key \in Updated

\* Everybody who holds chunks, and which: a record, a waiting update, the list
Holders ==
    {<<"row", r, Body(r)>> : r \in rows}
      \union {<<"update", s, Body(pend[s])>> : s \in {t \in Session : pend[t] # NoUpdate}}
      \union {<<"list", e, Span(e)>> : e \in store.list}

\* NO CHUNK HAS TWO HOLDERS: a span that allocate handed out is in no entry of
\* the free list and in no other record until free_pointer takes it back, and
\* every record's chunks hang from the record's key.
SpansApart ==
    /\ \A x, y \in Holders : x # y => x[3] \cap y[3] = {}
    /\ \A r \in rows : \A c \in Body(r) : store.page[PageOf(c)] = r.key

\* EVERY RECORD IS FOUND: the walk of a page, which knows no length but what
\* the bytes tell, takes every record for exactly what was written, so no row
\* is hidden behind a hole or read in part.
RowsAreFound ==
    \A r \in rows :
        [addr |-> r.addr, size |-> r.size] \in Walk(store.hex, PageOf(r.addr))

\* e spans free chunks of page p, and neither chunk next to them is free
MaximalRun(h, p, e) ==
    /\ e.addr + e.size <= Limit(p)
    /\ \A c \in Span(e) : ~Allocated(h[c])
    /\ Allocated(h[e.addr - 1])
    /\ e.addr + e.size = Limit(p) \/ Allocated(h[e.addr + e.size])

FreeRuns(h, p, k) ==
    {e \in {Entry(k, c, n) : c \in First(p) .. Limit(p) - 1, n \in 1 .. PageChunks - 1} :
        MaximalRun(h, p, e)}

Listed(st, p) == {e \in st.list : e.size > 0 /\ PageOf(e.addr) = p}

\* FREE SPACE IS WHOLE: where no update waits, the entries of a page are its
\* maximal free runs, so freeing always coalesced with both neighbours and
\* nothing that is free is lost to allocate.
RunsAreWhole ==
    \A p \in Pages : store.page[p] \in Key \ Updated =>
        Listed(store, p) = FreeRuns(store.hex, p, store.page[p])

\* EMPTY PAGES COME BACK: a page no record is left in does not stay its
\* table's; free_pointer hands it back for any key.
PagesComeBack ==
    \A p \in Pages : store.page[p] \in Key \ Updated =>
        \E c \in First(p) .. Limit(p) - 1 : Allocated(store.hex[c])

\* A RESTART FINDS ALL FREE SPACE: the list start-up rebuilds has every free
\* run of every keyed page, those behind the first record and those whose
\* update never came back included.
RestartFindsAll ==
    [][Restart => \A p \in Pages : store.page[p] \in Key =>
          Listed(store', p) = FreeRuns(store.hex, p, store.page[p])]_vars
=============================================================================
