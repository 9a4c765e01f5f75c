--------------------------- MODULE AllocatorProofs ---------------------------
(***************************************************************************)
(* Proofs about the page and span allocator, for every number of pages,    *)
(* chunks, keys and sizes.                                                 *)
(*                                                                         *)
(* AllocInv is the inductive invariant.  Sound says that the hexmap, the   *)
(* free list, the records and the spans that wait are of one mind about    *)
(* every chunk; Whole, that in a page of a table that is not updated each  *)
(* hole is one entry of the list; Waits, that no two sessions wait for the *)
(* same span.                                                              *)
(*                                                                         *)
(* The theorems are of the behaviours of Spec in which every step is       *)
(* Orderly: whatever the tables, and whichever of them are updated,        *)
(* truncated or both, a row is freed from a page only while none of the    *)
(* page's free space is an update's that did not write there, and an       *)
(* update is refused only if its row is longer than its control chunks.    *)
(* What the code does in the other behaviours is in the configuration      *)
(* overlap.                                                                *)
(***************************************************************************)
EXTENDS Allocator, TLAPS, WellFoundedInduction, NaturalsInduction

-----------------------------------------------------------------------------
(* Pages                                                                   *)

\* Multiples of n are n apart: page i ends before page j begins.
LEMMA Multiples ==
    ASSUME NEW i \in Nat, NEW j \in Nat, NEW n \in Nat, i < j
    PROVE  i * n \in Nat /\ i * n + n <= j * n
<1>1. j - i - 1 \in Nat /\ j = i + 1 + (j - i - 1)
  OBVIOUS
<1>2. j * n = i * n + n + (j - i - 1) * n
  BY <1>1
<1>3. (j - i - 1) * n \in Nat /\ i * n \in Nat
  BY <1>1
<1> QED BY <1>2, <1>3

\* The chunks of a page lie in the hexmap, are of that page, and of no other.
LEMMA Geometry ==
    ASSUME NEW p \in Pages
    PROVE  /\ First(p) \in Nat \ {0} /\ Limit(p) \in Nat /\ Limit(p) = First(p) + PageChunks - 1
           /\ First(p) - 1 .. Limit(p) - 1 \subseteq Chunk
           /\ Chunk \subseteq Nat
           /\ \A c \in First(p) - 1 .. Limit(p) - 1 : PageOf(c) = p
           /\ \A q \in Pages : q # p => Limit(p) <= First(q) - 1 \/ Limit(q) <= First(p) - 1
<1>1. p \in Nat /\ MaxPages \in Nat /\ PageChunks \in Nat \ {0} /\ p < MaxPages
  BY AllocatorAssumption DEF Pages
<1>2. p * PageChunks \in Nat /\ p * PageChunks + PageChunks <= MaxPages * PageChunks
  BY <1>1, Multiples
<1>3. (p + 1) * PageChunks = p * PageChunks + PageChunks
  BY <1>1
<1>4. MaxPages * PageChunks \in Nat
  BY <1>1
<1> DEFINE b == p * PageChunks
<1>5. First(p) = b + 1 /\ Limit(p) = b + PageChunks
  BY <1>3 DEF First, Limit
<1>6. ASSUME NEW c \in b .. b + PageChunks - 1 PROVE PageOf(c) = p
  <2>1. c \div PageChunks = p
    BY <1>1, <1>2, <1>6
  <2> QED BY <2>1 DEF PageOf
<1>7. ASSUME NEW q \in Pages, q # p PROVE Limit(p) <= First(q) - 1 \/ Limit(q) <= First(p) - 1
  <2>1. q \in Nat /\ (q < p \/ p < q)
    BY <1>1, <1>7 DEF Pages
  <2>2. q * PageChunks \in Nat /\ (q + 1) * PageChunks = q * PageChunks + PageChunks
    BY <1>1, <2>1
  <2>3. CASE q < p
    BY <1>1, <1>5, <2>1, <2>2, <2>3, Multiples DEF First, Limit
  <2>4. CASE p < q
    BY <1>1, <1>5, <2>1, <2>2, <2>4, Multiples DEF First, Limit
  <2> QED BY <2>1, <2>3, <2>4
<1> HIDE DEF b
<1>8. b \in Nat /\ b + PageChunks <= MaxPages * PageChunks
  BY <1>2 DEF b
<1> QED BY <1>1, <1>4, <1>5, <1>6, <1>7, <1>8 DEF Chunk

-----------------------------------------------------------------------------
(* The invariant                                                           *)

\* the chunks of page p that can be handed out
Own(p) == First(p) .. Limit(p) - 1

\* a record, or a hole, may begin at chunk c
Boundary(h, c) == h[c - 1] \in {"free", "freeEnd", "dataEnd"}

\* what a walk takes for one record: the bytes of one, from chunk c to chunk d, or the
\* data bytes of an update that was refused
Unit(h, c, d) ==
    /\ c + CONTROL_COUNT <= d
    /\ \A x \in c .. c + CONTROL_COUNT - 1 : h[x] \in {"head", "headEnd", "data"}
    /\ \A x \in c + CONTROL_COUNT .. d - 1 : h[x] = "data"
    /\ h[d] = "dataEnd"

\* the last byte of a record
Last(r) == r.addr + CONTROL_COUNT + r.size - 1

\* the shape of a store
StoreType(st) ==
    st \in [hex : [Chunk -> Byte], page : [Pages -> Key \union {FREE, NONE}],
            list : SUBSET [key : Key, addr : Nat, size : Nat]]

\* the n chunks from a are in one page of k
InPage(st, k, a, n) ==
    \E p \in Pages : st.page[p] = k /\ First(p) <= a /\ a + n <= Limit(p)

\* a record: its bytes are in the hexmap
RowOk(st, r) ==
    /\ r \in [key : Key, addr : Nat, size : Nat \ {0}, dead : BOOLEAN]
    /\ r.size \in Size[r.key]
    /\ InPage(st, r.key, r.addr, CONTROL_COUNT + r.size)
    /\ Unit(st.hex, r.addr, Last(r))
    /\ Boundary(st.hex, r.addr)

\* a span that is allotted: the hexmap says it is free
SpanOk(st, u) ==
    /\ u \in [key : Key, addr : Nat, size : Nat \ {0}, old : Nat]
    /\ u.size \in Size[u.key]
    /\ InPage(st, u.key, u.addr, CONTROL_COUNT + u.size)
    /\ \A c \in Body(u) : ~Allocated(st.hex[c])
    /\ Boundary(st.hex, u.addr)

\* a span that can be allotted
EntryOk(st, e) ==
    e.size > 0 =>
        /\ InPage(st, e.key, e.addr, e.size)
        /\ \A c \in Span(e) : ~Allocated(st.hex[c])
        /\ Boundary(st.hex, e.addr)

\* a page of a key: its own control chunk is full, a byte that ends a hole has nothing
\* free behind it, and what is allocated is made of units
PageOk(st, p) ==
    st.page[p] \in Key =>
        /\ st.hex[First(p) - 1] = "dataEnd"
        /\ \A c \in Own(p) : st.hex[c] = "freeEnd" => c = Limit(p) - 1 \/ Allocated(st.hex[c + 1])
        /\ \A c \in Own(p) : Allocated(st.hex[c]) =>
                \E b, d \in Own(p) : b <= c /\ c <= d /\ Boundary(st.hex, b) /\ Unit(st.hex, b, d)

\* no chunk is in two
Disjoint(st, rs, us) ==
    /\ \A r, q \in rs : r # q => \A c \in Body(r) : c \notin Body(q)
    /\ \A u, v \in us : u # v => \A c \in Body(u) : c \notin Body(v)
    /\ \A e, f \in st.list : e # f => \A c \in Span(e) : c \notin Span(f)
    /\ \A u \in us : \A e \in st.list : \A c \in Body(u) : c \notin Span(e)

\* the store st, the records rs and the spans us that are allotted and not written
Sound(st, rs, us) ==
    /\ StoreType(st)
    /\ \A p \in Pages : PageOk(st, p)
    /\ \A r \in rs : RowOk(st, r)
    /\ \A u \in us : SpanOk(st, u)
    /\ \A e \in st.list : EntryOk(st, e)
    /\ Disjoint(st, rs, us)

\* the entries of page p are all its holes, each of them entire and with its end marked
Closed(st, p) ==
    /\ \A e \in st.list : e.size > 0 /\ e.addr \in Own(p) =>
          MaximalRun(st.hex, p, e) /\ st.hex[e.addr + e.size - 1] = "freeEnd"
    /\ \A c \in Own(p) : ~Allocated(st.hex[c]) => \E e \in st.list : c \in Span(e)

\* so are those of a page where no update ever waits, and it is not empty
Entire(st, p) ==
    st.page[p] \in Key \ Updated => Closed(st, p) /\ \E c \in Own(p) : Allocated(st.hex[c])

\* every page is entire
Whole(st) == \A p \in Pages : Entire(st, p)

\* the spans that wait
Waiting == {pend[s] : s \in {t \in Session : pend[t] # NoUpdate}}

\* whoever waits has an update of its own
Waits ==
    /\ pend \in [Session -> [key : Key \union {NONE}, addr : Nat, size : Nat, old : Nat]]
    /\ \A s \in Session : pend[s] # NoUpdate => pend[s].key \in Updated
    /\ \A s, t \in Session : s # t /\ pend[s] # NoUpdate => pend[s] # pend[t]

\* the inductive invariant
AllocInv == Sound(store, rows, Waiting) /\ Whole(store) /\ Waits

\* each free chunk of page p is of an entry whose end is marked: none of them is the span of
\* an update that waits, or of one that gave up, was refused or did not outlive its process
Tight(st, p) ==
    \A c \in Own(p) : ~Allocated(st.hex[c]) =>
        \E e \in st.list : c \in Span(e) /\ st.hex[e.addr + e.size - 1] = "freeEnd"

\* a row is freed, by its address or by TRUNCATE, only from such a page
FreesTight ==
    /\ \A r \in rows : Release(r) => Tight(store, PageOf(r.addr))
    /\ \A k \in Truncated : Truncate(k) => \A x \in DeadPointers(k) : Tight(store, PageOf(x.addr))

\* the row of an update that is refused is longer than its control chunks, so a walk takes
\* the data it left for a record
RefusesLong == \A s \in Session : UpdateRefused(s) => pend[s].size > CONTROL_COUNT

\* the steps the theorems are about
Orderly == FreesTight /\ RefusesLong

-----------------------------------------------------------------------------
(* Bytes                                                                   *)

\* What is known of the constants: a record of any size fits in a page.
LEMMA Counts ==
    /\ CONTROL_COUNT \in Nat \ {0} /\ PageChunks \in Nat \ {0}
    /\ \A k \in Key : \A n \in Size[k] : n \in Nat \ {0} /\ CONTROL_COUNT + n <= PageChunks - 1
BY AllocatorAssumption

\* What Fill writes, chunk by chunk.
LEMMA FillBytes ==
    ASSUME NEW h \in [Chunk -> Byte], NEW a \in Nat, NEW n \in Nat \ {0},
           NEW inner \in Byte, NEW last \in Byte
    PROVE  /\ Fill(h, a, n, inner, last) \in [Chunk -> Byte]
           /\ \A c \in Chunk : Fill(h, a, n, inner, last)[c] =
                IF c \in a .. a + n - 2 THEN inner ELSE IF c = a + n - 1 THEN last ELSE h[c]
BY DEF Fill

\* full_hexmap marks the data chunks and nothing else.
LEMMA FullBytes ==
    ASSUME NEW h \in [Chunk -> Byte], NEW a \in Nat, NEW n \in Nat \ {0},
           a .. a + CONTROL_COUNT + n - 1 \subseteq Chunk
    PROVE  /\ FullHexmap(h, a, n) \in [Chunk -> Byte]
           /\ \A c \in Chunk : c \notin a + CONTROL_COUNT .. a + CONTROL_COUNT + n - 1 =>
                FullHexmap(h, a, n)[c] = h[c]
           /\ \A c \in a + CONTROL_COUNT .. a + CONTROL_COUNT + n - 2 : FullHexmap(h, a, n)[c] = "data"
           /\ FullHexmap(h, a, n)[a + CONTROL_COUNT + n - 1] = "dataEnd"
<1> DEFINE w2 == Fill(h, a + CONTROL_COUNT, n, "data", "dataEnd")
<1>1. FullHexmap(h, a, n) = w2
  BY DEF FullHexmap
<1>3. /\ w2 \in [Chunk -> Byte]
      /\ \A c \in Chunk : w2[c] = IF c \in a + CONTROL_COUNT .. a + CONTROL_COUNT + n - 2 THEN "data"
                                 ELSE IF c = a + CONTROL_COUNT + n - 1 THEN "dataEnd" ELSE h[c]
  BY Counts, FillBytes DEF Byte
<1> HIDE DEF w2
<1> QED BY <1>1, <1>3, Counts

\* A record that is written has its control chunks, its data chunks and its end.
LEMMA WrittenBytes ==
    ASSUME NEW h \in [Chunk -> Byte], NEW a \in Nat, NEW n \in Nat \ {0},
           a .. a + CONTROL_COUNT + n - 1 \subseteq Chunk
    PROVE  /\ Written(h, a, n) \in [Chunk -> Byte]
           /\ \A c \in Chunk : c \notin a .. a + CONTROL_COUNT + n - 1 => Written(h, a, n)[c] = h[c]
           /\ \A c \in a .. a + CONTROL_COUNT - 1 : Written(h, a, n)[c] \in {"head", "headEnd"}
           /\ \A c \in a + CONTROL_COUNT .. a + CONTROL_COUNT + n - 2 : Written(h, a, n)[c] = "data"
           /\ Written(h, a, n)[a + CONTROL_COUNT + n - 1] = "dataEnd"
<1>0. CONTROL_COUNT \in Nat \ {0} /\ "head" \in Byte /\ "headEnd" \in Byte
  BY Counts DEF Byte
<1>1. PICK w \in [Chunk -> Byte] : w = Fill(h, a, CONTROL_COUNT, "head", "headEnd")
  BY <1>0, FillBytes DEF Byte
<1>2. \A c \in Chunk : Fill(h, a, CONTROL_COUNT, "head", "headEnd")[c] =
            IF c \in a .. a + CONTROL_COUNT - 2 THEN "head"
            ELSE IF c = a + CONTROL_COUNT - 1 THEN "headEnd" ELSE h[c]
  BY DEF Fill
<1>3. Written(h, a, n) = FullHexmap(w, a, n)
  BY <1>1 DEF Written, DumpControl
<1>4. \A c \in Chunk : /\ c \notin a .. a + CONTROL_COUNT - 1 => w[c] = h[c]
                       /\ c \in a .. a + CONTROL_COUNT - 1 => w[c] \in {"head", "headEnd"}
  BY <1>0, <1>1, <1>2, Geometry
<1>5. /\ FullHexmap(w, a, n) \in [Chunk -> Byte]
      /\ \A c \in Chunk : c \notin a + CONTROL_COUNT .. a + CONTROL_COUNT + n - 1 =>
            FullHexmap(w, a, n)[c] = w[c]
      /\ \A c \in a + CONTROL_COUNT .. a + CONTROL_COUNT + n - 2 : FullHexmap(w, a, n)[c] = "data"
      /\ FullHexmap(w, a, n)[a + CONTROL_COUNT + n - 1] = "dataEnd"
  BY FullBytes
<1>6. a .. a + CONTROL_COUNT - 1 \subseteq Chunk
  BY <1>0
<1> QED BY <1>0, <1>3, <1>4, <1>5, <1>6

\* free_hexmap leaves one hole, with its end at the last chunk.
LEMMA FreeBytes ==
    ASSUME NEW h \in [Chunk -> Byte], NEW a \in Nat, NEW n \in Nat \ {0},
           a .. a + n - 1 \subseteq Chunk
    PROVE  /\ FreeHexmap(h, a, n) \in [Chunk -> Byte]
           /\ \A c \in Chunk : c \notin a .. a + n - 1 => FreeHexmap(h, a, n)[c] = h[c]
           /\ \A c \in a .. a + n - 2 : FreeHexmap(h, a, n)[c] = "free"
           /\ FreeHexmap(h, a, n)[a + n - 1] = "freeEnd"
<1> DEFINE w2 == Fill(h, a, n, "free", "freeEnd")
<1>1. FreeHexmap(h, a, n) = w2
  BY DEF FreeHexmap
<1>3. /\ w2 \in [Chunk -> Byte]
      /\ \A c \in Chunk : w2[c] = IF c \in a .. a + n - 2 THEN "free"
                                 ELSE IF c = a + n - 1 THEN "freeEnd" ELSE h[c]
  BY FillBytes DEF Byte
<1> HIDE DEF w2
<1> QED BY <1>1, <1>3

\* A page that is allotted is one hole behind its own control chunk.
LEMMA PageBytes ==
    ASSUME NEW h \in [Chunk -> Byte], NEW p \in Pages, PageChunks > 1
    PROVE  /\ AllocatePage(h, p) \in [Chunk -> Byte]
           /\ \A c \in Chunk : c \notin First(p) - 1 .. Limit(p) - 1 => AllocatePage(h, p)[c] = h[c]
           /\ AllocatePage(h, p)[First(p) - 1] = "dataEnd"
           /\ \A c \in First(p) .. Limit(p) - 2 : AllocatePage(h, p)[c] = "free"
           /\ AllocatePage(h, p)[Limit(p) - 1] = "freeEnd"
<1> DEFINE a == First(p)
           b == a - 1
           n == PageChunks - 1
<1>2. /\ a \in Nat \ {0} /\ b \in Nat /\ n \in Nat \ {0} /\ a = b + 1
      /\ Limit(p) = b + n + 1 /\ First(p) = a /\ b .. b + n \subseteq Chunk
  BY Geometry, Counts
<1>1. AllocatePage(h, p) = FreeHexmap(Fill(h, b, 1, "data", "dataEnd"), a, n)
  BY DEF AllocatePage
<1> HIDE DEF a, b, n
<1>3. PICK w \in [Chunk -> Byte] : w = Fill(h, b, 1, "data", "dataEnd")
  BY <1>2, FillBytes DEF Byte
<1>4. \A c \in Chunk : w[c] = IF c \in b .. b + 1 - 2 THEN "data"
                             ELSE IF c = b + 1 - 1 THEN "dataEnd" ELSE h[c]
  BY <1>2, <1>3, FillBytes DEF Byte
<1>5. b \in Chunk /\ a .. a + n - 1 \subseteq Chunk
  BY <1>2
<1>6. w[b] = "dataEnd" /\ \A c \in Chunk : c # b => w[c] = h[c]
  BY <1>2, <1>4, <1>5, Geometry
<1>7. /\ FreeHexmap(w, a, n) \in [Chunk -> Byte]
      /\ \A c \in Chunk : c \notin a .. a + n - 1 => FreeHexmap(w, a, n)[c] = w[c]
      /\ \A c \in a .. a + n - 2 : FreeHexmap(w, a, n)[c] = "free"
      /\ FreeHexmap(w, a, n)[a + n - 1] = "freeEnd"
  BY <1>2, <1>5, FreeBytes
<1> QED BY <1>1, <1>2, <1>3, <1>5, <1>6, <1>7

-----------------------------------------------------------------------------
(* Writing a span                                                          *)

\* Two chunks of different pages are not next to each other's.
LEMMA OnePage ==
    ASSUME NEW p \in Pages, NEW q \in Pages, NEW c, c \in First(p) - 1 .. Limit(p) - 1,
           c \in First(q) - 1 .. Limit(q) - 1
    PROVE  p = q
BY Geometry

\* A span in a page has its chunks, and the one before it, in the hexmap.
LEMMA InPageChunks ==
    ASSUME NEW st, NEW k, NEW a \in Nat, NEW n \in Nat, InPage(st, k, a, n)
    PROVE  /\ a \in Nat \ {0} /\ a .. a + n - 1 \subseteq Chunk
           /\ n > 0 => a - 1 \in Chunk
BY Geometry DEF InPage

\* A unit whose bytes stay is a unit still.
LEMMA UnitKept ==
    ASSUME NEW h, NEW h2, NEW b \in Nat, NEW d \in Nat, Unit(h, b, d),
           \A c \in b .. d : h2[c] = h[c]
    PROVE  Unit(h2, b, d)
<1>1. CONTROL_COUNT \in Nat \ {0}
  BY Counts
<1> QED BY <1>1 DEF Unit

\* Every chunk of a unit is allocated, and none but the last ends one.
LEMMA UnitBytes ==
    ASSUME NEW h, NEW b \in Nat, NEW d \in Nat, Unit(h, b, d)
    PROVE  /\ b < d /\ \A c \in b .. d : Allocated(h[c])
           /\ \A c \in b .. d - 1 : h[c] \notin {"free", "freeEnd", "dataEnd"}
<1>1. CONTROL_COUNT \in Nat \ {0}
  BY Counts
<1> QED BY <1>1 DEF Unit, Allocated

\* st2 is st with the free chunks from i to j of page p marked
Marks(st, st2, us2, p, i, j) ==
    /\ StoreType(st2) /\ st2.page = st.page /\ st2.list = st.list
    /\ p \in Pages /\ st.page[p] \in Key /\ i \in Nat /\ j \in Nat /\ i <= j
    /\ First(p) <= i /\ j < Limit(p)
    /\ \A c \in i .. j : ~Allocated(st.hex[c]) /\ Allocated(st2.hex[c])
    /\ \A e \in st.list : \A c \in i .. j : c \notin Span(e)
    /\ \A v \in us2 : \A c \in i .. j : c \notin Body(v)
    /\ \A c \in Chunk : c \notin i .. j => st2.hex[c] = st.hex[c]
    /\ st2.hex[j] = "dataEnd"
    /\ Unit(st2.hex, i, j) /\ Boundary(st.hex, i)

\* What a step that marks a span, or the end of one, leaves of the rest.
LEMMA Marked ==
    ASSUME NEW st, NEW rs, NEW us, Sound(st, rs, us), NEW us2 \in SUBSET us,
           NEW st2, NEW p, NEW i, NEW j, Marks(st, st2, us2, p, i, j)
    PROVE  Sound(st2, rs, us2)
<1> USE DEF Marks
<1> DEFINE h == st.hex
           h2 == st2.hex
<1>1. /\ h \in [Chunk -> Byte] /\ h2 \in [Chunk -> Byte] /\ st.page \in [Pages -> Key \union {FREE, NONE}]
      /\ st.list \in SUBSET [key : Key, addr : Nat, size : Nat]
  BY DEF Sound, StoreType
<1>2. CONTROL_COUNT \in Nat \ {0} /\ Chunk \subseteq Nat /\ First(p) \in Nat \ {0} /\ Limit(p) \in Nat
  BY Counts, Geometry
<1>3. ASSUME NEW c \in Nat \ {0}, c - 1 \in Chunk, c \notin i .. j, Boundary(h, c)
      PROVE  Boundary(h2, c)
  <2>1. CASE c - 1 \in i .. j
    <3>1. c - 1 = j
      BY <1>3, <2>1
    <3> QED BY <3>1 DEF Boundary
  <2>2. CASE c - 1 \notin i .. j
    BY <1>3, <2>2 DEF Boundary
  <2> QED BY <2>1, <2>2
<1>4. ASSUME NEW b \in Nat, NEW d \in Nat, b .. d \subseteq Chunk, Unit(h, b, d)
      PROVE  Unit(h2, b, d) /\ b \notin i .. j
  <2>1. b < d /\ \A c \in b .. d : Allocated(h[c])
    BY <1>4, UnitBytes
  <2>2. \A c \in b .. d : c \notin i .. j
    BY <2>1
  <2>3. \A c \in b .. d : h2[c] = h[c]
    BY <1>4, <2>2
  <2>4. b \notin i .. j
    BY <2>1, <2>2
  <2> QED BY <1>4, <2>3, <2>4, UnitKept
<1>5. ASSUME NEW r \in rs PROVE RowOk(st2, r)
  <2>1. RowOk(st, r) /\ InPage(st2, r.key, r.addr, CONTROL_COUNT + r.size)
    BY DEF Sound, RowOk, InPage
  <2>2. /\ r.addr \in Nat \ {0} /\ r.size \in Nat \ {0} /\ r.addr - 1 \in Chunk
        /\ Last(r) \in Nat /\ r.addr .. Last(r) \subseteq Chunk
    BY <1>2, <2>1, InPageChunks DEF RowOk, Last
  <2>3. Unit(h2, r.addr, Last(r)) /\ r.addr \notin i .. j
    BY <1>4, <2>1, <2>2 DEF RowOk
  <2>4. Boundary(h2, r.addr)
    BY <1>3, <2>1, <2>2, <2>3 DEF RowOk
  <2> QED BY <2>1, <2>3, <2>4 DEF RowOk
<1>6. ASSUME NEW u \in us2 PROVE SpanOk(st2, u)
  <2>1. SpanOk(st, u) /\ InPage(st2, u.key, u.addr, CONTROL_COUNT + u.size)
    BY DEF Sound, SpanOk, InPage
  <2>2. /\ u.addr \in Nat \ {0} /\ u.size \in Nat \ {0} /\ u.addr - 1 \in Chunk
        /\ Body(u) \subseteq Chunk /\ u.addr \in Body(u)
    BY <1>2, <2>1, InPageChunks DEF SpanOk, Body
  <2>3. \A c \in Body(u) : c \notin i .. j
    OBVIOUS
  <2>4. \A c \in Body(u) : ~Allocated(h2[c])
    BY <2>1, <2>2, <2>3 DEF SpanOk
  <2>5. Boundary(h2, u.addr)
    BY <1>3, <2>1, <2>2, <2>3 DEF SpanOk
  <2> QED BY <2>1, <2>4, <2>5 DEF SpanOk
<1>7. ASSUME NEW e \in st.list, e.size > 0 PROVE EntryOk(st2, e)
  <2>1. EntryOk(st, e) /\ InPage(st2, e.key, e.addr, e.size) /\ InPage(st, e.key, e.addr, e.size)
    BY <1>7 DEF Sound, EntryOk, InPage
  <2>2. /\ e.addr \in Nat \ {0} /\ e.size \in Nat \ {0} /\ e.addr - 1 \in Chunk
        /\ Span(e) \subseteq Chunk /\ e.addr \in Span(e)
    BY <1>1, <1>7, <2>1, InPageChunks DEF Span
  <2>3. \A c \in Span(e) : c \notin i .. j
    OBVIOUS
  <2>4. \A c \in Span(e) : ~Allocated(h2[c])
    BY <1>7, <2>1, <2>2, <2>3 DEF EntryOk
  <2>5. Boundary(h2, e.addr)
    BY <1>3, <1>7, <2>1, <2>2, <2>3 DEF EntryOk
  <2> QED BY <2>1, <2>4, <2>5 DEF EntryOk
<1>8. ASSUME NEW q \in Pages, st.page[q] \in Key PROVE PageOk(st2, q)
  <2>1. /\ PageOk(st, q) /\ First(q) \in Nat \ {0} /\ Limit(q) \in Nat /\ First(q) - 1 <= Limit(q) - 1
        /\ First(q) - 1 .. Limit(q) - 1 \subseteq Chunk /\ Own(q) \subseteq Chunk
        /\ Limit(q) = First(q) + PageChunks - 1
    BY Geometry, Counts DEF Sound, Own
  <2>2. \A c \in i .. j : c \in First(q) - 1 .. Limit(q) - 1 => p = q /\ c \in Own(q)
    <3> SUFFICES ASSUME NEW c \in i .. j, c \in First(q) - 1 .. Limit(q) - 1
                 PROVE  p = q /\ c \in Own(q)
      OBVIOUS
    <3>1. c \in First(p) - 1 .. Limit(p) - 1 /\ c >= First(p)
      BY <1>2
    <3> QED BY <2>1, <3>1, OnePage DEF Own
  <2>3. h2[First(q) - 1] = "dataEnd"
    <3>1. First(q) - 1 \in Chunk /\ First(q) - 1 \notin Own(q) /\ First(q) - 1 \in First(q) - 1 .. Limit(q) - 1
      BY <2>1 DEF Own
    <3>2. First(q) - 1 \notin i .. j
      BY <2>2, <3>1
    <3> QED BY <1>8, <2>1, <3>1, <3>2 DEF PageOk
  <2>4. ASSUME NEW c \in Own(q), h2[c] = "freeEnd" PROVE c = Limit(q) - 1 \/ Allocated(h2[c + 1])
    <3>1. c \notin i .. j /\ h[c] = "freeEnd"
      BY <2>1, <2>4 DEF Allocated
    <3>2. c = Limit(q) - 1 \/ (Allocated(h[c + 1]) /\ c + 1 \in Chunk)
      BY <1>8, <2>1, <3>1 DEF PageOk, Own
    <3> QED BY <3>2
  <2>5. ASSUME NEW c \in Own(q), Allocated(h2[c])
        PROVE  \E b, d \in Own(q) : b <= c /\ c <= d /\ Boundary(h2, b) /\ Unit(h2, b, d)
    <3>1. CASE c \in i .. j
      <4>1. p = q
        BY <2>1, <2>2, <3>1 DEF Own
      <4>2. i \in Own(q) /\ j \in Own(q) /\ i <= c /\ c <= j
        BY <1>2, <2>1, <3>1, <4>1 DEF Own
      <4>3. Boundary(h2, i)
        <5>1. i - 1 \in Chunk /\ i - 1 \notin i .. j
          BY <2>1, <4>2 DEF Own
        <5> QED BY <2>5, <4>1, <5>1 DEF Boundary
      <4> QED BY <2>5, <4>1, <4>2, <4>3
    <3>2. CASE c \notin i .. j
      <4>1. Allocated(h[c])
        BY <2>1, <2>5, <3>2
      <4>2. PICK b, d \in Own(q) : b <= c /\ c <= d /\ Boundary(h, b) /\ Unit(h, b, d)
        BY <1>8, <2>1, <2>5, <4>1 DEF PageOk
      <4>3. b \in Nat \ {0} /\ d \in Nat /\ b .. d \subseteq Chunk /\ b - 1 \in Chunk
        BY <2>1 DEF Own
      <4>4. Unit(h2, b, d) /\ b \notin i .. j
        BY <1>4, <4>2, <4>3
      <4>5. Boundary(h2, b)
        BY <1>3, <4>2, <4>3, <4>4
      <4> QED BY <4>2, <4>4, <4>5
    <3> QED BY <3>1, <3>2
  <2> QED BY <2>3, <2>4, <2>5 DEF PageOk
<1>9. Disjoint(st2, rs, us2)
  BY DEF Sound, Disjoint
<1> QED BY <1>5, <1>6, <1>7, <1>8, <1>9 DEF Sound, EntryOk, PageOk

\* what is known of a span that is allotted
LEMMA SpanFacts ==
    ASSUME NEW st, NEW rs, NEW us, Sound(st, rs, us), NEW u \in us
    PROVE  /\ u \in [key : Key, addr : Nat \ {0}, size : Nat \ {0}, old : Nat]
           /\ u.addr - 1 \in Chunk /\ u.addr .. u.addr + CONTROL_COUNT + u.size - 1 \subseteq Chunk
           /\ Body(u) = u.addr .. u.addr + CONTROL_COUNT + u.size - 1
           /\ \A c \in Body(u) : ~Allocated(st.hex[c])
           /\ \A e \in st.list : \A c \in Body(u) : c \notin Span(e)
           /\ \A v \in us : v # u => \A c \in Body(u) : c \notin Body(v)
           /\ \E p \in Pages : /\ st.page[p] = u.key /\ First(p) <= u.addr
                               /\ u.addr + CONTROL_COUNT + u.size <= Limit(p)
<1>1. SpanOk(st, u) /\ CONTROL_COUNT \in Nat \ {0} /\ Disjoint(st, rs, us)
  BY Counts DEF Sound
<1>2. /\ u \in [key : Key, addr : Nat, size : Nat \ {0}, old : Nat]
      /\ InPage(st, u.key, u.addr, CONTROL_COUNT + u.size) /\ \A c \in Body(u) : ~Allocated(st.hex[c])
  BY <1>1 DEF SpanOk
<1>3. /\ u.addr \in Nat \ {0} /\ u.addr .. u.addr + (CONTROL_COUNT + u.size) - 1 \subseteq Chunk
      /\ u.addr - 1 \in Chunk
  BY <1>1, <1>2, InPageChunks
<1>4. \E p \in Pages : /\ st.page[p] = u.key /\ First(p) <= u.addr
                       /\ u.addr + (CONTROL_COUNT + u.size) <= Limit(p)
  BY <1>2 DEF InPage
<1>5. u.addr + (CONTROL_COUNT + u.size) = u.addr + CONTROL_COUNT + u.size
  BY <1>1, <1>2
<1>6. u \in [key : Key, addr : Nat \ {0}, size : Nat \ {0}, old : Nat]
  BY <1>2, <1>3
<1> QED BY <1>1, <1>2, <1>3, <1>4, <1>5, <1>6 DEF Disjoint, Body

\* st2 is st with a record written into its span u
Writes(st, st2, u) == st2 = [st EXCEPT !.hex = Written(@, u.addr, u.size)]

\* The record of an insert, or of an update that was granted, written into its span.
LEMMA WriteSound ==
    ASSUME NEW st, NEW rs, NEW us, Sound(st, rs, us), NEW u \in us,
           NEW st2, Writes(st, st2, u)
    PROVE  /\ Sound(st2, rs \union {Row(u.key, u.addr, u.size)}, us \ {u})
           /\ \A c \in Chunk : c \notin Body(u) => st2.hex[c] = st.hex[c]
           /\ \A c \in Body(u) : Allocated(st2.hex[c])
<1> USE DEF Writes
<1> DEFINE h == st.hex
           h2 == Written(h, u.addr, u.size)
           j == u.addr + CONTROL_COUNT + u.size - 1
           r == Row(u.key, u.addr, u.size)
<1>1. /\ u \in [key : Key, addr : Nat \ {0}, size : Nat \ {0}, old : Nat]
      /\ u.addr - 1 \in Chunk /\ u.addr .. j \subseteq Chunk /\ Body(u) = u.addr .. j
      /\ \A c \in Body(u) : ~Allocated(h[c])
      /\ \A e \in st.list : \A c \in Body(u) : c \notin Span(e)
      /\ \A v \in us : v # u => \A c \in Body(u) : c \notin Body(v)
  BY SpanFacts
<1>2. CONTROL_COUNT \in Nat \ {0} /\ Chunk \subseteq Nat
  BY Counts, <1>1 DEF Chunk
<1>3. StoreType(st) /\ h \in [Chunk -> Byte] /\ u.addr \in Nat /\ u.size \in Nat \ {0}
  BY <1>1 DEF Sound, StoreType
<1>4. /\ h2 \in [Chunk -> Byte]
      /\ \A c \in Chunk : c \notin u.addr .. j => h2[c] = h[c]
      /\ \A c \in u.addr .. u.addr + CONTROL_COUNT - 1 : h2[c] \in {"head", "headEnd"}
      /\ \A c \in u.addr + CONTROL_COUNT .. u.addr + CONTROL_COUNT + u.size - 2 : h2[c] = "data"
      /\ h2[j] = "dataEnd"
  BY <1>1, <1>3, WrittenBytes
<1>5. StoreType(st2) /\ st2.page = st.page /\ st2.list = st.list /\ st2.hex = h2
  BY <1>3, <1>4 DEF StoreType
<1> HIDE DEF h2
<1>6. j \in Nat /\ u.addr < j /\ j = u.addr + CONTROL_COUNT + u.size - 1
  BY <1>1, <1>2
<1> HIDE DEF j
<1>7. Unit(h2, u.addr, j)
  <2>1. u.addr + CONTROL_COUNT <= j /\ j - 1 = u.addr + CONTROL_COUNT + u.size - 2
    BY <1>2, <1>3, <1>6
  <2> QED BY <1>4, <2>1 DEF Unit
<1>8. \A c \in u.addr .. j : Allocated(h2[c])
  BY <1>1, <1>6, <1>7, UnitBytes
<1>9. PICK p \in Pages : /\ st.page[p] = u.key /\ First(p) <= u.addr
                         /\ u.addr + CONTROL_COUNT + u.size <= Limit(p)
  BY SpanFacts
<1>10. j < Limit(p)
  BY <1>2, <1>3, <1>6, <1>9, Geometry
<1>11. Boundary(h, u.addr)
  BY DEF Sound, SpanOk
<1>12. Sound(st2, rs, us \ {u})
  <2>1. \A v \in us \ {u} : \A c \in u.addr .. j : c \notin Body(v)
    BY <1>1
  <2>2. \A c \in u.addr .. j : ~Allocated(st.hex[c]) /\ Allocated(st2.hex[c])
    BY <1>1, <1>5, <1>8
  <2>3. \A e \in st.list : \A c \in u.addr .. j : c \notin Span(e)
    BY <1>1
  <2>4. Unit(st2.hex, u.addr, j) /\ Boundary(st.hex, u.addr)
    BY <1>5, <1>7, <1>9, <1>11
  <2>5. /\ st.page[p] \in Key /\ u.addr <= j /\ us \ {u} \in SUBSET us /\ st2.hex[j] = "dataEnd"
        /\ \A c \in Chunk : c \notin u.addr .. j => st2.hex[c] = st.hex[c]
    BY <1>1, <1>4, <1>5, <1>6, <1>9
  <2>6. Marks(st, st2, us \ {u}, p, u.addr, j)
    BY <1>3, <1>5, <1>6, <1>9, <1>10, <2>1, <2>2, <2>3, <2>4, <2>5 DEF Marks
  <2> QED BY <2>5, <2>6, Marked
<1>13. /\ r.key = u.key /\ r.addr = u.addr /\ r.size = u.size /\ Last(r) = j
       /\ r \in [key : Key, addr : Nat, size : Nat \ {0}, dead : BOOLEAN] /\ Body(r) = u.addr .. j
  BY <1>1, <1>6 DEF Row, Last, Body
<1>14. RowOk(st2, r)
  <2>1. u.size \in Size[u.key] /\ InPage(st2, u.key, u.addr, CONTROL_COUNT + u.size)
    BY <1>5 DEF Sound, SpanOk, InPage
  <2>2. Boundary(h2, u.addr)
    BY <1>1, <1>4, <1>6, <1>11 DEF Boundary
  <2> HIDE DEF r
  <2> QED BY <1>5, <1>7, <1>13, <2>1, <2>2 DEF RowOk
<1>15. ASSUME NEW q \in rs PROVE \A c \in Body(q) : c \notin u.addr .. j
  <2>1. RowOk(st, q)
    BY DEF Sound
  <2>2. q.addr \in Nat /\ Last(q) \in Nat /\ Body(q) = q.addr .. Last(q) /\ Unit(h, q.addr, Last(q))
    BY <1>2, <2>1 DEF RowOk, Last, Body
  <2>3. \A c \in Body(q) : Allocated(h[c])
    BY <2>2, UnitBytes
  <2> QED BY <1>1, <2>3
<1>16. Disjoint(st2, rs \union {r}, us \ {u})
  <2>1. Disjoint(st2, rs, us \ {u})
    BY <1>12 DEF Sound
  <2> HIDE DEF r
  <2> QED BY <1>13, <1>15, <2>1 DEF Disjoint
<1> HIDE DEF r
<1>17. Sound(st2, rs \union {r}, us \ {u})
  BY <1>12, <1>14, <1>16 DEF Sound
<1> QED BY <1>1, <1>4, <1>5, <1>8, <1>17 DEF r

\* st2 is st with the data chunks of a refused update marked in its span u
Refuses(st, st2, u) == st2 = [st EXCEPT !.hex = FullHexmap(@, u.addr, u.size)]

\* The data of an update that was refused, written into its span.
LEMMA RefuseSound ==
    ASSUME NEW st, NEW rs, NEW us, Sound(st, rs, us), NEW u \in us, u.size > CONTROL_COUNT,
           NEW st2, Refuses(st, st2, u)
    PROVE  /\ Sound(st2, rs, us \ {u})
           /\ \A c \in Chunk : c \notin Body(u) => st2.hex[c] = st.hex[c]
<1> USE DEF Refuses
<1> DEFINE h == st.hex
           h2 == FullHexmap(h, u.addr, u.size)
           i == u.addr + CONTROL_COUNT
           j == u.addr + CONTROL_COUNT + u.size - 1
<1>1. /\ u \in [key : Key, addr : Nat \ {0}, size : Nat \ {0}, old : Nat]
      /\ u.addr - 1 \in Chunk /\ u.addr .. j \subseteq Chunk /\ Body(u) = u.addr .. j
      /\ \A c \in Body(u) : ~Allocated(h[c])
      /\ \A e \in st.list : \A c \in Body(u) : c \notin Span(e)
      /\ \A v \in us : v # u => \A c \in Body(u) : c \notin Body(v)
  BY SpanFacts
<1>2. CONTROL_COUNT \in Nat \ {0} /\ Chunk \subseteq Nat
  BY Counts, <1>1 DEF Chunk
<1>3. StoreType(st) /\ h \in [Chunk -> Byte] /\ u.addr \in Nat /\ u.size \in Nat \ {0}
  BY <1>1 DEF Sound, StoreType
<1>4. /\ h2 \in [Chunk -> Byte]
      /\ \A c \in Chunk : c \notin i .. j => h2[c] = h[c]
      /\ \A c \in i .. u.addr + CONTROL_COUNT + u.size - 2 : h2[c] = "data"
      /\ h2[j] = "dataEnd"
  BY <1>1, <1>3, FullBytes
<1>5. StoreType(st2) /\ st2.page = st.page /\ st2.list = st.list /\ st2.hex = h2
  BY <1>3, <1>4 DEF StoreType
<1> HIDE DEF h2
<1>6. /\ j \in Nat /\ i \in Nat /\ u.addr < i /\ i <= j /\ i = u.addr + CONTROL_COUNT
      /\ j = i + u.size - 1 /\ j = u.addr + CONTROL_COUNT + u.size - 1
  BY <1>1, <1>2
<1> HIDE DEF i, j
<1>7. \A c \in i .. j : h2[c] \in {"data", "dataEnd"} /\ (c # j => h2[c] = "data")
  BY <1>3, <1>4, <1>6
<1>8. Unit(h2, i, j) /\ Boundary(h, i)
  <2>2. i + CONTROL_COUNT <= j
    BY <1>2, <1>3, <1>6
  <2>3. Unit(h2, i, j)
    BY <1>2, <1>4, <1>6, <1>7, <2>2 DEF Unit
  <2>4. i - 1 \in Body(u) /\ i - 1 \in Chunk
    BY <1>1, <1>2, <1>3, <1>6
  <2>5. h[i - 1] \in {"free", "freeEnd"}
    BY <1>1, <1>3, <2>4 DEF Allocated
  <2> QED BY <2>3, <2>5 DEF Boundary
<1>9. PICK p \in Pages : /\ st.page[p] = u.key /\ First(p) <= u.addr
                         /\ u.addr + CONTROL_COUNT + u.size <= Limit(p)
  BY SpanFacts
<1>10. j < Limit(p) /\ First(p) <= i
  BY <1>2, <1>3, <1>6, <1>9, Geometry
<1>11. i .. j \subseteq Body(u)
  BY <1>1, <1>6
<1>12. Sound(st2, rs, us \ {u})
  <2>1. \A v \in us \ {u} : \A c \in i .. j : c \notin Body(v)
    BY <1>1, <1>11
  <2>2. \A c \in i .. j : ~Allocated(st.hex[c]) /\ Allocated(st2.hex[c])
    BY <1>1, <1>5, <1>7, <1>11 DEF Allocated
  <2>3. \A e \in st.list : \A c \in i .. j : c \notin Span(e)
    BY <1>1, <1>11
  <2>4. Unit(st2.hex, i, j) /\ Boundary(st.hex, i)
    BY <1>5, <1>8, <1>9
  <2>5. /\ st.page[p] \in Key /\ us \ {u} \in SUBSET us /\ st2.hex[j] = "dataEnd"
        /\ \A c \in Chunk : c \notin i .. j => st2.hex[c] = st.hex[c]
    BY <1>1, <1>4, <1>5, <1>9
  <2>6. Marks(st, st2, us \ {u}, p, i, j)
    BY <1>3, <1>5, <1>6, <1>9, <1>10, <2>1, <2>2, <2>3, <2>4, <2>5 DEF Marks
  <2> QED BY <2>5, <2>6, Marked
<1> QED BY <1>4, <1>5, <1>11, <1>12

-----------------------------------------------------------------------------
(* Allotting a span                                                        *)

\* st2 is st but for page p
Differs(st, st2, p) ==
    /\ StoreType(st) /\ StoreType(st2) /\ p \in Pages
    /\ \A q \in Pages : q # p => st2.page[q] = st.page[q]
    /\ \A c \in Chunk : c \notin First(p) - 1 .. Limit(p) - 1 => st2.hex[c] = st.hex[c]

\* What is in another page stays as it is.
LEMMA InAnother ==
    ASSUME NEW st, NEW st2, NEW p, Differs(st, st2, p),
           NEW k, NEW a \in Nat, NEW n \in Nat \ {0}, InPage(st, k, a, n), a \notin Own(p)
    PROVE  InPage(st2, k, a, n) /\ \A c \in a - 1 .. a + n - 1 : st2.hex[c] = st.hex[c]
<1>1. PICK q \in Pages : st.page[q] = k /\ First(q) <= a /\ a + n <= Limit(q)
  BY DEF InPage
<1>2. /\ p \in Pages /\ First(q) \in Nat \ {0} /\ Limit(q) \in Nat
      /\ First(q) - 1 .. Limit(q) - 1 \subseteq Chunk
  BY <1>1, Geometry DEF Differs
<1>3. q # p
  BY <1>1, <1>2 DEF Own
<1>4. a - 1 .. a + n - 1 \subseteq First(q) - 1 .. Limit(q) - 1
  BY <1>1, <1>2
<1>5. \A c \in a - 1 .. a + n - 1 : c \in Chunk /\ c \notin First(p) - 1 .. Limit(p) - 1
  BY <1>2, <1>3, <1>4, OnePage
<1> QED BY <1>1, <1>3, <1>5 DEF InPage, Differs

\* The same for all that Sound says of other pages.
LEMMA Elsewhere ==
    ASSUME NEW st, NEW st2, NEW p, Differs(st, st2, p)
    PROVE  /\ \A q \in Pages : q # p /\ PageOk(st, q) => PageOk(st2, q)
           /\ \A r : RowOk(st, r) /\ r.addr \notin Own(p) => RowOk(st2, r)
           /\ \A u : SpanOk(st, u) /\ u.addr \notin Own(p) => SpanOk(st2, u)
           /\ \A e \in [key : Key, addr : Nat, size : Nat] :
                EntryOk(st, e) /\ (e.size > 0 => e.addr \notin Own(p)) => EntryOk(st2, e)
<1>0. CONTROL_COUNT \in Nat \ {0} /\ PageChunks \in Nat \ {0}
  BY Counts
<1>1. ASSUME NEW q \in Pages, q # p, PageOk(st, q) PROVE PageOk(st2, q)
  <2>1. /\ p \in Pages /\ First(q) \in Nat \ {0} /\ Limit(q) \in Nat /\ Limit(q) = First(q) + PageChunks - 1
        /\ First(q) - 1 .. Limit(q) - 1 \subseteq Chunk
    BY Geometry DEF Differs
  <2>2. \A c \in First(q) - 1 .. Limit(q) - 1 : st2.hex[c] = st.hex[c]
    BY <1>1, <2>1, OnePage DEF Differs
  <2>3. st2.page[q] = st.page[q]
    BY <1>1 DEF Differs
  <2>4. First(q) - 1 \in First(q) - 1 .. Limit(q) - 1 /\ Own(q) \subseteq First(q) - 1 .. Limit(q) - 1
    BY <1>0, <2>1 DEF Own
  <2>5. \A c \in Own(q) : st2.hex[c] = st.hex[c] /\ st2.hex[c - 1] = st.hex[c - 1]
                          /\ (c # Limit(q) - 1 => st2.hex[c + 1] = st.hex[c + 1])
    BY <2>1, <2>2 DEF Own
  <2>6. ASSUME NEW b \in Own(q), NEW d \in Own(q), Unit(st.hex, b, d) PROVE Unit(st2.hex, b, d)
    <3>1. b \in Nat /\ d \in Nat /\ \A c \in b .. d : st2.hex[c] = st.hex[c]
      BY <2>1, <2>5 DEF Own
    <3> QED BY <2>6, <3>1, UnitKept
  <2>7. \A b \in Own(q) : Boundary(st.hex, b) => Boundary(st2.hex, b)
    BY <2>5 DEF Boundary
  <2>8. st2.page[q] \in Key => st2.hex[First(q) - 1] = "dataEnd"
    BY <1>1, <2>2, <2>3, <2>4 DEF PageOk
  <2>9. ASSUME st2.page[q] \in Key, NEW c \in Own(q), st2.hex[c] = "freeEnd"
        PROVE  c = Limit(q) - 1 \/ Allocated(st2.hex[c + 1])
    BY <1>1, <2>3, <2>5, <2>9 DEF PageOk
  <2>10. ASSUME st2.page[q] \in Key, NEW c \in Own(q), Allocated(st2.hex[c])
         PROVE  \E b, d \in Own(q) : b <= c /\ c <= d /\ Boundary(st2.hex, b) /\ Unit(st2.hex, b, d)
    <3>1. PICK b, d \in Own(q) : b <= c /\ c <= d /\ Boundary(st.hex, b) /\ Unit(st.hex, b, d)
      BY <1>1, <2>3, <2>5, <2>10 DEF PageOk
    <3> QED BY <2>6, <2>7, <3>1
  <2> QED BY <2>8, <2>9, <2>10 DEF PageOk
<1>2. ASSUME NEW r, RowOk(st, r), r.addr \notin Own(p) PROVE RowOk(st2, r)
  <2>1. /\ r.addr \in Nat /\ CONTROL_COUNT + r.size \in Nat \ {0} /\ Last(r) \in Nat
        /\ Last(r) = r.addr + (CONTROL_COUNT + r.size) - 1
        /\ InPage(st, r.key, r.addr, CONTROL_COUNT + r.size)
    BY <1>0, <1>2 DEF RowOk, Last
  <2>2. InPage(st2, r.key, r.addr, CONTROL_COUNT + r.size)
        /\ \A c \in r.addr - 1 .. Last(r) : st2.hex[c] = st.hex[c]
    BY <1>2, <2>1, InAnother
  <2>3. \A c \in r.addr .. Last(r) : st2.hex[c] = st.hex[c]
    BY <2>1, <2>2
  <2>4. Unit(st2.hex, r.addr, Last(r))
    BY <1>2, <2>1, <2>3, UnitKept DEF RowOk
  <2>5. r.addr - 1 \in r.addr - 1 .. Last(r)
    BY <1>0, <2>1
  <2> QED BY <1>2, <2>2, <2>4, <2>5 DEF RowOk, Boundary
<1>3. ASSUME NEW u, SpanOk(st, u), u.addr \notin Own(p) PROVE SpanOk(st2, u)
  <2>1. /\ u.addr \in Nat /\ CONTROL_COUNT + u.size \in Nat \ {0}
        /\ InPage(st, u.key, u.addr, CONTROL_COUNT + u.size)
        /\ \A c \in Body(u) : c \in u.addr .. u.addr + (CONTROL_COUNT + u.size) - 1
    BY <1>0, <1>3 DEF SpanOk, Body
  <2>2. InPage(st2, u.key, u.addr, CONTROL_COUNT + u.size)
        /\ \A c \in u.addr - 1 .. u.addr + (CONTROL_COUNT + u.size) - 1 : st2.hex[c] = st.hex[c]
    BY <1>3, <2>1, InAnother
  <2>3. \A c \in Body(u) : st2.hex[c] = st.hex[c]
    BY <2>1, <2>2
  <2>4. st2.hex[u.addr - 1] = st.hex[u.addr - 1]
    BY <2>1, <2>2
  <2> QED BY <1>3, <2>2, <2>3, <2>4 DEF SpanOk, Boundary
<1>4. ASSUME NEW e \in [key : Key, addr : Nat, size : Nat], EntryOk(st, e), e.size > 0, e.addr \notin Own(p)
      PROVE EntryOk(st2, e)
  <2>1. /\ e.addr \in Nat /\ e.size \in Nat \ {0} /\ InPage(st, e.key, e.addr, e.size)
        /\ Span(e) = e.addr .. e.addr + e.size - 1
    BY <1>4 DEF EntryOk, Span
  <2>2. InPage(st2, e.key, e.addr, e.size)
        /\ \A c \in e.addr - 1 .. e.addr + e.size - 1 : st2.hex[c] = st.hex[c]
    BY <1>4, <2>1, InAnother
  <2>3. \A c \in Span(e) : st2.hex[c] = st.hex[c]
    BY <2>1, <2>2
  <2>4. st2.hex[e.addr - 1] = st.hex[e.addr - 1]
    BY <2>1, <2>2
  <2> QED BY <1>4, <2>2, <2>3, <2>4 DEF EntryOk, Boundary
<1> QED BY <1>1, <1>2, <1>3, <1>4 DEF EntryOk

\* the span of n data chunks at a that is allotted for a record of k
Lot(k, a, n, o) == [key |-> k, addr |-> a, size |-> n, old |-> o]

\* A span taken from the front of an entry that fits.
LEMMA TakeSound ==
    ASSUME NEW st, NEW rs, NEW us, Sound(st, rs, us), NEW e \in st.list, NEW n \in Size[e.key],
           CONTROL_COUNT + n <= e.size, NEW o \in Nat,
           NEW st2, st2 = [st EXCEPT !.list = (@ \ {e}) \union Leftover(e, n)]
    PROVE  /\ Lot(e.key, e.addr, n, o) \notin us
           /\ Sound(st2, rs, us \union {Lot(e.key, e.addr, n, o)})
<1> DEFINE u == Lot(e.key, e.addr, n, o)
           f == Entry(e.key, e.addr + CONTROL_COUNT + n, e.size - CONTROL_COUNT - n)
<1>1. /\ StoreType(st) /\ EntryOk(st, e) /\ e \in [key : Key, addr : Nat, size : Nat]
      /\ CONTROL_COUNT \in Nat \ {0} /\ n \in Nat \ {0} /\ Disjoint(st, rs, us)
  BY Counts DEF Sound, StoreType
<1>2. /\ e.size > 0 /\ InPage(st, e.key, e.addr, e.size)
      /\ \A c \in e.addr .. e.addr + e.size - 1 : ~Allocated(st.hex[c])
      /\ Boundary(st.hex, e.addr)
  BY <1>1 DEF EntryOk, Span
<1>3. e.addr \in Nat \ {0} /\ e.addr .. e.addr + e.size - 1 \subseteq Chunk
  BY <1>1, <1>2, InPageChunks
<1>4. /\ st2.hex = st.hex /\ st2.page = st.page
      /\ st2.list = (st.list \ {e}) \union Leftover(e, n)
  BY <1>1 DEF StoreType
<1>5. Leftover(e, n) \subseteq {f} /\ f.key = e.key /\ f.addr = e.addr + CONTROL_COUNT + n
      /\ f.size = e.size - CONTROL_COUNT - n /\ f \in [key : Key, addr : Nat, size : Nat]
  BY <1>1 DEF Leftover, Entry
<1>6. u.key = e.key /\ u.addr = e.addr /\ u.size = n /\ u \in [key : Key, addr : Nat, size : Nat \ {0}, old : Nat]
  BY <1>1 DEF Lot
<1>7. /\ Span(e) = e.addr .. e.addr + e.size - 1
      /\ Body(u) = e.addr .. e.addr + CONTROL_COUNT + n - 1
      /\ Span(f) = e.addr + CONTROL_COUNT + n .. e.addr + e.size - 1
  <2>1. Span(e) = e.addr .. e.addr + e.size - 1 /\ Span(f) = f.addr .. f.addr + f.size - 1
    BY DEF Span
  <2>2. Body(u) = e.addr .. e.addr + CONTROL_COUNT + n - 1
    BY <1>6 DEF Body
  <2>3. f.addr + f.size - 1 = e.addr + e.size - 1
    BY <1>1, <1>5
  <2> QED BY <1>5, <2>1, <2>2, <2>3
<1> HIDE DEF u, f
<1>8. /\ Body(u) \subseteq Span(e) /\ Span(f) \subseteq Span(e)
      /\ \A c \in Body(u) : c \notin Span(f)
      /\ e.addr \in Body(u) /\ e.addr \in Span(e)
  BY <1>1, <1>2, <1>7
<1>9. StoreType(st2)
  BY <1>1, <1>4, <1>5 DEF StoreType
<1>10. \A q \in Pages : PageOk(st2, q)
  BY <1>4 DEF Sound, PageOk
<1>11. \A r \in rs : RowOk(st2, r)
  BY <1>4 DEF Sound, RowOk, InPage
<1>12. \A v \in us : SpanOk(st2, v)
  BY <1>4 DEF Sound, SpanOk, InPage
<1>13. SpanOk(st2, u)
  <2>1. \A c \in Body(u) : ~Allocated(st2.hex[c])
    BY <1>2, <1>4, <1>7, <1>8
  <2>2. InPage(st2, u.key, u.addr, CONTROL_COUNT + u.size)
    <3>1. PICK p \in Pages : st.page[p] = e.key /\ First(p) <= e.addr /\ e.addr + e.size <= Limit(p)
      BY <1>2 DEF InPage
    <3>2. Limit(p) \in Nat
      BY Geometry
    <3> QED BY <1>1, <1>4, <1>6, <3>1, <3>2 DEF InPage
  <2> QED BY <1>2, <1>4, <1>6, <2>1, <2>2 DEF SpanOk
<1>14. EntryOk(st2, f)
  <2> SUFFICES ASSUME f.size > 0 PROVE EntryOk(st2, f)
    BY DEF EntryOk
  <2>1. \A c \in Span(f) : ~Allocated(st2.hex[c])
    BY <1>2, <1>4, <1>7, <1>8
  <2>2. InPage(st2, f.key, f.addr, f.size)
    <3>1. PICK p \in Pages : st.page[p] = e.key /\ First(p) <= e.addr /\ e.addr + e.size <= Limit(p)
      BY <1>2 DEF InPage
    <3>2. Limit(p) \in Nat /\ First(p) \in Nat
      BY Geometry
    <3> QED BY <1>1, <1>4, <1>5, <3>1, <3>2 DEF InPage
  <2>3. Boundary(st2.hex, f.addr)
    <3>1. f.addr - 1 \in e.addr .. e.addr + e.size - 1 /\ f.addr - 1 \in Chunk
      BY <1>1, <1>2, <1>3, <1>5
    <3>2. ~Allocated(st.hex[f.addr - 1])
      BY <1>2, <3>1
    <3> QED BY <1>4, <3>2 DEF Boundary, Allocated
  <2> QED BY <2>1, <2>2, <2>3 DEF EntryOk
<1>15. \A g \in st2.list : EntryOk(st2, g)
  <2>1. \A g \in st.list : EntryOk(st2, g)
    BY <1>4 DEF Sound, EntryOk, InPage
  <2> QED BY <1>4, <1>5, <1>14, <2>1
<1>16. \A v \in us : \A c \in Body(v) : c \notin Span(e)
  BY <1>1 DEF Disjoint
<1>17. u \notin us
  BY <1>8, <1>16
<1>18. \A g \in st.list \ {e} : \A c \in Span(g) : c \notin Span(e)
  BY <1>1 DEF Disjoint
<1>19. Disjoint(st2, rs, us \union {u})
  <2>1. \A v, w \in us \union {u} : v # w => \A c \in Body(v) : c \notin Body(w)
    BY <1>1, <1>8, <1>16 DEF Disjoint
  <2>2. \A g, i \in st2.list : g # i => \A c \in Span(g) : c \notin Span(i)
    BY <1>1, <1>4, <1>5, <1>8, <1>18 DEF Disjoint
  <2>3. \A v \in us \union {u} : \A g \in st2.list : \A c \in Body(v) : c \notin Span(g)
    BY <1>1, <1>4, <1>5, <1>8, <1>16, <1>18 DEF Disjoint
  <2> QED BY <1>1, <2>1, <2>2, <2>3 DEF Disjoint
<1>20. Sound(st2, rs, us \union {u})
  BY <1>9, <1>10, <1>11, <1>12, <1>13, <1>15, <1>19 DEF Sound
<1> QED BY <1>17, <1>20 DEF u

\* A holder's chunks are in a page of its key.
LEMMA Keyed ==
    ASSUME NEW st, NEW rs, NEW us, Sound(st, rs, us), NEW p \in Pages, st.page[p] \notin Key
    PROVE  /\ \A r \in rs : r.addr \notin Own(p) /\ \A c \in Body(r) : c \notin Own(p)
           /\ \A u \in us : u.addr \notin Own(p) /\ \A c \in Body(u) : c \notin Own(p)
           /\ \A e \in st.list : e.size > 0 => e.addr \notin Own(p)
           /\ \A e \in st.list : \A c \in Span(e) : c \notin Own(p)
<1>1. ASSUME NEW k \in Key, NEW a \in Nat, NEW n \in Nat \ {0}, InPage(st, k, a, n)
      PROVE  a \notin Own(p) /\ \A c \in a .. a + n - 1 : c \notin Own(p)
  <2>1. PICK q \in Pages : st.page[q] = k /\ First(q) <= a /\ a + n <= Limit(q)
    BY <1>1 DEF InPage
  <2>2. q # p
    BY <1>1, <2>1
  <2>3. First(q) \in Nat \ {0} /\ Limit(q) \in Nat /\ First(p) \in Nat \ {0} /\ Limit(p) \in Nat
    BY Geometry
  <2>4. \A c \in a .. a + n - 1 : c \in First(q) - 1 .. Limit(q) - 1
    BY <2>1, <2>3
  <2>5. \A c \in a .. a + n - 1 : c \notin Own(p)
    BY <2>2, <2>3, <2>4, OnePage DEF Own
  <2> QED BY <1>1, <2>5
<1>2. CONTROL_COUNT \in Nat \ {0} /\ StoreType(st)
  BY Counts DEF Sound
<1>3. ASSUME NEW r \in rs PROVE r.addr \notin Own(p) /\ \A c \in Body(r) : c \notin Own(p)
  <2>1. RowOk(st, r)
    BY DEF Sound
  <2>2. /\ r.key \in Key /\ r.addr \in Nat /\ CONTROL_COUNT + r.size \in Nat \ {0}
        /\ InPage(st, r.key, r.addr, CONTROL_COUNT + r.size)
        /\ Body(r) = r.addr .. r.addr + (CONTROL_COUNT + r.size) - 1
    BY <1>2, <2>1 DEF RowOk, Body
  <2> QED BY <1>1, <2>2
<1>4. ASSUME NEW r \in us PROVE r.addr \notin Own(p) /\ \A c \in Body(r) : c \notin Own(p)
  <2>1. SpanOk(st, r)
    BY DEF Sound
  <2>2. /\ r.key \in Key /\ r.addr \in Nat /\ CONTROL_COUNT + r.size \in Nat \ {0}
        /\ InPage(st, r.key, r.addr, CONTROL_COUNT + r.size)
        /\ Body(r) = r.addr .. r.addr + (CONTROL_COUNT + r.size) - 1
    BY <1>2, <2>1 DEF SpanOk, Body
  <2> QED BY <1>1, <2>2
<1>5. ASSUME NEW e \in st.list, e.size > 0 PROVE e.addr \notin Own(p) /\ \A c \in Span(e) : c \notin Own(p)
  <2>1. EntryOk(st, e) /\ e \in [key : Key, addr : Nat, size : Nat]
    BY <1>2 DEF Sound, StoreType
  <2>2. /\ e.key \in Key /\ e.addr \in Nat /\ e.size \in Nat \ {0} /\ InPage(st, e.key, e.addr, e.size)
        /\ Span(e) = e.addr .. e.addr + e.size - 1
    BY <1>5, <2>1 DEF EntryOk, Span
  <2> QED BY <1>1, <2>2
<1>6. ASSUME NEW e \in st.list, e.size = 0 PROVE \A c \in Span(e) : c \notin Own(p)
  BY <1>2, <1>6 DEF StoreType, Span
<1>7. \A e \in st.list : e.size > 0 \/ e.size = 0
  BY <1>2 DEF StoreType
<1> QED BY <1>3, <1>4, <1>5, <1>6, <1>7

\* A span at the front of a page that is made for it.
LEMMA NewPageSound ==
    ASSUME NEW st, NEW rs, NEW us, Sound(st, rs, us), NEW p \in Pages, st.page[p] \notin Key,
           NEW k \in Key, NEW n \in Size[k], NEW o \in Nat,
           NEW st2, st2 = NewPage(st, k, p, n)
    PROVE  /\ Lot(k, First(p), n, o) \notin us
           /\ Sound(st2, rs, us \union {Lot(k, First(p), n, o)})
           /\ Differs(st, st2, p)
<1> DEFINE u == Lot(k, First(p), n, o)
           f == Entry(k, First(p) + CONTROL_COUNT + n, PageChunks - 1 - CONTROL_COUNT - n)
           h2 == AllocatePage(st.hex, p)
<1>1. /\ StoreType(st) /\ Disjoint(st, rs, us) /\ PageChunks \in Nat \ {0}
      /\ CONTROL_COUNT \in Nat \ {0} /\ n \in Nat \ {0} /\ CONTROL_COUNT + n <= PageChunks - 1
  BY Counts DEF Sound
<1>2. /\ First(p) \in Nat \ {0} /\ Limit(p) \in Nat /\ Limit(p) = First(p) + PageChunks - 1
      /\ First(p) - 1 .. Limit(p) - 1 \subseteq Chunk
  BY Geometry
<1>3. /\ h2 \in [Chunk -> Byte]
      /\ \A c \in Chunk : c \notin First(p) - 1 .. Limit(p) - 1 => h2[c] = st.hex[c]
      /\ h2[First(p) - 1] = "dataEnd"
      /\ \A c \in First(p) .. Limit(p) - 2 : h2[c] = "free"
      /\ h2[Limit(p) - 1] = "freeEnd"
  <2>1. st.hex \in [Chunk -> Byte] /\ PageChunks > 1
    BY <1>1 DEF StoreType
  <2> QED BY <2>1, PageBytes
<1>4. /\ st2.hex = h2 /\ st2.page = [st.page EXCEPT ![p] = k] /\ st2.list = st.list \union {f}
  BY DEF NewPage
<1> HIDE DEF h2
<1>5. /\ f.key = k /\ f.addr = First(p) + CONTROL_COUNT + n /\ f \in [key : Key, addr : Nat, size : Nat]
      /\ f.size = PageChunks - 1 - CONTROL_COUNT - n
  BY <1>1, <1>2 DEF Entry
<1>6. u.key = k /\ u.addr = First(p) /\ u.size = n /\ u \in [key : Key, addr : Nat, size : Nat \ {0}, old : Nat]
  BY <1>1, <1>2 DEF Lot
<1>7. /\ Body(u) = First(p) .. First(p) + CONTROL_COUNT + n - 1
      /\ Span(f) = First(p) + CONTROL_COUNT + n .. Limit(p) - 1
  BY <1>1, <1>2, <1>5, <1>6 DEF Span, Body
<1> HIDE DEF u, f
<1>8. /\ Body(u) \subseteq Own(p) /\ Span(f) \subseteq Own(p) /\ First(p) \in Body(u)
      /\ \A c \in Body(u) : c \notin Span(f)
  BY <1>1, <1>2, <1>7 DEF Own
<1>9. \A c \in Own(p) : ~Allocated(h2[c]) /\ (h2[c] = "freeEnd" => c = Limit(p) - 1)
  <2>1. \A c \in Own(p) : c \in First(p) .. Limit(p) - 2 \/ c = Limit(p) - 1
    BY <1>2 DEF Own
  <2> QED BY <1>3, <2>1 DEF Allocated
<1>10. StoreType(st2)
  <2>1. st2.page \in [Pages -> Key \union {FREE, NONE}]
    BY <1>1, <1>4 DEF StoreType
  <2>2. st2.list \in SUBSET [key : Key, addr : Nat, size : Nat]
    BY <1>1, <1>4, <1>5 DEF StoreType
  <2>3. st2 = [hex |-> st2.hex, page |-> st2.page, list |-> st2.list]
    BY DEF NewPage
  <2> QED BY <1>3, <1>4, <2>1, <2>2, <2>3 DEF StoreType
<1>11. Differs(st, st2, p)
  BY <1>1, <1>3, <1>4, <1>10 DEF Differs, StoreType
<1>12. st2.page[p] = k
  BY <1>1, <1>4 DEF StoreType
<1>13. PageOk(st2, p)
  BY <1>3, <1>4, <1>9 DEF PageOk
<1>14. SpanOk(st2, u)
  <2>1. InPage(st2, u.key, u.addr, CONTROL_COUNT + u.size)
    BY <1>1, <1>2, <1>6, <1>12 DEF InPage
  <2>2. \A c \in Body(u) : ~Allocated(st2.hex[c])
    BY <1>4, <1>8, <1>9
  <2> QED BY <1>3, <1>4, <1>6, <2>1, <2>2 DEF SpanOk, Boundary
<1>15. EntryOk(st2, f)
  <2> SUFFICES ASSUME f.size > 0 PROVE EntryOk(st2, f)
    BY DEF EntryOk
  <2>1. InPage(st2, f.key, f.addr, f.size)
    BY <1>1, <1>2, <1>5, <1>12 DEF InPage
  <2>2. \A c \in Span(f) : ~Allocated(st2.hex[c])
    BY <1>4, <1>8, <1>9
  <2>3. f.addr - 1 \in First(p) .. Limit(p) - 2
    BY <1>1, <1>2, <1>5
  <2> QED BY <1>3, <1>4, <2>1, <2>2, <2>3 DEF EntryOk, Boundary
<1>16. /\ \A r \in rs : r.addr \notin Own(p) /\ \A c \in Body(r) : c \notin Own(p)
       /\ \A v \in us : v.addr \notin Own(p) /\ \A c \in Body(v) : c \notin Own(p)
       /\ \A e \in st.list : e.size > 0 => e.addr \notin Own(p)
       /\ \A e \in st.list : \A c \in Span(e) : c \notin Own(p)
  BY Keyed
<1>17. /\ \A q \in Pages : PageOk(st2, q)
       /\ \A r \in rs : RowOk(st2, r)
       /\ \A v \in us : SpanOk(st2, v)
       /\ \A e \in st.list : EntryOk(st2, e)
  BY <1>1, <1>11, <1>13, <1>16, Elsewhere DEF Sound, StoreType
<1>18. u \notin us
  BY <1>8, <1>16
<1>19. Disjoint(st2, rs, us \union {u})
  <2>1. \A v, w \in us \union {u} : v # w => \A c \in Body(v) : c \notin Body(w)
    BY <1>1, <1>8, <1>16 DEF Disjoint
  <2>2. \A g, i \in st2.list : g # i => \A c \in Span(g) : c \notin Span(i)
    BY <1>1, <1>4, <1>8, <1>16 DEF Disjoint
  <2>3. \A v \in us \union {u} : \A g \in st2.list : \A c \in Body(v) : c \notin Span(g)
    BY <1>1, <1>4, <1>8, <1>16 DEF Disjoint
  <2> QED BY <1>1, <2>1, <2>2, <2>3 DEF Disjoint
<1>20. Sound(st2, rs, us \union {u})
  BY <1>4, <1>10, <1>14, <1>15, <1>17, <1>19 DEF Sound
<1> QED BY <1>11, <1>18, <1>20 DEF u

-----------------------------------------------------------------------------
(* Holes that are entire                                                   *)

\* the entries that are not in page p are the same in both stores
SameEntries(st, st2, p) ==
    \A e : e.size > 0 /\ e.addr \notin Own(p) => (e \in st.list <=> e \in st2.list)

\* What is entire in another page stays so.
LEMMA ClosedElsewhere ==
    ASSUME NEW st, NEW rs, NEW us, Sound(st, rs, us), NEW st2, NEW p, Differs(st, st2, p),
           SameEntries(st, st2, p),
           NEW q \in Pages, q # p
    PROVE  /\ Closed(st, q) => Closed(st2, q)
           /\ Entire(st, q) => Entire(st2, q)
           /\ st2.page[q] = st.page[q]
<1>1. /\ p \in Pages /\ First(q) \in Nat \ {0} /\ Limit(q) \in Nat
      /\ First(q) - 1 .. Limit(q) - 1 \subseteq Chunk /\ StoreType(st) /\ StoreType(st2)
  BY Geometry DEF Differs
<1>2. \A c \in First(q) - 1 .. Limit(q) - 1 : st2.hex[c] = st.hex[c]
  BY <1>1, OnePage DEF Differs
<1>3. st2.page[q] = st.page[q]
  BY DEF Differs
<1>4. \A c \in Own(q) : c \notin Own(p)
  BY <1>1, Geometry, OnePage DEF Own
<1>5. ASSUME Closed(st, q), NEW e \in st2.list, e.size > 0, e.addr \in Own(q)
      PROVE  MaximalRun(st2.hex, q, e) /\ st2.hex[e.addr + e.size - 1] = "freeEnd"
  <2>1. e \in st.list
    BY <1>4, <1>5 DEF SameEntries
  <2>2. MaximalRun(st.hex, q, e) /\ st.hex[e.addr + e.size - 1] = "freeEnd"
    BY <1>5, <2>1 DEF Closed
  <2>3. /\ e.addr \in Nat /\ e.size \in Nat \ {0} /\ e.addr + e.size <= Limit(q) /\ First(q) <= e.addr
    BY <1>1, <1>5, <2>1, <2>2 DEF StoreType, MaximalRun, Own
  <2>4. \A c \in e.addr - 1 .. e.addr + e.size - 1 : st2.hex[c] = st.hex[c]
    BY <1>1, <1>2, <2>3
  <2>5. e.addr + e.size # Limit(q) => st2.hex[e.addr + e.size] = st.hex[e.addr + e.size]
    BY <1>1, <1>2, <2>3
  <2>6. Span(e) = e.addr .. e.addr + e.size - 1
    BY DEF Span
  <2> QED BY <2>2, <2>3, <2>4, <2>5, <2>6 DEF MaximalRun
<1>6. ASSUME Closed(st, q), NEW c \in Own(q), ~Allocated(st2.hex[c]) PROVE \E e \in st2.list : c \in Span(e)
  <2>1. ~Allocated(st.hex[c])
    BY <1>1, <1>2, <1>6 DEF Own
  <2>2. PICK e \in st.list : c \in Span(e)
    BY <1>6, <2>1 DEF Closed
  <2>3. e \in [key : Key, addr : Nat, size : Nat] /\ e.size > 0
    BY <1>1, <2>2 DEF StoreType, Span
  <2>4. e.addr \notin Own(p)
    <3>1. PICK g \in Pages : First(g) <= e.addr /\ e.addr + e.size <= Limit(g)
      BY <2>3 DEF Sound, EntryOk, InPage
    <3>2. First(g) \in Nat \ {0} /\ Limit(g) \in Nat /\ First(p) \in Nat \ {0} /\ Limit(p) \in Nat
      BY <1>1, Geometry
    <3>3. c \in First(g) - 1 .. Limit(g) - 1 /\ e.addr \in First(g) - 1 .. Limit(g) - 1
      BY <2>2, <2>3, <3>1, <3>2 DEF Span
    <3>4. g = q
      BY <1>1, <3>3, OnePage DEF Own
    <3> QED BY <1>1, <3>2, <3>3, <3>4, OnePage DEF Own
  <2>5. e \in st2.list
    BY <2>3, <2>4 DEF SameEntries
  <2> QED BY <2>2, <2>5
<1>7. ASSUME NEW c \in Own(q), Allocated(st.hex[c]) PROVE Allocated(st2.hex[c])
  BY <1>1, <1>2, <1>7 DEF Own
<1>8. Closed(st, q) => Closed(st2, q)
  BY <1>5, <1>6 DEF Closed
<1> QED BY <1>3, <1>7, <1>8 DEF Entire

\* st2 is st with a record of n data chunks written to the front of the entry e
TakesFront(st, st2, e, n) ==
    /\ StoreType(st2) /\ st2.page = st.page
    /\ st2.list = (st.list \ {e}) \union Leftover(e, n)
    /\ \A c \in Chunk : c \notin e.addr .. e.addr + CONTROL_COUNT + n - 1 => st2.hex[c] = st.hex[c]
    /\ \A c \in e.addr .. e.addr + CONTROL_COUNT + n - 1 : Allocated(st2.hex[c])

\* It leaves the rest of the hole, entire.
LEMMA TakeEntire ==
    ASSUME NEW st, NEW rs, NEW us, Sound(st, rs, us), NEW e \in st.list, NEW n \in Size[e.key],
           CONTROL_COUNT + n <= e.size, NEW p \in Pages, e.addr \in Own(p), Entire(st, p),
           NEW st2, TakesFront(st, st2, e, n)
    PROVE  Entire(st2, p)
<1> USE DEF TakesFront
<1> DEFINE f == Entry(e.key, e.addr + CONTROL_COUNT + n, e.size - CONTROL_COUNT - n)
           B == e.addr .. e.addr + CONTROL_COUNT + n - 1
<1> SUFFICES ASSUME st.page[p] \in Key \ Updated PROVE Entire(st2, p)
  BY DEF Entire
<1>1. /\ StoreType(st) /\ e \in [key : Key, addr : Nat, size : Nat] /\ Disjoint(st, rs, us)
      /\ CONTROL_COUNT \in Nat \ {0} /\ n \in Nat \ {0} /\ e.size > 0
  BY Counts DEF Sound, StoreType
<1>2. /\ First(p) \in Nat \ {0} /\ Limit(p) \in Nat /\ First(p) - 1 .. Limit(p) - 1 \subseteq Chunk
  BY Geometry
<1>0. Closed(st, p)
  BY DEF Entire
<1>3. MaximalRun(st.hex, p, e) /\ st.hex[e.addr + e.size - 1] = "freeEnd"
  BY <1>0, <1>1 DEF Closed
<1>4. /\ e.addr + e.size <= Limit(p) /\ First(p) <= e.addr /\ Span(e) = e.addr .. e.addr + e.size - 1
      /\ \A c \in Span(e) : ~Allocated(st.hex[c])
  BY <1>2, <1>3 DEF MaximalRun, Own, Span
<1>5. /\ f.key = e.key /\ f.addr = e.addr + CONTROL_COUNT + n /\ f.size = e.size - CONTROL_COUNT - n
      /\ f \in [key : Key, addr : Nat, size : Nat] /\ Span(f) = f.addr .. e.addr + e.size - 1
      /\ f.size # 0 => Leftover(e, n) = {f}
      /\ Leftover(e, n) \subseteq {f}
  BY <1>1 DEF Leftover, Entry, Span
<1> HIDE DEF f
<1>13. /\ e.addr \in Nat /\ e.size \in Nat /\ f.addr \in Nat /\ f.size \in Nat
       /\ CONTROL_COUNT \in Nat /\ n \in Nat /\ n > 0 /\ CONTROL_COUNT > 0
  BY <1>1, <1>5
<1>14. Span(e) \subseteq Chunk
  <2>1. \A c \in Span(e) : c \in First(p) - 1 .. Limit(p) - 1
    BY <1>2, <1>4, <1>13
  <2> QED BY <1>2, <2>1
<1>15. B \subseteq Span(e) /\ e.addr \in B
  BY <1>4, <1>13
<1>16. \A c \in Span(e) : c \in B \/ c \in Span(f)
  BY <1>4, <1>5, <1>13
<1>17. \A c \in Span(f) : c \in Span(e) /\ c \notin B
  BY <1>4, <1>5, <1>13
<1>6. /\ B \subseteq Span(e) /\ e.addr \in B /\ Span(e) \subseteq Chunk /\ B \subseteq Chunk
      /\ \A c \in Span(e) : c \in B \/ c \in Span(f)
      /\ \A c \in Span(f) : c \in Span(e) /\ c \notin B
  BY <1>14, <1>15, <1>16, <1>17
<1> HIDE DEF B
<1>7. \A c \in Chunk : c \notin B => st2.hex[c] = st.hex[c]
  BY DEF B
<1>8. \A c \in B : Allocated(st2.hex[c])
  BY DEF B
<1>9. \A c \in Chunk : Allocated(st.hex[c]) => Allocated(st2.hex[c])
  BY <1>7, <1>8
<1>10. ASSUME NEW g \in st2.list, g.size > 0, g.addr \in Own(p)
       PROVE  MaximalRun(st2.hex, p, g) /\ st2.hex[g.addr + g.size - 1] = "freeEnd"
  <2>1. CASE g \in st.list \ {e}
    <3>1. MaximalRun(st.hex, p, g) /\ st.hex[g.addr + g.size - 1] = "freeEnd"
      BY <1>0, <1>10, <2>1 DEF Closed
    <3>2. /\ g.addr \in Nat /\ g.size \in Nat \ {0} /\ Span(g) = g.addr .. g.addr + g.size - 1
          /\ g.addr + g.size <= Limit(p) /\ First(p) <= g.addr
      BY <1>1, <1>2, <1>10, <2>1, <3>1 DEF StoreType, MaximalRun, Span, Own
    <3>10. g.addr + g.size - 1 \in Span(g) /\ Span(g) \subseteq Chunk
      BY <1>2, <3>2
    <3>11. /\ g.addr - 1 \in First(p) - 1 .. Limit(p) - 1
           /\ g.addr + g.size # Limit(p) => g.addr + g.size \in First(p) - 1 .. Limit(p) - 1
      BY <1>2, <3>2
    <3>3. Span(g) \subseteq Chunk /\ g.addr - 1 \in Chunk /\ (g.addr + g.size # Limit(p) => g.addr + g.size \in Chunk)
          /\ g.addr + g.size - 1 \in Span(g)
      BY <1>2, <3>10, <3>11
    <3>4. \A c \in Span(g) : st2.hex[c] = st.hex[c]
      BY <1>1, <1>6, <1>7, <2>1, <3>3 DEF Disjoint
    <3>5. /\ \A c \in Span(g) : ~Allocated(st.hex[c])
          /\ Allocated(st.hex[g.addr - 1])
          /\ g.addr + g.size = Limit(p) \/ Allocated(st.hex[g.addr + g.size])
      BY <3>1 DEF MaximalRun
    <3>6. \A c \in Span(g) : ~Allocated(st2.hex[c])
      BY <3>4, <3>5
    <3>7. Allocated(st2.hex[g.addr - 1])
      BY <1>9, <3>3, <3>5
    <3>8. g.addr + g.size = Limit(p) \/ Allocated(st2.hex[g.addr + g.size])
      BY <1>9, <3>3, <3>5
    <3>9. st2.hex[g.addr + g.size - 1] = "freeEnd"
      BY <3>1, <3>3, <3>4
    <3> QED BY <3>2, <3>6, <3>7, <3>8, <3>9 DEF MaximalRun
  <2>2. CASE g = f
    <3>1. /\ g.addr + g.size = e.addr + e.size /\ g.addr + g.size - 1 = e.addr + e.size - 1
          /\ g.addr + g.size - 1 \in Span(f) /\ g.addr - 1 \in B
      <4>1. f.size > 0
        BY <1>10, <2>2
      <4>4. f.addr = e.addr + CONTROL_COUNT + n /\ f.size = e.size - CONTROL_COUNT - n
        BY <1>5
      <4>5. f.addr + f.size = e.addr + e.size /\ f.addr + f.size - 1 = e.addr + e.size - 1
        BY <1>13, <4>4
      <4>2. f.addr + f.size - 1 \in Span(f)
        BY <1>13, <4>1 DEF Span
      <4>3. f.addr - 1 \in B
        <5>1. f.addr - 1 = e.addr + CONTROL_COUNT + n - 1
          BY <1>13, <4>4
        <5>2. e.addr + CONTROL_COUNT + n - 1 \in e.addr .. e.addr + CONTROL_COUNT + n - 1
          BY <1>13
        <5> QED BY <5>1, <5>2 DEF B
      <4> QED BY <2>2, <4>2, <4>3, <4>5
    <3>2. \A c \in Span(f) : st2.hex[c] = st.hex[c] /\ ~Allocated(st2.hex[c])
      BY <1>4, <1>6, <1>7
    <3>3. g.addr + g.size = Limit(p) \/ Allocated(st2.hex[g.addr + g.size])
      <4>2. e.addr + e.size # Limit(p) => e.addr + e.size \in First(p) - 1 .. Limit(p) - 1
        <5>1. e.addr + e.size <= Limit(p) /\ First(p) <= e.addr
          BY <1>4
        <5>2. e.addr \in Nat /\ e.size \in Nat /\ First(p) \in Nat /\ Limit(p) \in Nat
          BY <1>2, <1>13
        <5> QED BY <5>1, <5>2
      <4>1. e.addr + e.size = Limit(p) \/ (Allocated(st.hex[e.addr + e.size]) /\ e.addr + e.size \in Chunk)
        BY <1>2, <1>3, <4>2 DEF MaximalRun
      <4> QED BY <1>9, <3>1, <4>1
    <3>4. g.addr + g.size <= Limit(p) /\ Allocated(st2.hex[g.addr - 1])
      BY <1>4, <1>8, <3>1
    <3>5. st2.hex[g.addr + g.size - 1] = "freeEnd"
      <4>1. st2.hex[g.addr + g.size - 1] = st.hex[g.addr + g.size - 1]
        BY <3>1, <3>2
      <4> QED BY <1>3, <3>1, <4>1
    <3> QED BY <2>2, <3>2, <3>3, <3>4, <3>5 DEF MaximalRun
  <2> QED BY <1>5, <2>1, <2>2
<1>11. ASSUME NEW c \in Own(p), ~Allocated(st2.hex[c]) PROVE \E g \in st2.list : c \in Span(g)
  <2>1. c \in Chunk /\ c \notin B
    BY <1>2, <1>8, <1>11 DEF Own
  <2>2. PICK g \in st.list : c \in Span(g)
    BY <1>0, <1>7, <1>11, <2>1 DEF Closed
  <2>3. CASE g = e
    <3>1. c \in Span(f)
      BY <1>6, <2>1, <2>2, <2>3
    <3>2. f.size # 0
      BY <1>1, <1>5, <3>1
    <3> QED BY <1>5, <3>1, <3>2
  <2> QED BY <2>2, <2>3
<1>12. \E c \in Own(p) : Allocated(st2.hex[c])
  BY <1>6, <1>8
<1>18. Closed(st2, p)
  BY <1>10, <1>11 DEF Closed
<1> QED BY <1>12, <1>18 DEF Entire

-----------------------------------------------------------------------------
(* Inserting, and allotting to an update                                   *)

LEMMA MinIsLeast ==
    ASSUME NEW S, S \subseteq Nat, S # {}
    PROVE  Min(S) \in S /\ \A y \in S : Min(S) <= y
<1> DEFINE R == OpToRel(<, Nat)
<1>1. \A x, y \in Nat : <<x, y>> \in R <=> x < y
  BY DEF OpToRel
<1>2. IsWellFoundedOn(R, Nat)
  BY NatLessThanWellFounded
<1> HIDE DEF R
<1>3. PICK x \in S : \A y \in S : ~(<<y, x>> \in R)
  BY <1>2, WFMin
<1>4. ASSUME NEW y \in S PROVE x <= y
  <2>1. ~(y < x)
    BY <1>1, <1>3
  <2> QED BY <2>1
<1> QED BY <1>4 DEF Min

\* The maximum of a set of numbers that has a bound.
LEMMA MaxIsGreatest ==
    ASSUME NEW S, NEW b \in Nat, S \subseteq 0 .. b, S # {}
    PROVE  Max(S) \in S /\ \A y \in S : y <= Max(S)
<1> DEFINE T == {n \in Nat : b - n \in S}
<1>1. T # {}
  <2>1. PICK y \in S : TRUE
    OBVIOUS
  <2>2. b - y \in Nat /\ b - (b - y) = y
    BY <2>1
  <2> QED BY <2>1, <2>2
<1>2. PICK n \in T : \A m \in T : n <= m
  BY <1>1, MinIsLeast
<1>3. \A y \in S : b - y \in T
  <2>1. \A y \in S : b - y \in Nat /\ b - (b - y) = y
    OBVIOUS
  <2> QED BY <2>1
<1>4. b - n \in S /\ \A y \in S : y <= b - n
  BY <1>2, <1>3
<1>5. \A y \in S : b - n >= y
  BY <1>4
<1>6. \E x \in S : \A y \in S : x >= y
  BY <1>4, <1>5
<1>7. Max(S) \in S /\ \A y \in S : Max(S) >= y
  BY <1>6 DEF Max
<1> QED BY <1>7

\* x is a span of k from an entry of the list
FromList(st, k, n, x) ==
    \E e \in st.list : /\ e.key = k /\ CONTROL_COUNT + n <= e.size /\ x.at = e.addr
                       /\ x.st = [st EXCEPT !.list = (@ \ {e}) \union Leftover(e, n)]

\* x is a span of k from a page that has no key
FromPage(st, k, n, x) ==
    \E p \in Pages : st.page[p] \notin Key /\ x.at = First(p) /\ x.st = NewPage(st, k, p, n)

\* allocate takes an entry that fits, or a page.
LEMMA AllocateCases ==
    ASSUME NEW st, NEW k \in Key, NEW n, NEW x \in Allocate(st, k, n), MaxPages \in Nat
    PROVE  FromList(st, k, n, x) \/ FromPage(st, k, n, x)
<1>1. CASE Fits(st, k, n) # {}
  <2>1. PICK e \in Fits(st, k, n) :
            x = [at |-> e.addr, st |-> [st EXCEPT !.list = (@ \ {e}) \union Leftover(e, n)]]
    BY <1>1 DEF Allocate
  <2>2. e \in st.list /\ e.key = k /\ CONTROL_COUNT + n <= e.size
    BY DEF Fits
  <2>3. x.at = e.addr /\ x.st = [st EXCEPT !.list = (@ \ {e}) \union Leftover(e, n)]
    BY <2>1
  <2> QED BY <2>2, <2>3 DEF FromList
<1>2. CASE Fits(st, k, n) = {}
  <2>1. PICK p \in NewPages(st) : x.at = First(p) /\ x.st = NewPage(st, k, p, n)
    BY <1>2 DEF Allocate
  <2> DEFINE past == {q \in Pages : st.page[q] = NONE}
  <2>2. past # {} => Min(past) \in past
    <3>1. past \subseteq Nat
      BY DEF Pages
    <3> QED BY <3>1, MinIsLeast
  <2>3. p \in Pages /\ (st.page[p] = FREE \/ st.page[p] = NONE)
    BY <2>2 DEF NewPages
  <2>4. st.page[p] \notin Key
    BY <2>3, AllocatorAssumption
  <2> QED BY <2>1, <2>3, <2>4 DEF FromPage
<1> QED BY <1>1, <1>2

\* An insert finds its span, and leaves the store sound and its holes entire.
LEMMA InsertKeeps ==
    ASSUME NEW st, NEW rs, NEW us, Sound(st, rs, us), Whole(st),
           NEW k \in Key, NEW n \in Size[k], NEW x \in Allocate(st, k, n),
           NEW st2, st2 = [x.st EXCEPT !.hex = Written(@, x.at, n)]
    PROVE  Sound(st2, rs \union {Row(k, x.at, n)}, us) /\ Whole(st2)
<1> DEFINE u == Lot(k, x.at, n, 0)
<1>0. MaxPages \in Nat /\ 0 \in Nat
  BY AllocatorAssumption
<1>1. u.key = k /\ u.addr = x.at /\ u.size = n
  BY DEF Lot
<1> HIDE DEF u
<1>2. ASSUME u \notin us, Sound(x.st, rs, us \union {u})
      PROVE  /\ Sound(st2, rs \union {Row(k, x.at, n)}, us)
             /\ \A c \in Chunk : c \notin Body(u) => st2.hex[c] = x.st.hex[c]
             /\ \A c \in Body(u) : Allocated(st2.hex[c])
             /\ StoreType(st2) /\ st2.page = x.st.page /\ st2.list = x.st.list
  <2>1. st2 = [x.st EXCEPT !.hex = Written(@, u.addr, u.size)] /\ Writes(x.st, st2, u)
    BY <1>1 DEF Writes
  <2> DEFINE V == us \union {u}
  <2>2. V \ {u} = us /\ u \in V /\ Sound(x.st, rs, V)
    BY <1>2
  <2> HIDE DEF V
  <2>3. /\ Sound(st2, rs \union {Row(u.key, u.addr, u.size)}, V \ {u})
        /\ \A c \in Chunk : c \notin Body(u) => st2.hex[c] = x.st.hex[c]
        /\ \A c \in Body(u) : Allocated(st2.hex[c])
    BY <2>1, <2>2, WriteSound
  <2>4. Sound(st2, rs \union {Row(k, x.at, n)}, us)
    BY <1>1, <2>2, <2>3
  <2>5. StoreType(x.st)
    BY <1>2 DEF Sound
  <2>6. st2.page = x.st.page /\ st2.list = x.st.list
    BY <2>1, <2>5 DEF StoreType
  <2> QED BY <2>3, <2>4, <2>6 DEF Sound
<1>3. ASSUME NEW e \in st.list, e.key = k, CONTROL_COUNT + n <= e.size, x.at = e.addr,
             x.st = [st EXCEPT !.list = (@ \ {e}) \union Leftover(e, n)]
      PROVE  Sound(st2, rs \union {Row(k, x.at, n)}, us) /\ Whole(st2)
  <2>1. u \notin us /\ Sound(x.st, rs, us \union {u})
    BY <1>0, <1>3, TakeSound DEF u
  <2>2. /\ StoreType(st) /\ x.st.page = st.page /\ x.st.hex = st.hex
        /\ x.st.list = (st.list \ {e}) \union Leftover(e, n)
        /\ e \in [key : Key, addr : Nat, size : Nat] /\ n \in Nat \ {0} /\ CONTROL_COUNT \in Nat \ {0}
    BY <1>3, Counts DEF Sound, StoreType
  <2>3. /\ Sound(st2, rs \union {Row(k, x.at, n)}, us)
        /\ \A c \in Chunk : c \notin Body(u) => st2.hex[c] = st.hex[c]
        /\ \A c \in Body(u) : Allocated(st2.hex[c])
        /\ StoreType(st2) /\ st2.page = st.page /\ st2.list = (st.list \ {e}) \union Leftover(e, n)
    BY <1>2, <2>1, <2>2
  <2>4. Body(u) = e.addr .. e.addr + CONTROL_COUNT + n - 1
    BY <1>1, <1>3 DEF Body
  <2>5. PICK p \in Pages : First(p) <= e.addr /\ e.addr + e.size <= Limit(p)
    <3>1. e.size > 0 /\ EntryOk(st, e)
      BY <1>3, <2>2 DEF Sound
    <3> QED BY <3>1 DEF EntryOk, InPage
  <2>6. /\ e.addr \in Own(p) /\ Body(u) \subseteq First(p) - 1 .. Limit(p) - 1
        /\ e.addr + CONTROL_COUNT + n \in First(p) .. Limit(p)
    BY <1>3, <2>2, <2>4, <2>5, Geometry DEF Own
  <2>7. Entire(st2, p)
    <3>1. TakesFront(st, st2, e, n)
      BY <2>3, <2>4 DEF TakesFront
    <3>2. Entire(st, p)
      BY DEF Whole
    <3> QED BY <1>3, <2>6, <3>1, <3>2, TakeEntire
  <2>8. Differs(st, st2, p)
    BY <2>2, <2>3, <2>6 DEF Differs
  <2>9. SameEntries(st, st2, p)
    <3> DEFINE f == Entry(e.key, e.addr + CONTROL_COUNT + n, e.size - CONTROL_COUNT - n)
    <3>1. f.addr = e.addr + CONTROL_COUNT + n /\ f.size = e.size - CONTROL_COUNT - n
      BY DEF Entry
    <3>2. Leftover(e, n) \subseteq {f}
      BY DEF Leftover
    <3> HIDE DEF f
    <3>3. f.size > 0 => f.addr \in Own(p)
      BY <2>2, <2>5, <2>6, <3>1, Geometry DEF Own
    <3> QED BY <2>3, <2>6, <3>2, <3>3 DEF SameEntries
  <2>10. ASSUME NEW q \in Pages PROVE Entire(st2, q)
    BY <2>7, <2>8, <2>9, ClosedElsewhere DEF Whole
  <2> QED BY <2>3, <2>10 DEF Whole
<1>4. ASSUME NEW p \in Pages, st.page[p] \notin Key, x.at = First(p), x.st = NewPage(st, k, p, n)
      PROVE  Sound(st2, rs \union {Row(k, x.at, n)}, us) /\ Whole(st2)
  <2> DEFINE f == Entry(k, First(p) + CONTROL_COUNT + n, PageChunks - 1 - CONTROL_COUNT - n)
  <2>1. u \notin us /\ Sound(x.st, rs, us \union {u}) /\ Differs(st, x.st, p)
    BY <1>0, <1>4, NewPageSound DEF u
  <2>2. /\ First(p) \in Nat \ {0} /\ Limit(p) = First(p) + PageChunks - 1 /\ PageChunks \in Nat \ {0}
        /\ First(p) - 1 .. Limit(p) - 1 \subseteq Chunk
        /\ n \in Nat \ {0} /\ CONTROL_COUNT \in Nat \ {0} /\ CONTROL_COUNT + n <= PageChunks - 1
    BY Geometry, Counts
  <2>3. /\ Sound(st2, rs \union {Row(k, x.at, n)}, us)
        /\ \A c \in Chunk : c \notin Body(u) => st2.hex[c] = x.st.hex[c]
        /\ \A c \in Body(u) : Allocated(st2.hex[c])
        /\ StoreType(st2) /\ st2.page = x.st.page /\ st2.list = x.st.list
    BY <1>2, <2>1
  <2>4. Body(u) = First(p) .. First(p) + CONTROL_COUNT + n - 1
    BY <1>1, <1>4 DEF Body
  <2>5. Body(u) \subseteq First(p) - 1 .. Limit(p) - 1 /\ First(p) \in Body(u)
    BY <2>2, <2>4
  <2>6. Differs(st, st2, p)
    BY <2>1, <2>3, <2>5 DEF Differs
  <2>7. x.st.list = st.list \union {f} /\ x.st.hex = AllocatePage(st.hex, p)
    BY <1>4 DEF NewPage
  <2>8. /\ f.addr = First(p) + CONTROL_COUNT + n /\ f.size = PageChunks - 1 - CONTROL_COUNT - n
        /\ Span(f) = f.addr .. Limit(p) - 1 /\ f.addr + f.size = Limit(p) /\ f.size \in Nat
        /\ f.addr + f.size - 1 = Limit(p) - 1
    BY <2>2 DEF Entry, Span
  <2> HIDE DEF f
  <2>9. \A e \in st.list : e.size > 0 => e.addr \notin Own(p)
    BY <1>4, Keyed
  <2>10. SameEntries(st, st2, p)
    <3>1. f.size > 0 => f.addr \in Own(p)
      <4>1. f.addr = First(p) + CONTROL_COUNT + n /\ f.addr + f.size = Limit(p) /\ f.size \in Nat
        BY <2>8
      <4>2. First(p) \in Nat /\ CONTROL_COUNT \in Nat /\ n \in Nat
        BY <2>2
      <4> QED BY <4>1, <4>2 DEF Own
    <3> QED BY <2>3, <2>7, <3>1 DEF SameEntries
  <2>11. /\ \A c \in First(p) .. Limit(p) - 2 : x.st.hex[c] = "free"
         /\ x.st.hex[Limit(p) - 1] = "freeEnd"
    <3>1. st.hex \in [Chunk -> Byte] /\ PageChunks > 1
      BY <2>2 DEF Sound, StoreType
    <3> QED BY <2>7, <3>1, PageBytes
  <2>12. Entire(st2, p)
    <3>1. \A c \in Span(f) : c \in Chunk /\ c \notin Body(u) /\ c \in First(p) .. Limit(p) - 1
      <4> SUFFICES ASSUME NEW c \in Span(f)
                   PROVE  c \in Chunk /\ c \notin Body(u) /\ c \in First(p) .. Limit(p) - 1
        OBVIOUS
      <4>1. c \in First(p) + CONTROL_COUNT + n .. Limit(p) - 1
        BY <2>8
      <4>2. c \in First(p) - 1 .. Limit(p) - 1 /\ c \in First(p) .. Limit(p) - 1
        BY <2>2, <4>1
      <4>3. c \notin Body(u)
        BY <2>2, <2>4, <4>1
      <4> QED BY <2>2, <4>2, <4>3
    <3>2. \A c \in Span(f) : ~Allocated(st2.hex[c])
      <4>1. \A c \in First(p) .. Limit(p) - 1 : c \in First(p) .. Limit(p) - 2 \/ c = Limit(p) - 1
        BY <2>2
      <4> QED BY <2>3, <2>11, <3>1, <4>1 DEF Allocated
    <3>3. ASSUME NEW e \in st2.list, e.size > 0, e.addr \in Own(p)
          PROVE  MaximalRun(st2.hex, p, e) /\ st2.hex[e.addr + e.size - 1] = "freeEnd"
      <4>1. e = f
        BY <2>3, <2>7, <2>9, <3>3
      <4>2. f.addr - 1 \in Body(u)
        <5>1. f.addr - 1 = First(p) + CONTROL_COUNT + n - 1
          <6>1. f.addr = First(p) + CONTROL_COUNT + n
            BY <2>8
          <6>2. First(p) \in Nat /\ CONTROL_COUNT \in Nat /\ n \in Nat
            BY <2>2
          <6> QED BY <6>1, <6>2
        <5>2. First(p) \in Nat /\ CONTROL_COUNT \in Nat \ {0} /\ n \in Nat \ {0}
          BY <2>2
        <5>3. First(p) + CONTROL_COUNT + n - 1 \in First(p) .. First(p) + CONTROL_COUNT + n - 1
          BY <5>2
        <5> QED BY <2>4, <5>1, <5>3
      <4>3. Limit(p) - 1 \in Span(f)
        <5>1. f.size > 0 /\ f.addr \in Nat /\ Limit(p) \in Nat
          <6>1. f.size > 0
            BY <3>3, <4>1
          <6>2. First(p) \in Nat /\ Limit(p) \in Nat /\ CONTROL_COUNT \in Nat /\ n \in Nat
            BY <2>2
          <6>3. f.addr = First(p) + CONTROL_COUNT + n
            BY <2>8
          <6> QED BY <6>1, <6>2, <6>3
        <5>2. f.addr <= Limit(p) - 1
          BY <2>8, <5>1
        <5> QED BY <2>8, <5>1, <5>2
      <4>4. st2.hex[Limit(p) - 1] = "freeEnd"
        BY <2>3, <2>11, <3>1, <4>3
      <4>5. f.addr + f.size <= Limit(p)
        BY <2>2, <2>8
      <4> QED BY <2>3, <2>8, <3>2, <4>1, <4>2, <4>4, <4>5 DEF MaximalRun
    <3>4. ASSUME NEW c \in Own(p), ~Allocated(st2.hex[c]) PROVE \E e \in st2.list : c \in Span(e)
      <4>1. c \notin Body(u)
        BY <2>3, <3>4
      <4>2. c \in Span(f)
        BY <2>2, <2>4, <2>8, <4>1 DEF Own
      <4> QED BY <2>3, <2>7, <4>2
    <3>5. First(p) \in Own(p) /\ Allocated(st2.hex[First(p)])
      BY <2>2, <2>3, <2>5 DEF Own
    <3>6. Closed(st2, p)
      BY <3>3, <3>4 DEF Closed
    <3> QED BY <3>5, <3>6 DEF Entire
  <2>13. ASSUME NEW q \in Pages PROVE Entire(st2, q)
    BY <2>6, <2>10, <2>12, ClosedElsewhere DEF Whole
  <2> QED BY <2>3, <2>13 DEF Whole
<1>5. CASE FromList(st, k, n, x)
  BY <1>3, <1>5 DEF FromList
<1>6. CASE FromPage(st, k, n, x)
  BY <1>4, <1>6 DEF FromPage
<1> QED BY <1>0, <1>5, <1>6, AllocateCases

\* So does the allotting of a span to an update, whose pages may have other holes.
LEMMA AllotKeeps ==
    ASSUME NEW st, NEW rs, NEW us, Sound(st, rs, us), Whole(st),
           NEW k \in Key, k \in Updated, NEW n \in Size[k], NEW o \in Nat, NEW x \in Allocate(st, k, n)
    PROVE  /\ Lot(k, x.at, n, o) \notin us
           /\ Sound(x.st, rs, us \union {Lot(k, x.at, n, o)}) /\ Whole(x.st)
<1>0. MaxPages \in Nat /\ CONTROL_COUNT \in Nat \ {0} /\ n \in Nat \ {0} /\ StoreType(st)
  BY AllocatorAssumption, Counts DEF Sound
<1>1. ASSUME NEW p \in Pages, Sound(x.st, rs, us \union {Lot(k, x.at, n, o)}), Differs(st, x.st, p),
             SameEntries(st, x.st, p), x.st.page[p] = k
      PROVE  Whole(x.st)
  <2>1. Entire(x.st, p)
    BY <1>1 DEF Entire
  <2> QED BY <1>1, <2>1, ClosedElsewhere DEF Whole
<1>2. ASSUME NEW e \in st.list, e.key = k, CONTROL_COUNT + n <= e.size, x.at = e.addr,
             x.st = [st EXCEPT !.list = (@ \ {e}) \union Leftover(e, n)]
      PROVE  /\ Lot(k, x.at, n, o) \notin us
             /\ Sound(x.st, rs, us \union {Lot(k, x.at, n, o)}) /\ Whole(x.st)
  <2>1. Lot(k, x.at, n, o) \notin us /\ Sound(x.st, rs, us \union {Lot(k, x.at, n, o)})
    BY <1>2, TakeSound
  <2>2. /\ x.st.page = st.page /\ x.st.hex = st.hex
        /\ x.st.list = (st.list \ {e}) \union Leftover(e, n)
        /\ e \in [key : Key, addr : Nat, size : Nat] /\ e.size > 0 /\ EntryOk(st, e)
    BY <1>0, <1>2 DEF Sound, StoreType
  <2>3. PICK p \in Pages : st.page[p] = k /\ First(p) <= e.addr /\ e.addr + e.size <= Limit(p)
    BY <1>2, <2>2 DEF EntryOk, InPage
  <2>4. Differs(st, x.st, p)
    BY <1>0, <2>1, <2>2 DEF Differs, Sound
  <2>5. SameEntries(st, x.st, p)
    <3> DEFINE f == Entry(e.key, e.addr + CONTROL_COUNT + n, e.size - CONTROL_COUNT - n)
    <3>1. f.addr = e.addr + CONTROL_COUNT + n /\ f.size = e.size - CONTROL_COUNT - n
      BY DEF Entry
    <3>2. Leftover(e, n) \subseteq {f}
      BY DEF Leftover
    <3> HIDE DEF f
    <3>3. f.size > 0 => f.addr \in Own(p)
      BY <1>0, <2>2, <2>3, <3>1, Geometry DEF Own
    <3>4. e.addr \in Own(p)
      BY <2>2, <2>3, Geometry DEF Own
    <3> QED BY <2>2, <3>2, <3>3, <3>4 DEF SameEntries
  <2> QED BY <1>1, <2>1, <2>2, <2>3, <2>4, <2>5
<1>3. ASSUME NEW p \in Pages, st.page[p] \notin Key, x.at = First(p), x.st = NewPage(st, k, p, n)
      PROVE  /\ Lot(k, x.at, n, o) \notin us
             /\ Sound(x.st, rs, us \union {Lot(k, x.at, n, o)}) /\ Whole(x.st)
  <2> DEFINE f == Entry(k, First(p) + CONTROL_COUNT + n, PageChunks - 1 - CONTROL_COUNT - n)
  <2>1. /\ Lot(k, x.at, n, o) \notin us /\ Sound(x.st, rs, us \union {Lot(k, x.at, n, o)})
        /\ Differs(st, x.st, p)
    BY <1>3, NewPageSound
  <2>2. x.st.list = st.list \union {f} /\ x.st.page[p] = k
    BY <1>0, <1>3 DEF NewPage, StoreType
  <2>3. f.addr = First(p) + CONTROL_COUNT + n /\ f.size = PageChunks - 1 - CONTROL_COUNT - n
    BY DEF Entry
  <2> HIDE DEF f
  <2>4. f.size > 0 => f.addr \in Own(p)
    BY <1>0, <2>3, Geometry, Counts DEF Own
  <2>5. SameEntries(st, x.st, p)
    BY <2>2, <2>4 DEF SameEntries
  <2> QED BY <1>1, <2>1, <2>2, <2>5
<1>5. CASE FromList(st, k, n, x)
  BY <1>2, <1>5 DEF FromList
<1>6. CASE FromPage(st, k, n, x)
  BY <1>3, <1>6 DEF FromPage
<1> QED BY <1>0, <1>5, <1>6, AllocateCases

-----------------------------------------------------------------------------
(* Freeing a record                                                        *)

\* what is known of a record
LEMMA RowFacts ==
    ASSUME NEW st, NEW rs, NEW us, Sound(st, rs, us), NEW r \in rs
    PROVE  /\ r \in [key : Key, addr : Nat \ {0}, size : Nat \ {0}, dead : BOOLEAN]
           /\ r.addr - 1 \in Chunk /\ Body(r) \subseteq Chunk
           /\ Last(r) \in Nat /\ Last(r) = r.addr + CONTROL_COUNT + r.size - 1
           /\ Body(r) = r.addr .. Last(r) /\ r.addr < Last(r)
           /\ Unit(st.hex, r.addr, Last(r))
           /\ \A c \in Body(r) : Allocated(st.hex[c])
           /\ \E p \in Pages : st.page[p] = r.key /\ First(p) <= r.addr /\ Last(r) < Limit(p)
<1>1. RowOk(st, r) /\ CONTROL_COUNT \in Nat \ {0}
  BY Counts DEF Sound
<1>2. /\ r \in [key : Key, addr : Nat, size : Nat \ {0}, dead : BOOLEAN]
      /\ InPage(st, r.key, r.addr, CONTROL_COUNT + r.size) /\ Unit(st.hex, r.addr, Last(r))
  BY <1>1 DEF RowOk
<1>3. /\ Last(r) \in Nat /\ Last(r) = r.addr + CONTROL_COUNT + r.size - 1
      /\ Last(r) = r.addr + (CONTROL_COUNT + r.size) - 1
      /\ Body(r) = r.addr .. Last(r)
  BY <1>1, <1>2 DEF Last, Body
<1>4. /\ r.addr \in Nat \ {0} /\ r.addr .. Last(r) \subseteq Chunk /\ r.addr - 1 \in Chunk
  BY <1>1, <1>2, <1>3, InPageChunks
<1>5. r.addr < Last(r) /\ \A c \in Body(r) : Allocated(st.hex[c])
  BY <1>2, <1>3, UnitBytes
<1>6. PICK p \in Pages : st.page[p] = r.key /\ First(p) <= r.addr /\ r.addr + (CONTROL_COUNT + r.size) <= Limit(p)
  BY <1>2 DEF InPage
<1>7. Last(r) < Limit(p)
  BY <1>1, <1>2, <1>3, <1>6, Geometry
<1> QED BY <1>2, <1>3, <1>4, <1>5, <1>6, <1>7

\* The page of a record is the one its chunks are in.
LEMMA RowPage ==
    ASSUME NEW st, NEW rs, NEW us, Sound(st, rs, us), NEW r \in rs,
           NEW p \in Pages, First(p) <= r.addr, Last(r) < Limit(p)
    PROVE  PageOf(r.addr) = p
<1>1. r.addr \in Nat /\ Last(r) \in Nat /\ r.addr < Last(r)
  BY RowFacts
<1>2. /\ First(p) \in Nat \ {0} /\ Limit(p) \in Nat
      /\ \A c \in First(p) - 1 .. Limit(p) - 1 : PageOf(c) = p
  BY Geometry
<1> QED BY <1>1, <1>2

\* what is known of an entry that is not empty
LEMMA EntryFacts ==
    ASSUME NEW st, NEW rs, NEW us, Sound(st, rs, us), NEW e \in st.list, e.size > 0
    PROVE  /\ e \in [key : Key, addr : Nat \ {0}, size : Nat \ {0}]
           /\ e.addr - 1 \in Chunk /\ Span(e) \subseteq Chunk
           /\ Span(e) = e.addr .. e.addr + e.size - 1 /\ e.addr \in Span(e)
           /\ \A c \in Span(e) : ~Allocated(st.hex[c])
           /\ \E p \in Pages : st.page[p] = e.key /\ First(p) <= e.addr /\ e.addr + e.size <= Limit(p)
<1>1. EntryOk(st, e) /\ e \in [key : Key, addr : Nat, size : Nat]
  BY DEF Sound, StoreType
<1>2. e.size \in Nat \ {0} /\ InPage(st, e.key, e.addr, e.size) /\ \A c \in Span(e) : ~Allocated(st.hex[c])
  BY <1>1 DEF EntryOk
<1>3. e.addr \in Nat \ {0} /\ e.addr .. e.addr + e.size - 1 \subseteq Chunk /\ e.addr - 1 \in Chunk
  BY <1>1, <1>2, InPageChunks
<1>4. e.addr \in e.addr .. e.addr + e.size - 1
  BY <1>2, <1>3
<1>5. e \in [key : Key, addr : Nat \ {0}, size : Nat \ {0}]
  BY <1>1, <1>2, <1>3
<1> QED BY <1>2, <1>3, <1>4, <1>5 DEF Span, InPage

\* In a page that is made of units a free chunk may begin a hole, wherever it is.
LEMMA FreeIsBoundary ==
    ASSUME NEW st, NEW p \in Pages, PageOk(st, p), st.page[p] \in Key,
           NEW h, h = st.hex, h \in [Chunk -> Byte], NEW c \in Own(p), ~Allocated(h[c])
    PROVE  Boundary(h, c)
<1>1. /\ First(p) \in Nat \ {0} /\ Limit(p) \in Nat /\ First(p) - 1 .. Limit(p) - 1 \subseteq Chunk
      /\ c \in Nat
  BY Geometry DEF Own
<1>2. CASE c = First(p)
  BY <1>2 DEF PageOk, Boundary
<1>3. CASE c # First(p) /\ Allocated(h[c - 1])
  <2>1. c - 1 \in Own(p)
    BY <1>1, <1>3 DEF Own
  <2>2. PICK b, d \in Own(p) : b <= c - 1 /\ c - 1 <= d /\ Unit(h, b, d)
    BY <1>3, <2>1 DEF PageOk
  <2>3. b \in Nat /\ d \in Nat
    BY <1>1 DEF Own
  <2>4. c \notin b .. d
    BY <2>2, <2>3, UnitBytes
  <2>5. d = c - 1
    BY <1>1, <2>2, <2>3, <2>4
  <2> QED BY <2>2, <2>5 DEF Unit, Boundary
<1>4. CASE c # First(p) /\ ~Allocated(h[c - 1])
  BY <1>4 DEF Allocated, Boundary
<1> QED BY <1>2, <1>3, <1>4

\* Where every free chunk is of an entry with its end marked, the entries are the holes.
LEMMA TightIsClosed ==
    ASSUME NEW st, NEW rs, NEW us, Sound(st, rs, us), NEW p \in Pages, st.page[p] \in Key, Tight(st, p)
    PROVE  Closed(st, p)
<1> DEFINE h == st.hex
<1>1. /\ First(p) \in Nat \ {0} /\ Limit(p) \in Nat /\ Own(p) \subseteq Nat
      /\ h[First(p) - 1] = "dataEnd"
      /\ \A c \in Own(p) : h[c] = "freeEnd" => c = Limit(p) - 1 \/ Allocated(h[c + 1])
  BY Geometry DEF Sound, PageOk, Own
<1>2. ASSUME NEW e \in st.list, e.size > 0
      PROVE  /\ e.addr \in Nat \ {0} /\ e.size \in Nat \ {0} /\ Span(e) = e.addr .. e.addr + e.size - 1
             /\ \A c \in Span(e) : ~Allocated(h[c])
  BY <1>2, EntryFacts
\* an entry with a chunk of the page is one of its own
<1>3. ASSUME NEW e \in st.list, NEW c \in Span(e), c \in Own(p)
      PROVE  e.size > 0 /\ First(p) <= e.addr /\ e.addr + e.size <= Limit(p)
  <2>1. e.size > 0
    BY DEF Sound, StoreType, Span
  <2>2. PICK g \in Pages : First(g) <= e.addr /\ e.addr + e.size <= Limit(g)
    BY <2>1, EntryFacts
  <2>3. First(g) \in Nat \ {0} /\ Limit(g) \in Nat
    BY Geometry
  <2>4. c \in First(g) - 1 .. Limit(g) - 1
    BY <1>2, <1>3, <2>1, <2>2, <2>3
  <2>5. c \in First(p) - 1 .. Limit(p) - 1
    BY <1>1, <1>3 DEF Own
  <2> QED BY <2>1, <2>2, <2>4, <2>5, OnePage
<1>4. \A c \in Own(p) : ~Allocated(h[c]) =>
         \E e \in st.list : c \in Span(e) /\ h[e.addr + e.size - 1] = "freeEnd"
  BY DEF Tight
<1>5. ASSUME NEW e \in st.list, e.size > 0, e.addr \in Own(p)
      PROVE  MaximalRun(h, p, e) /\ h[e.addr + e.size - 1] = "freeEnd"
  <2>1. /\ e.addr \in Nat \ {0} /\ e.size \in Nat \ {0} /\ Span(e) = e.addr .. e.addr + e.size - 1
        /\ \A c \in Span(e) : ~Allocated(h[c])
    BY <1>2, <1>5
  <2>2. e.addr \in Span(e)
    BY <2>1
  <2>3. First(p) <= e.addr /\ e.addr + e.size <= Limit(p)
    BY <1>3, <1>5, <2>2
  <2>4. h[e.addr + e.size - 1] = "freeEnd"
    <3>1. PICK f \in st.list : e.addr \in Span(f) /\ h[f.addr + f.size - 1] = "freeEnd"
      BY <1>4, <1>5, <2>1, <2>2
    <3>2. f = e
      BY <2>2, <3>1 DEF Sound, Disjoint
    <3> QED BY <3>1, <3>2
  <2>5. e.addr + e.size = Limit(p) \/ Allocated(h[e.addr + e.size])
    <3> DEFINE c == e.addr + e.size - 1
    <3>0. PICK f \in Nat, l \in Nat, a \in Nat, n \in Nat \ {0} :
             f = First(p) /\ l = Limit(p) /\ a = e.addr /\ n = e.size
      BY <1>1, <2>1
    <3>4. f <= a /\ a + n <= l /\ c = a + n - 1
      BY <2>3, <3>0
    <3>5. c \in f .. l - 1 /\ c + 1 = a + n /\ (c = l - 1 => a + n = l)
      BY <3>4
    <3>1. c \in Own(p) /\ c + 1 = e.addr + e.size /\ (c = Limit(p) - 1 => e.addr + e.size = Limit(p))
      BY <3>0, <3>5 DEF Own
    <3>2. h[c] = "freeEnd"
      BY <2>4
    <3> HIDE DEF c
    <3> QED BY <1>1, <3>1, <3>2
  <2>6. Allocated(h[e.addr - 1])
    <3>1. CASE e.addr = First(p)
      BY <1>1, <3>1 DEF Allocated
    <3>2. CASE e.addr # First(p)
      <4> DEFINE c == e.addr - 1
      <4>1. c \in Own(p) /\ c + 1 = e.addr /\ c # Limit(p) - 1
        BY <1>1, <2>1, <2>3, <3>2 DEF Own
      <4>2. SUFFICES ASSUME ~Allocated(h[c]) PROVE FALSE
        OBVIOUS
      <4> HIDE DEF c
      <4>3. PICK f \in st.list : c \in Span(f) /\ h[f.addr + f.size - 1] = "freeEnd"
        BY <1>4, <4>1, <4>2
      <4>4. f.size > 0
        BY <1>3, <4>1, <4>3
      <4>5. f.addr \in Nat /\ f.size \in Nat /\ Span(f) = f.addr .. f.addr + f.size - 1
        BY <1>2, <4>4
      <4>6. f # e
        BY <2>1, <4>1, <4>3
      <4>7. c + 1 \notin Span(f)
        BY <2>2, <4>1, <4>6 DEF Sound, Disjoint
      <4>8. c = f.addr + f.size - 1
        BY <1>1, <4>1, <4>3, <4>5, <4>7
      <4>9. Allocated(h[c + 1])
        BY <1>1, <4>1, <4>3, <4>8
      <4> QED BY <2>1, <2>2, <4>1, <4>9
    <3> QED BY <3>1, <3>2
  <2> QED BY <2>1, <2>3, <2>4, <2>5, <2>6 DEF MaximalRun
<1>6. \A c \in Own(p) : ~Allocated(h[c]) => \E e \in st.list : c \in Span(e)
  BY <1>4
<1> QED BY <1>5, <1>6 DEF Closed

\* the hole that r leaves in page p: the chunks from b, up to t
Hole(st, p, r, b, t) ==
    /\ b \in Nat /\ t \in Nat /\ First(p) <= b /\ b <= r.addr /\ Last(r) < t /\ t <= Limit(p)
    /\ \A c \in b .. r.addr - 1 : ~Allocated(st.hex[c])
    /\ \A c \in Last(r) + 1 .. t - 1 : ~Allocated(st.hex[c])
    /\ Allocated(st.hex[b - 1])
    /\ t = Limit(p) \/ Allocated(st.hex[t])

\* What free_prev_count and free_next_count find is that hole.
LEMMA Coalesces ==
    ASSUME NEW st, NEW rs, NEW us, Sound(st, rs, us), NEW r \in rs,
           NEW p \in Pages, st.page[p] = r.key, Closed(st, p), First(p) <= r.addr, Last(r) < Limit(p)
    PROVE  /\ FreePrevCount(st.hex, r.addr) \in Nat
           /\ FreeNextCount(st.hex, r.addr + CONTROL_COUNT + r.size) \in Nat
           /\ Hole(st, p, r, r.addr - FreePrevCount(st.hex, r.addr),
                   Last(r) + 1 + FreeNextCount(st.hex, r.addr + CONTROL_COUNT + r.size))
<1> DEFINE h == st.hex
           a == r.addr
           l == a + CONTROL_COUNT + r.size
           prev == FreePrevCount(h, a)
           next == FreeNextCount(h, l)
<1>1. /\ r \in [key : Key, addr : Nat \ {0}, size : Nat \ {0}, dead : BOOLEAN]
      /\ Last(r) \in Nat /\ Last(r) = a + CONTROL_COUNT + r.size - 1 /\ Body(r) = a .. Last(r) /\ a < Last(r)
      /\ \A c \in Body(r) : Allocated(h[c])
  BY RowFacts
<1>2. /\ First(p) \in Nat \ {0} /\ Limit(p) \in Nat /\ First(p) - 1 .. Limit(p) - 1 \subseteq Chunk
      /\ \A c \in First(p) - 1 .. Limit(p) - 1 : PageOf(c) = p
  BY Geometry
<1>3. /\ StoreType(st) /\ PageOk(st, p) /\ st.page[p] \in Key
      /\ CONTROL_COUNT \in Nat \ {0}
  BY <1>1, Counts DEF Sound
<1>4. l = Last(r) + 1 /\ l \in Nat \ {0} /\ l - 1 = Last(r)
  BY <1>1, <1>3
<1>5. /\ prev \in Nat /\ First(p) <= a - prev /\ a - prev \in Nat /\ a - prev <= a
      /\ \A c \in a - prev .. a - 1 : ~Allocated(h[c])
      /\ Allocated(h[a - prev - 1])
  <2> DEFINE S == {c \in First(p) - 1 .. a - 1 : Allocated(h[c])}
  <2>1. PageOf(a) = p
    BY <1>1, <1>2
  <2>2. prev = a - 1 - Max(S)
    BY <2>1 DEF FreePrevCount
  <2>3. First(p) - 1 \in S
    <3>1. h[First(p) - 1] = "dataEnd"
      BY <1>3 DEF PageOk
    <3>2. First(p) - 1 \in First(p) - 1 .. a - 1
      BY <1>1, <1>2
    <3> QED BY <3>1, <3>2 DEF Allocated
  <2>4. S \subseteq 0 .. a - 1 /\ a - 1 \in Nat
    BY <1>1, <1>2
  <2>5. Max(S) \in S /\ \A y \in S : y <= Max(S)
    BY <2>3, <2>4, MaxIsGreatest
  <2> DEFINE m == Max(S)
  <2>6. m \in First(p) - 1 .. a - 1 /\ Allocated(h[m]) /\ prev = a - 1 - m
    BY <2>2, <2>5
  <2>7. ASSUME NEW c \in m + 1 .. a - 1 PROVE ~Allocated(h[c])
    <3>1. c \in First(p) - 1 .. a - 1 /\ ~(c <= m)
      BY <1>1, <1>2, <2>6
    <3> QED BY <2>5, <3>1
  <2> HIDE DEF prev, m
  <2>8. a - prev = m + 1 /\ a - prev - 1 = m
    BY <1>1, <1>2, <2>6
  <2>9. prev \in Nat /\ m + 1 \in Nat /\ First(p) <= m + 1 /\ m + 1 <= a
    BY <1>1, <1>2, <2>6
  <2> QED BY <2>6, <2>7, <2>8, <2>9
<1>6. /\ next \in Nat /\ l + next <= Limit(p)
      /\ \A c \in l .. l + next - 1 : ~Allocated(h[c])
      /\ l + next = Limit(p) \/ Allocated(h[l + next])
  <2> DEFINE stops == {c \in l .. Limit(p) - 1 : h[c] # "free"}
  <2>1. PageOf(l - 1) = p
    BY <1>1, <1>2, <1>4
  <2>2. next = IF stops # {} /\ h[Min(stops)] = "freeEnd" THEN Min(stops) - l + 1 ELSE 0
    BY <2>1 DEF FreeNextCount
  <2> HIDE DEF next
  <2>3. stops \subseteq Nat
    BY <1>2, <1>4
  <2>4. stops # {} => Min(stops) \in stops /\ \A y \in stops : Min(stops) <= y
    BY <2>3, MinIsLeast
  <2>5. l <= Limit(p)
    BY <1>1, <1>2, <1>4
  <2>6. CASE l = Limit(p)
    <3>1. stops = {}
      BY <1>2, <1>4, <2>6
    <3>2. next = 0
      BY <2>2, <3>1
    <3> QED BY <1>4, <2>6, <3>2
  <2>7. CASE l < Limit(p) /\ Allocated(h[l])
    <3>1. l \in stops
      BY <1>2, <1>4, <2>7 DEF Allocated
    <3>2. Min(stops) = l
      BY <1>2, <1>4, <2>4, <3>1
    <3>3. next = 0
      BY <2>2, <2>7, <3>2 DEF Allocated
    <3> QED BY <1>4, <2>5, <2>7, <3>3
  <2>8. CASE l < Limit(p) /\ ~Allocated(h[l])
    <3>1. l \in Own(p) /\ l \in First(p) - 1 .. Limit(p) - 1
      BY <1>1, <1>2, <1>4, <2>8 DEF Own
    <3>2. PICK e \in st.list : l \in Span(e)
      BY <2>8, <3>1 DEF Closed
    <3>3. e.size > 0
      BY <1>3, <3>2 DEF StoreType, Span
    <3>4. /\ e \in [key : Key, addr : Nat \ {0}, size : Nat \ {0}]
          /\ Span(e) = e.addr .. e.addr + e.size - 1 /\ \A c \in Span(e) : ~Allocated(h[c])
      BY <3>3, EntryFacts
    <3>5. PICK g \in Pages : First(g) <= e.addr /\ e.addr + e.size <= Limit(g)
      BY <3>3, EntryFacts
    <3>6. First(g) \in Nat \ {0} /\ Limit(g) \in Nat
      BY Geometry
    <3>7. l \in First(g) - 1 .. Limit(g) - 1
      BY <3>2, <3>4, <3>5, <3>6
    <3>8. g = p
      BY <3>1, <3>7, OnePage
    <3>9. e.addr \in Own(p)
      BY <1>2, <3>4, <3>5, <3>8 DEF Own
    <3>10. MaximalRun(h, p, e) /\ h[e.addr + e.size - 1] = "freeEnd"
      BY <3>3, <3>9 DEF Closed
    <3>11. e.addr = l
      <4>1. l - 1 \in Body(r)
        BY <1>1, <1>4
      <4>2. l - 1 \notin Span(e)
        BY <1>1, <3>4, <4>1
      <4> QED BY <1>4, <3>2, <3>4, <4>2
    <3> DEFINE d == l + e.size - 1
    <3>12. /\ d \in stops /\ h[d] = "freeEnd" /\ d \in Nat /\ l <= d /\ d < Limit(p)
           /\ Span(e) = l .. d /\ d = l + e.size - 1
      BY <1>2, <1>4, <3>4, <3>5, <3>8, <3>10, <3>11
    <3> HIDE DEF d
    <3>13. ASSUME NEW c \in l .. d - 1 PROVE h[c] = "free"
      <4>1. c \in Span(e) /\ c + 1 \in Span(e) /\ c \in Own(p) /\ c # Limit(p) - 1
        BY <1>2, <1>4, <3>1, <3>12 DEF Own
      <4>2. ~Allocated(h[c]) /\ ~Allocated(h[c + 1])
        BY <3>4, <4>1
      <4>3. h[c] # "freeEnd"
        BY <1>3, <4>1, <4>2 DEF PageOk
      <4> QED BY <4>2, <4>3 DEF Allocated
    <3>14. Min(stops) = d
      <4> DEFINE m == Min(stops)
      <4>1. m \in stops /\ m <= d
        BY <2>4, <3>12
      <4>2. m \in l .. Limit(p) - 1 /\ h[m] # "free"
        BY <4>1
      <4> HIDE DEF m, stops
      <4>3. ~(m \in l .. d - 1)
        BY <3>13, <4>2
      <4>4. m = d
        BY <1>2, <1>4, <3>12, <4>1, <4>2, <4>3
      <4> QED BY <4>4 DEF m
    <3>15. next = e.size
      <4>1. next = d - l + 1
        BY <2>2, <3>12, <3>14
      <4> QED BY <1>4, <3>4, <3>12, <4>1
    <3>16. l + next = e.addr + e.size /\ Span(e) = l .. l + next - 1
      BY <3>4, <3>11, <3>15
    <3>17. /\ next \in Nat /\ l + next <= Limit(p)
           /\ l + next = Limit(p) \/ Allocated(h[l + next])
      BY <3>4, <3>5, <3>8, <3>10, <3>15, <3>16 DEF MaximalRun
    <3> QED BY <3>4, <3>16, <3>17
  <2> QED BY <1>2, <1>4, <2>5, <2>6, <2>7, <2>8
<1> HIDE DEF prev, next, l
<1>7. Last(r) + 1 + next = l + next /\ l + next \in Nat /\ Last(r) < l + next
  BY <1>1, <1>4, <1>6
<1>8. Hole(st, p, r, a - prev, Last(r) + 1 + next)
  <2> DEFINE b == a - prev
             t == l + next
  <2>1. \A c \in l .. t - 1 : ~Allocated(h[c])
    <3>1. ASSUME NEW c \in l .. t - 1 PROVE ~Allocated(h[c])
      <4>1. c \in l .. l + next - 1
        BY <1>4, <1>6
      <4> QED BY <1>6, <4>1
    <3> QED BY <3>1
  <2>2. b \in Nat /\ First(p) <= b /\ b <= a /\ Allocated(h[b - 1]) /\ \A c \in b .. a - 1 : ~Allocated(h[c])
    BY <1>5
  <2>3. t \in Nat /\ Last(r) < t /\ t <= Limit(p)
    BY <1>6, <1>7
  <2>4. t = Limit(p) \/ Allocated(h[t])
    BY <1>6
  <2>5. Last(r) + 1 + next = t /\ l = Last(r) + 1
    BY <1>4, <1>7
  <2> HIDE DEF b, t, h
  <2>6. \A c \in Last(r) + 1 .. t - 1 : ~Allocated(h[c])
    BY <2>1, <2>5
  <2>7. Hole(st, p, r, b, t)
    BY <2>2, <2>3, <2>4, <2>6 DEF Hole, h
  <2> QED BY <2>5, <2>7 DEF b
<1> QED BY <1>5, <1>6, <1>8 DEF prev, next, l

\* what the hole from b, up to t, leaves of a free list: its entries that are not of the hole
Rest(list, rest, b, t) ==
    /\ rest \subseteq list
    /\ \A e \in rest : e.size > 0 => \A c \in Span(e) : c \notin b .. t - 1
    /\ \A e \in list : e.size > 0 /\ (\E c \in Span(e) : c \notin b .. t - 1) => e \in rest

\* An entry that has a chunk of the hole begins where its part of the hole does.
LEMMA Covered ==
    ASSUME NEW st, NEW rs, NEW us, Sound(st, rs, us), NEW r \in rs,
           NEW p \in Pages, st.page[p] = r.key, Closed(st, p), NEW b, NEW t, Hole(st, p, r, b, t),
           NEW e \in st.list, e.size > 0, NEW c \in Span(e), c \in b .. t - 1
    PROVE  /\ e.key = r.key /\ \A x \in Span(e) : x \in b .. t - 1
           /\ \/ b < r.addr /\ e.addr = b
              \/ Last(r) + 1 < t /\ e.addr = Last(r) + 1
<1> DEFINE h == st.hex
           l == Last(r) + 1
<1>1. /\ r \in [key : Key, addr : Nat \ {0}, size : Nat \ {0}, dead : BOOLEAN]
      /\ Last(r) \in Nat /\ Body(r) = r.addr .. Last(r) /\ r.addr < Last(r)
      /\ \A x \in Body(r) : Allocated(h[x])
  BY RowFacts
<1>2. /\ First(p) \in Nat \ {0} /\ Limit(p) \in Nat /\ First(p) - 1 .. Limit(p) - 1 \subseteq Chunk
  BY Geometry
<1>3. /\ b \in Nat /\ t \in Nat /\ First(p) <= b /\ b <= r.addr /\ Last(r) < t /\ t <= Limit(p)
      /\ \A x \in b .. r.addr - 1 : ~Allocated(h[x])
      /\ \A x \in l .. t - 1 : ~Allocated(h[x])
      /\ Allocated(h[b - 1])
      /\ t = Limit(p) \/ Allocated(h[t])
  BY DEF Hole
<1>4. /\ e \in [key : Key, addr : Nat \ {0}, size : Nat \ {0}]
      /\ Span(e) = e.addr .. e.addr + e.size - 1 /\ \A x \in Span(e) : ~Allocated(h[x])
  BY EntryFacts
<1>5. PICK g \in Pages : st.page[g] = e.key /\ First(g) <= e.addr /\ e.addr + e.size <= Limit(g)
  BY EntryFacts
<1>6. g = p
  <2>1. First(g) \in Nat \ {0} /\ Limit(g) \in Nat
    BY Geometry
  <2>2. c \in First(g) - 1 .. Limit(g) - 1 /\ c \in First(p) - 1 .. Limit(p) - 1
    BY <1>2, <1>3, <1>4, <1>5, <2>1
  <2> QED BY <2>2, OnePage
<1>7. e.key = r.key /\ First(p) <= e.addr /\ e.addr + e.size <= Limit(p) /\ e.addr \in Own(p)
  BY <1>2, <1>4, <1>5, <1>6 DEF Own
<1>8. MaximalRun(h, p, e)
  BY <1>7 DEF Closed
<1>9. Allocated(h[e.addr - 1]) /\ (e.addr + e.size = Limit(p) \/ Allocated(h[e.addr + e.size]))
  BY <1>8 DEF MaximalRun
<1> DEFINE a == e.addr
           z == e.addr + e.size
<1>10. /\ a \in Nat \ {0} /\ z \in Nat /\ a < z /\ Span(e) = a .. z - 1 /\ Allocated(h[a - 1])
       /\ z = Limit(p) \/ Allocated(h[z])
       /\ z <= Limit(p)
  BY <1>4, <1>7, <1>9
<1> HIDE DEF a, z
<1>11. l \in Nat /\ l = Last(r) + 1 /\ Allocated(h[l - 1]) /\ Allocated(h[r.addr])
  <2>1. l - 1 \in Body(r) /\ r.addr \in Body(r)
    BY <1>1
  <2> QED BY <1>1, <2>1
<1> HIDE DEF l
<1>12. c \notin Body(r)
  BY <1>1, <1>4
<1>13. CASE c \in b .. r.addr - 1
  <2>1. b - 1 \notin Span(e) /\ r.addr \notin Span(e)
    BY <1>3, <1>4, <1>11
  <2>2. b <= a /\ z <= r.addr
    BY <1>1, <1>3, <1>10, <1>13, <2>1
  <2>3. ~(a - 1 \in b .. r.addr - 1)
    BY <1>3, <1>10
  <2>4. a = b
    BY <1>1, <1>3, <1>10, <1>13, <2>2, <2>3
  <2>5. b < r.addr
    BY <1>1, <1>3, <1>13
  <2>6. \A x \in Span(e) : x \in b .. t - 1
    BY <1>1, <1>3, <1>10, <2>2, <2>4
  <2> QED BY <1>7, <2>4, <2>5, <2>6 DEF a
<1>14. CASE c \in l .. t - 1
  <2>1. l - 1 \notin Span(e)
    BY <1>4, <1>11
  <2>2. l <= a
    BY <1>3, <1>10, <1>11, <1>14, <2>1
  <2>3. ~(a - 1 \in l .. t - 1)
    BY <1>3, <1>10
  <2>4. a = l
    BY <1>3, <1>10, <1>11, <1>14, <2>2, <2>3
  <2>5. l < t
    BY <1>3, <1>11, <1>14
  <2>6. z <= t
    <3>1. CASE t = Limit(p)
      BY <1>10, <3>1
    <3>2. CASE Allocated(h[t])
      <4>1. t \notin Span(e)
        BY <1>4, <3>2
      <4> QED BY <1>3, <1>10, <2>4, <2>5, <4>1
    <3> QED BY <1>3, <3>1, <3>2
  <2>7. \A x \in Span(e) : x \in b .. t - 1
    BY <1>1, <1>3, <1>10, <1>11, <2>4, <2>6
  <2> QED BY <1>7, <1>11, <2>4, <2>5, <2>7 DEF a
<1> QED BY <1>1, <1>3, <1>11, <1>12, <1>13, <1>14

\* st2 is st with the hole that r leaves in page p handed back: as a free entry, or
\* with its page
Frees(st, st2, p, r, b, t) ==
    /\ Hole(st, p, r, b, t) /\ StoreType(st2)
    /\ \A c \in Chunk : c \notin b .. t - 1 => st2.hex[c] = st.hex[c]
    /\ \A c \in b .. t - 2 : st2.hex[c] = "free"
    /\ st2.hex[t - 1] = "freeEnd"
    /\ \E rest : /\ Rest(st.list, rest, b, t)
                 /\ \/ /\ b = First(p) /\ t = Limit(p)
                       /\ st2.page = [st.page EXCEPT ![p] = FREE] /\ st2.list = rest
                    \/ /\ First(p) < b \/ t < Limit(p)
                       /\ st2.page = st.page /\ st2.list = rest \union {Entry(r.key, b, t - b)}

\* What free_list_erase_at takes off the list are the entries of the hole.
LEMMA Erased ==
    ASSUME NEW st, NEW rs, NEW us, Sound(st, rs, us), NEW r \in rs,
           NEW p \in Pages, st.page[p] = r.key, Closed(st, p), NEW b, NEW t, Hole(st, p, r, b, t),
           NEW prev \in Nat, NEW next \in Nat, b = r.addr - prev, t = Last(r) + 1 + next
    PROVE  Rest(st.list,
                EraseAt(IF prev > 0 THEN EraseAt(st.list, r.key, b) ELSE st.list,
                        r.key, IF next > 0 THEN Last(r) + 1 ELSE -1),
                b, t)
<1> DEFINE l == Last(r) + 1
           one == IF prev > 0 THEN EraseAt(st.list, r.key, b) ELSE st.list
           rest == EraseAt(one, r.key, IF next > 0 THEN l ELSE -1)
<1>1. /\ r \in [key : Key, addr : Nat \ {0}, size : Nat \ {0}, dead : BOOLEAN]
      /\ Last(r) \in Nat /\ r.addr < Last(r) /\ b \in Nat /\ t \in Nat /\ b <= r.addr /\ Last(r) < t
  BY RowFacts DEF Hole
<1>2. (b < r.addr <=> prev > 0) /\ (l < t <=> next > 0)
  BY <1>1
<1>3. st.list \in SUBSET [key : Key, addr : Nat, size : Nat]
  BY DEF Sound, StoreType
<1>4. \A e : e \in one <=> e \in st.list /\ (prev > 0 => e.key # r.key \/ e.addr # b)
  BY DEF EraseAt
<1>5. \A e \in st.list : e.addr # -1
  BY <1>3
<1>6. \A e : e \in rest <=> e \in one /\ (e.key # r.key \/ e.addr # IF next > 0 THEN l ELSE -1)
  BY DEF EraseAt
<1>7. \A e : e \in rest <=> /\ e \in st.list /\ (prev > 0 => e.key # r.key \/ e.addr # b)
                            /\ (next > 0 => e.key # r.key \/ e.addr # l)
  BY <1>4, <1>5, <1>6
<1> HIDE DEF one, rest, l
<1>8. ASSUME NEW e \in rest, e.size > 0, NEW c \in Span(e), c \in b .. t - 1 PROVE FALSE
  <2>1. e \in st.list
    BY <1>7
  <2>2. e.key = r.key /\ ((b < r.addr /\ e.addr = b) \/ (l < t /\ e.addr = l))
    BY <1>8, <2>1, Covered DEF l
  <2> QED BY <1>2, <1>7, <2>2
<1>9. ASSUME NEW e \in st.list, e.size > 0, NEW c \in Span(e), c \notin b .. t - 1 PROVE e \in rest
  <2>1. SUFFICES ASSUME e \notin rest PROVE FALSE
    OBVIOUS
  <2>2. e.key = r.key /\ ((prev > 0 /\ e.addr = b) \/ (next > 0 /\ e.addr = l))
    BY <1>7, <2>1
  <2>3. e.addr \in b .. t - 1
    BY <1>1, <1>2, <2>2 DEF l
  <2>4. e.addr \in Span(e)
    BY <1>9, EntryFacts
  <2>5. \A x \in Span(e) : x \in b .. t - 1
    BY <1>9, <2>3, <2>4, Covered
  <2> QED BY <1>9, <2>5
<1>10. Rest(st.list, rest, b, t)
  BY <1>7, <1>8, <1>9 DEF Rest
<1> QED BY <1>10 DEF rest, one, l

\* free_pointer hands back the one hole around the record: as an entry, or with its page.
LEMMA FreeCases ==
    ASSUME NEW st, NEW rs, NEW us, Sound(st, rs, us), NEW r \in rs,
           NEW p \in Pages, st.page[p] = r.key, Closed(st, p), First(p) <= r.addr, Last(r) < Limit(p),
           NEW st2, st2 = FreePointer(st, r.key, r.addr, r.size)
    PROVE  \E b, t : Frees(st, st2, p, r, b, t)
<1> DEFINE h == st.hex
           a == r.addr
           prev == FreePrevCount(h, a)
           next == FreeNextCount(h, a + CONTROL_COUNT + r.size)
           b == a - prev
           full == prev + CONTROL_COUNT + r.size + next
           t == Last(r) + 1 + next
           rest == EraseAt(IF prev > 0 THEN EraseAt(st.list, r.key, b) ELSE st.list,
                           r.key, IF next > 0 THEN a + CONTROL_COUNT + r.size ELSE -1)
           hex == FreeHexmap(h, b, full)
<1>1. /\ r \in [key : Key, addr : Nat \ {0}, size : Nat \ {0}, dead : BOOLEAN]
      /\ Last(r) \in Nat /\ Last(r) = a + CONTROL_COUNT + r.size - 1 /\ a < Last(r)
  BY RowFacts
<1>2. CONTROL_COUNT \in Nat \ {0} /\ PageChunks \in Nat \ {0}
  BY Counts
<1>3. prev \in Nat /\ next \in Nat /\ Hole(st, p, r, b, t)
  BY Coalesces
<1>4. /\ First(p) \in Nat \ {0} /\ Limit(p) \in Nat /\ Limit(p) = First(p) + PageChunks - 1
      /\ First(p) - 1 .. Limit(p) - 1 \subseteq Chunk
      /\ \A c \in First(p) - 1 .. Limit(p) - 1 : PageOf(c) = p
  BY Geometry
<1>5. st2 = IF WholePage(full)
            THEN [hex |-> AllocatePage(hex, PageOf(b)), page |-> [st.page EXCEPT ![PageOf(b)] = FREE],
                  list |-> rest]
            ELSE [hex |-> hex, page |-> st.page, list |-> rest \union {Entry(r.key, b, full)}]
  BY DEF FreePointer
<1> HIDE DEF prev, next
<1>6. a + CONTROL_COUNT + r.size = Last(r) + 1
  BY <1>1, <1>2
<1>7. b \in Nat /\ t \in Nat /\ First(p) <= b /\ b <= a /\ Last(r) < t /\ t <= Limit(p)
  BY <1>3 DEF Hole
<1>8. full \in Nat \ {0} /\ full = t - b /\ b + full - 1 = t - 1 /\ b + full - 2 = t - 2
  BY <1>1, <1>2, <1>3
<1>9. Rest(st.list, rest, b, t)
  BY <1>3, <1>6, Erased
<1> HIDE DEF rest, b, t, full
<1>10. b .. t - 1 \subseteq Chunk /\ PageOf(b) = p
  <2>1. b .. t - 1 \subseteq First(p) - 1 .. Limit(p) - 1
    BY <1>1, <1>4, <1>7
  <2>2. b \in First(p) - 1 .. Limit(p) - 1
    BY <1>1, <1>4, <1>7
  <2> QED BY <1>4, <2>1, <2>2
<1>11. StoreType(st) /\ h \in [Chunk -> Byte]
  BY DEF Sound, StoreType
<1>12. /\ hex \in [Chunk -> Byte]
       /\ \A c \in Chunk : c \notin b .. t - 1 => hex[c] = h[c]
       /\ \A c \in b .. t - 2 : hex[c] = "free"
       /\ hex[t - 1] = "freeEnd"
  BY <1>7, <1>8, <1>10, <1>11, FreeBytes
<1> HIDE DEF hex
<1>13. rest \in SUBSET [key : Key, addr : Nat, size : Nat]
  BY <1>9, <1>11 DEF StoreType, Rest
<1>14. CASE WholePage(full)
  <2>1. b = First(p) /\ t = Limit(p)
    BY <1>2, <1>4, <1>7, <1>8, <1>14 DEF WholePage
  <2>2. PageChunks > 1
    BY <1>2, <1>8, <1>14 DEF WholePage
  <2> DEFINE hex2 == AllocatePage(hex, p)
  <2>3. /\ hex2 \in [Chunk -> Byte]
        /\ \A c \in Chunk : c \notin First(p) - 1 .. Limit(p) - 1 => hex2[c] = hex[c]
        /\ hex2[First(p) - 1] = "dataEnd"
        /\ \A c \in First(p) .. Limit(p) - 2 : hex2[c] = "free"
        /\ hex2[Limit(p) - 1] = "freeEnd"
    BY <1>12, <2>2, PageBytes
  <2>4. h[First(p) - 1] = "dataEnd"
    BY <1>1 DEF Sound, PageOk
  <2>5. st2 = [hex |-> hex2, page |-> [st.page EXCEPT ![p] = FREE], list |-> rest]
    BY <1>5, <1>10, <1>14
  <2> HIDE DEF hex2
  <2>6. \A c \in Chunk : c \notin b .. t - 1 => hex2[c] = h[c]
    <3>1. \A c \in Chunk : c \notin b .. t - 1 => c = First(p) - 1 \/ c \notin First(p) - 1 .. Limit(p) - 1
      BY <1>4, <2>1
    <3> QED BY <1>12, <2>3, <2>4, <3>1
  <2>7. StoreType(st2)
    BY <1>11, <1>13, <2>3, <2>5 DEF StoreType
  <2>8. Frees(st, st2, p, r, b, t)
    BY <1>3, <1>9, <2>1, <2>3, <2>5, <2>6, <2>7 DEF Frees, b, t
  <2> QED BY <2>8
<1>15. CASE ~WholePage(full)
  <2>1. First(p) < b \/ t < Limit(p)
    BY <1>2, <1>4, <1>7, <1>8, <1>15 DEF WholePage
  <2>2. st2 = [hex |-> hex, page |-> st.page, list |-> rest \union {Entry(r.key, b, t - b)}]
    BY <1>5, <1>8, <1>15
  <2>3. Entry(r.key, b, t - b) \in [key : Key, addr : Nat, size : Nat]
    BY <1>1, <1>7, <1>8 DEF Entry
  <2>4. StoreType(st2)
    BY <1>11, <1>12, <1>13, <2>2, <2>3 DEF StoreType
  <2>5. Frees(st, st2, p, r, b, t)
    BY <1>3, <1>9, <1>12, <2>1, <2>2, <2>4 DEF Frees, b, t
  <2> QED BY <2>5
<1> QED BY <1>14, <1>15

\* Two units that begin where a record may, and share a chunk, are the same.
LEMMA UnitsMeet ==
    ASSUME NEW h, NEW a \in Nat, NEW d \in Nat, NEW x \in Nat, NEW y \in Nat, NEW c \in Nat,
           Unit(h, a, d), Boundary(h, a), Unit(h, x, y), Boundary(h, x),
           a <= c, c <= d, x <= c, c <= y
    PROVE  x = a /\ y = d
<1>1. /\ \A z \in a .. d - 1 : h[z] \notin {"free", "freeEnd", "dataEnd"}
      /\ \A z \in x .. y - 1 : h[z] \notin {"free", "freeEnd", "dataEnd"}
      /\ h[d] = "dataEnd" /\ h[y] = "dataEnd"
      /\ a < d /\ x < y
  BY UnitBytes DEF Unit
<1>2. ~(x < a)
  <2>1. a - 1 \notin x .. y - 1
    BY <1>1 DEF Boundary
  <2> QED BY <2>1
<1>3. ~(a < x)
  <2>1. x - 1 \notin a .. d - 1
    BY <1>1 DEF Boundary
  <2> QED BY <2>1
<1>4. x = a
  BY <1>2, <1>3
<1>5. y \notin a .. d - 1 /\ d \notin x .. y - 1
  BY <1>1
<1> QED BY <1>1, <1>4, <1>5

\* Nothing but r and its neighbours in the free list has a chunk of the hole r leaves.
LEMMA Clear ==
    ASSUME NEW st, NEW rs, NEW us, Sound(st, rs, us), NEW r \in rs,
           NEW p, NEW st2, NEW b, NEW t, p \in Pages, st.page[p] = r.key, Closed(st, p), Frees(st, st2, p, r, b, t)
    PROVE  /\ b \in Nat /\ t \in Nat /\ First(p) <= b /\ b < t /\ t <= Limit(p)
           /\ b .. t - 1 \subseteq Own(p) /\ b .. t - 1 \subseteq Chunk
           /\ \A c \in b .. t - 1 : ~Allocated(st2.hex[c]) /\ st2.hex[c] \in {"free", "freeEnd"}
           /\ \A c \in b .. t - 1 : Allocated(st.hex[c]) => c \in Body(r)
           /\ \A q \in rs : q # r => \A c \in Body(q) : c \notin b .. t - 1
           /\ \A u \in us : u.addr \notin Own(p) /\ \A c \in Body(u) : c \notin b .. t - 1
           /\ Differs(st, st2, p)
<1> DEFINE h == st.hex
           h2 == st2.hex
<1>1. /\ r \in [key : Key, addr : Nat \ {0}, size : Nat \ {0}, dead : BOOLEAN]
      /\ Last(r) \in Nat /\ Body(r) = r.addr .. Last(r) /\ r.addr < Last(r)
  BY RowFacts
<1>2. /\ First(p) \in Nat \ {0} /\ Limit(p) \in Nat /\ First(p) - 1 .. Limit(p) - 1 \subseteq Chunk
  BY Geometry
<1>3. /\ b \in Nat /\ t \in Nat /\ First(p) <= b /\ b <= r.addr /\ Last(r) < t /\ t <= Limit(p)
      /\ \A c \in b .. r.addr - 1 : ~Allocated(h[c])
      /\ \A c \in Last(r) + 1 .. t - 1 : ~Allocated(h[c])
  BY DEF Frees, Hole
<1>4. /\ \A c \in Chunk : c \notin b .. t - 1 => h2[c] = h[c]
      /\ \A c \in b .. t - 2 : h2[c] = "free"
      /\ h2[t - 1] = "freeEnd" /\ StoreType(st2)
  BY DEF Frees
<1>5. b < t /\ \A c \in b .. t - 1 : c \in b .. t - 2 \/ c = t - 1
  BY <1>1, <1>3
<1>6. b .. t - 1 \subseteq First(p) - 1 .. Limit(p) - 1 /\ b .. t - 1 \subseteq Own(p)
  BY <1>1, <1>2, <1>3 DEF Own
<1>7. \A c \in b .. t - 1 : ~Allocated(h2[c]) /\ h2[c] \in {"free", "freeEnd"}
  BY <1>4, <1>5 DEF Allocated
<1>8. \A c \in b .. t - 1 : Allocated(h[c]) => c \in Body(r)
  <2>1. \A c \in b .. t - 1 : c \in b .. r.addr - 1 \/ c \in r.addr .. Last(r) \/ c \in Last(r) + 1 .. t - 1
    BY <1>1, <1>3
  <2> QED BY <1>1, <1>3, <2>1
<1>9. \A q \in rs : q # r => \A c \in Body(q) : c \notin b .. t - 1
  <2>1. \A q \in rs : \A c \in Body(q) : Allocated(h[c])
    BY RowFacts
  <2> QED BY <1>8, <2>1 DEF Sound, Disjoint
<1>10. ASSUME NEW u \in us PROVE u.addr \notin Own(p) /\ \A c \in Body(u) : c \notin b .. t - 1
  <2>1. /\ u \in [key : Key, addr : Nat \ {0}, size : Nat \ {0}, old : Nat]
        /\ Body(u) = u.addr .. u.addr + CONTROL_COUNT + u.size - 1 /\ CONTROL_COUNT \in Nat
    BY SpanFacts, Counts
  <2>2. \A c \in Body(u) : ~Allocated(h[c]) /\ \A e \in st.list : c \notin Span(e)
    BY SpanFacts
  <2>3. \A c \in Body(u) : c \notin Own(p)
    BY <2>2 DEF Closed
  <2>4. u.addr \in Body(u)
    BY <2>1
  <2> QED BY <1>6, <2>3, <2>4
<1>11. Differs(st, st2, p)
  <2>1. \A q \in Pages : q # p => st2.page[q] = st.page[q]
    BY DEF Frees, Sound, StoreType
  <2>2. \A c \in Chunk : c \notin First(p) - 1 .. Limit(p) - 1 => h2[c] = h[c]
    BY <1>4, <1>6
  <2> QED BY <1>4, <2>1, <2>2 DEF Differs, Sound
<1> QED BY <1>2, <1>3, <1>5, <1>6, <1>7, <1>8, <1>9, <1>10, <1>11

\* What has no chunk of the hole is in a page of its key still.
LEMMA PageKept ==
    ASSUME NEW st, NEW st2, NEW p, NEW b \in Nat, NEW t \in Nat, p \in Pages,
           st.page \in [Pages -> Key \union {FREE, NONE}],
           \/ st2.page = st.page
           \/ b = First(p) /\ t = Limit(p) /\ st2.page = [st.page EXCEPT ![p] = FREE],
           NEW k, NEW a \in Nat, NEW n \in Nat \ {0}, InPage(st, k, a, n), a \notin b .. t - 1
    PROVE  InPage(st2, k, a, n)
<1>1. PICK q \in Pages : st.page[q] = k /\ First(q) <= a /\ a + n <= Limit(q)
  BY DEF InPage
<1>2. First(q) \in Nat /\ Limit(q) \in Nat
  BY Geometry
<1>3. CASE st2.page = st.page
  BY <1>1, <1>3 DEF InPage
<1>4. CASE b = First(p) /\ t = Limit(p) /\ st2.page = [st.page EXCEPT ![p] = FREE]
  <2>1. q # p
    BY <1>1, <1>2, <1>4
  <2> QED BY <1>1, <1>4, <2>1 DEF InPage
<1> QED BY <1>3, <1>4

\* Freeing a record leaves the store sound.
LEMMA FreeSound ==
    ASSUME NEW st, NEW rs, NEW us, Sound(st, rs, us), NEW r \in rs,
           NEW p, NEW st2, NEW b, NEW t, p \in Pages, st.page[p] = r.key, Closed(st, p), Frees(st, st2, p, r, b, t)
    PROVE  Sound(st2, rs \ {r}, us)
<1> DEFINE h == st.hex
           h2 == st2.hex
<1>1. /\ b \in Nat /\ t \in Nat /\ First(p) <= b /\ b < t /\ t <= Limit(p)
      /\ b .. t - 1 \subseteq Own(p) /\ b .. t - 1 \subseteq Chunk
      /\ \A c \in b .. t - 1 : ~Allocated(h2[c]) /\ h2[c] \in {"free", "freeEnd"}
      /\ \A c \in b .. t - 1 : Allocated(h[c]) => c \in Body(r)
      /\ \A q \in rs : q # r => \A c \in Body(q) : c \notin b .. t - 1
      /\ \A u \in us : u.addr \notin Own(p) /\ \A c \in Body(u) : c \notin b .. t - 1
      /\ Differs(st, st2, p)
  BY Clear
<1>2. /\ r \in [key : Key, addr : Nat \ {0}, size : Nat \ {0}, dead : BOOLEAN]
      /\ Last(r) \in Nat /\ Body(r) = r.addr .. Last(r) /\ r.addr < Last(r)
      /\ Unit(h, r.addr, Last(r))
  BY RowFacts
<1>3. /\ First(p) \in Nat \ {0} /\ Limit(p) \in Nat /\ First(p) - 1 .. Limit(p) - 1 \subseteq Chunk
  BY Geometry
<1>4. /\ StoreType(st) /\ StoreType(st2) /\ st.page \in [Pages -> Key \union {FREE, NONE}]
      /\ h \in [Chunk -> Byte] /\ h2 \in [Chunk -> Byte]
      /\ PageOk(st, p) /\ st.page[p] \in Key
  BY <1>2 DEF Sound, StoreType, Frees
<1>5. /\ \A c \in Chunk : c \notin b .. t - 1 => h2[c] = h[c]
      /\ \A c \in b .. t - 2 : h2[c] = "free" /\ h2[t - 1] = "freeEnd"
      /\ b <= r.addr /\ Last(r) < t
      /\ \A c \in b .. r.addr - 1 : ~Allocated(h[c])
      /\ Allocated(h[b - 1])
      /\ t = Limit(p) \/ Allocated(h[t])
  BY DEF Frees, Hole
<1>6. PICK rest : /\ Rest(st.list, rest, b, t)
                  /\ \/ /\ b = First(p) /\ t = Limit(p)
                        /\ st2.page = [st.page EXCEPT ![p] = FREE] /\ st2.list = rest
                     \/ /\ First(p) < b \/ t < Limit(p)
                        /\ st2.page = st.page /\ st2.list = rest \union {Entry(r.key, b, t - b)}
  BY DEF Frees
<1> DEFINE new == Entry(r.key, b, t - b)
<1>7. /\ \/ st2.page = st.page
         \/ b = First(p) /\ t = Limit(p) /\ st2.page = [st.page EXCEPT ![p] = FREE]
      /\ \A e \in st2.list : e \in rest \/ e = new
  BY <1>6
<1>8. /\ rest \subseteq st.list
      /\ \A e \in rest : e.size > 0 => \A c \in Span(e) : c \notin b .. t - 1
  BY <1>6 DEF Rest
<1>9. /\ new = [key |-> r.key, addr |-> b, size |-> t - b] /\ t - b \in Nat \ {0}
      /\ Span(new) = b .. t - 1 /\ new.size > 0
  BY <1>1 DEF Entry, Span
<1> HIDE DEF new
\* a chunk at which a record may begin stays one
<1>10. \A c \in Nat : c - 1 \in Chunk /\ Boundary(h, c) => Boundary(h2, c)
  BY <1>1, <1>5 DEF Boundary
\* a unit but r's has no chunk of the hole
<1>11. ASSUME NEW x \in Own(p), NEW y \in Own(p), Unit(h, x, y), Boundary(h, x),
              NEW c \in x .. y, c \notin b .. t - 1
       PROVE  \A z \in x .. y : z \notin b .. t - 1
  <2>1. SUFFICES ASSUME NEW z \in x .. y, z \in b .. t - 1 PROVE FALSE
    OBVIOUS
  <2>2. x \in Nat /\ y \in Nat
    BY <1>3 DEF Own
  <2>3. Allocated(h[z])
    BY <1>11, <2>2, UnitBytes
  <2>4. z \in r.addr .. Last(r)
    BY <1>1, <1>2, <2>1, <2>3
  <2>5. Boundary(h, r.addr)
    BY <1>4 DEF Sound, RowOk
  <2>6. x = r.addr /\ y = Last(r)
    <3>1. r.addr \in Nat /\ z \in Nat /\ r.addr <= z /\ z <= Last(r) /\ x <= z /\ z <= y
      BY <1>2, <2>1, <2>2, <2>4
    <3> DEFINE a == r.addr
               d == Last(r)
    <3>2. a \in Nat /\ d \in Nat /\ Unit(h, a, d) /\ Boundary(h, a) /\ a <= z /\ z <= d
      BY <1>2, <2>5, <3>1
    <3> HIDE DEF a, d, h
    <3>3. Unit(h, x, y) /\ Boundary(h, x)
      BY <1>11
    <3>4. x = a /\ y = d
      BY <2>2, <3>1, <3>2, <3>3, UnitsMeet
    <3> QED BY <3>4 DEF a, d
  <2> QED BY <1>1, <1>2, <1>5, <1>11, <2>6
<1>12. PageOk(st2, p)
  <2>1. SUFFICES ASSUME st2.page[p] \in Key PROVE PageOk(st2, p)
    BY DEF PageOk
  <2>2. st2.page = st.page
    BY <1>4, <1>7, <2>1, AllocatorAssumption
  <2>3. h2[First(p) - 1] = "dataEnd"
    <3>1. First(p) - 1 \in Chunk /\ First(p) - 1 \notin b .. t - 1
      BY <1>1, <1>3
    <3> QED BY <1>4, <1>5, <3>1 DEF PageOk
  <2>4. ASSUME NEW c \in Own(p), h2[c] = "freeEnd", c # Limit(p) - 1 PROVE Allocated(h2[c + 1])
    <3>1. c \in Nat /\ c \in Chunk /\ c + 1 \in Chunk
      BY <1>3, <2>4 DEF Own
    <3>2. CASE c \in b .. t - 1
      <4>1. c = t - 1
        BY <1>1, <1>5, <2>4, <3>2
      <4>2. t # Limit(p) /\ c + 1 = t /\ c + 1 \notin b .. t - 1
        BY <1>1, <1>3, <2>4, <4>1
      <4> QED BY <1>5, <3>1, <4>2
    <3>3. CASE c \notin b .. t - 1
      <4>1. h[c] = "freeEnd"
        BY <1>5, <2>4, <3>1, <3>3
      <4>2. Allocated(h[c + 1])
        BY <1>4, <2>4, <4>1 DEF PageOk
      <4>3. c # b - 1
        BY <1>5, <4>1 DEF Allocated
      <4>4. c + 1 \notin b .. t - 1
        BY <1>1, <3>1, <3>3, <4>3
      <4> QED BY <1>5, <3>1, <4>2, <4>4
    <3> QED BY <3>2, <3>3
  <2>5. ASSUME NEW c \in Own(p), Allocated(h2[c])
        PROVE  \E x, y \in Own(p) : x <= c /\ c <= y /\ Boundary(h2, x) /\ Unit(h2, x, y)
    <3>1. c \in Chunk /\ c \notin b .. t - 1
      BY <1>1, <1>3, <2>5 DEF Own
    <3>2. Allocated(h[c])
      BY <1>5, <2>5, <3>1
    <3>3. PICK x, y \in Own(p) : x <= c /\ c <= y /\ Boundary(h, x) /\ Unit(h, x, y)
      BY <1>4, <3>2 DEF PageOk
    <3>4. x \in Nat \ {0} /\ y \in Nat /\ c \in x .. y /\ x - 1 \in Chunk /\ x .. y \subseteq Chunk
      BY <1>3, <3>1, <3>3 DEF Own
    <3>5. \A z \in x .. y : z \notin b .. t - 1
      BY <1>11, <3>1, <3>3, <3>4
    <3>6. Unit(h2, x, y)
      BY <1>5, <3>3, <3>4, <3>5, UnitKept
    <3>7. Boundary(h2, x)
      BY <1>10, <3>3, <3>4
    <3> QED BY <3>3, <3>6, <3>7
  <2> QED BY <2>2, <2>3, <2>4, <2>5 DEF PageOk
<1>13. \A q \in Pages : PageOk(st2, q)
  <2>1. \A q \in Pages : q # p => PageOk(st2, q)
    BY <1>1, Elsewhere DEF Sound
  <2> QED BY <1>12, <2>1
<1>14. ASSUME NEW q \in rs \ {r} PROVE RowOk(st2, q)
  <2>1. /\ q \in [key : Key, addr : Nat \ {0}, size : Nat \ {0}, dead : BOOLEAN]
        /\ q.addr - 1 \in Chunk /\ Body(q) \subseteq Chunk
        /\ Last(q) \in Nat /\ Body(q) = q.addr .. Last(q) /\ q.addr < Last(q)
        /\ Unit(h, q.addr, Last(q))
    BY RowFacts
  <2>2. RowOk(st, q)
    BY DEF Sound
  <2>3. \A c \in q.addr .. Last(q) : c \in Chunk /\ c \notin b .. t - 1
    BY <1>1, <2>1
  <2>4. Unit(h2, q.addr, Last(q))
    BY <1>5, <2>1, <2>3, UnitKept
  <2>5. q.addr \notin b .. t - 1 /\ CONTROL_COUNT + q.size \in Nat \ {0}
    BY <2>1, <2>3, Counts
  <2>6. InPage(st, q.key, q.addr, CONTROL_COUNT + q.size)
    BY <2>2 DEF RowOk
  <2>7. InPage(st2, q.key, q.addr, CONTROL_COUNT + q.size)
    <3> DEFINE n == CONTROL_COUNT + q.size
    <3>1. n \in Nat \ {0} /\ InPage(st, q.key, q.addr, n)
      BY <2>5, <2>6
    <3> HIDE DEF n
    <3>2. InPage(st2, q.key, q.addr, n)
      BY <1>1, <1>4, <1>7, <2>1, <2>5, <3>1, PageKept
    <3> QED BY <3>2 DEF n
  <2> QED BY <1>10, <2>1, <2>2, <2>4, <2>7 DEF RowOk
<1>15. \A u \in us : SpanOk(st2, u)
  BY <1>1, Elsewhere DEF Sound
<1>16. ASSUME NEW e \in rest PROVE EntryOk(st2, e)
  <2>1. SUFFICES ASSUME e.size > 0 PROVE EntryOk(st2, e)
    BY DEF EntryOk
  <2>2. e \in st.list /\ EntryOk(st, e)
    BY <1>8 DEF Sound
  <2>3. /\ e \in [key : Key, addr : Nat \ {0}, size : Nat \ {0}]
        /\ e.addr - 1 \in Chunk /\ Span(e) \subseteq Chunk /\ e.addr \in Span(e)
        /\ \A c \in Span(e) : ~Allocated(h[c])
    BY <2>1, <2>2, EntryFacts
  <2>4. \A c \in Span(e) : c \notin b .. t - 1 /\ h2[c] = h[c]
    BY <1>5, <1>8, <2>1, <2>3
  <2>5. InPage(st2, e.key, e.addr, e.size)
    BY <1>1, <1>4, <1>7, <2>1, <2>2, <2>3, <2>4, PageKept DEF EntryOk
  <2> QED BY <1>10, <2>1, <2>2, <2>3, <2>4, <2>5 DEF EntryOk
<1>17. new \in st2.list => EntryOk(st2, new)
  <2>1. SUFFICES ASSUME new \in st2.list PROVE EntryOk(st2, new)
    OBVIOUS
  <2>2. st2.page = st.page
    <3>1. new \notin rest
      <4>1. b \in Span(new)
        BY <1>1, <1>9
      <4> QED BY <1>1, <1>8, <1>9, <4>1
    <3> QED BY <1>6, <2>1, <3>1
  <2>3. InPage(st2, r.key, b, t - b)
    BY <1>1, <1>3, <2>2 DEF InPage
  <2>4. \A c \in Span(new) : ~Allocated(h2[c])
    BY <1>1, <1>9
  <2>5. Boundary(h, b)
    <3>1. CASE b = r.addr
      BY <1>4, <3>1 DEF Sound, RowOk
    <3>2. CASE b < r.addr
      <4>1. b \in Own(p) /\ ~Allocated(h[b])
        BY <1>1, <1>2, <1>5, <3>2
      <4> QED BY <1>4, <4>1, FreeIsBoundary
    <3> QED BY <1>1, <1>2, <1>5, <3>1, <3>2
  <2>6. Boundary(h2, b)
    BY <1>1, <1>3, <1>10, <2>5
  <2> QED BY <1>9, <2>3, <2>4, <2>6 DEF EntryOk
<1>18. \A e \in st2.list : EntryOk(st2, e)
  BY <1>7, <1>16, <1>17
<1>19. Disjoint(st2, rs \ {r}, us)
  <2>0. Disjoint(st, rs, us) /\ st.list \in SUBSET [key : Key, addr : Nat, size : Nat]
    BY <1>4 DEF Sound, StoreType
  <2>1. \A e \in rest : \A c \in Span(e) : c \notin b .. t - 1
    <3>1. ASSUME NEW e \in rest, NEW c \in Span(e) PROVE e.size > 0
      BY <1>8, <2>0 DEF Span
    <3> QED BY <1>8, <3>1
  <2>2. \A e, f \in st2.list : e # f => \A c \in Span(e) : c \notin Span(f)
    BY <1>7, <1>8, <1>9, <2>0, <2>1 DEF Disjoint
  <2>3. \A u \in us : \A e \in st2.list : \A c \in Body(u) : c \notin Span(e)
    BY <1>1, <1>7, <1>8, <1>9, <2>0 DEF Disjoint
  <2> QED BY <2>0, <2>2, <2>3 DEF Disjoint
<1> QED BY <1>4, <1>13, <1>14, <1>15, <1>18, <1>19 DEF Sound

\* the pages of st2 that have a key are those of st, but for some, and closed where they were
Keeps(st, st2) ==
    \A q \in Pages : st2.page[q] \in Key =>
        st2.page[q] = st.page[q] /\ (Closed(st, q) => Closed(st2, q))

\* Freeing a record leaves every hole entire, and no page without a record.
LEMMA FreeWhole ==
    ASSUME NEW st, NEW rs, NEW us, Sound(st, rs, us), Whole(st), NEW r \in rs,
           NEW p, NEW st2, NEW b, NEW t, p \in Pages, st.page[p] = r.key, Closed(st, p), Frees(st, st2, p, r, b, t)
    PROVE  Whole(st2) /\ Keeps(st, st2)
<1> DEFINE h == st.hex
           h2 == st2.hex
<1>1. /\ b \in Nat /\ t \in Nat /\ First(p) <= b /\ b < t /\ t <= Limit(p)
      /\ b .. t - 1 \subseteq Own(p) /\ b .. t - 1 \subseteq Chunk
      /\ \A c \in b .. t - 1 : ~Allocated(h2[c]) /\ h2[c] \in {"free", "freeEnd"}
      /\ Differs(st, st2, p)
  BY Clear
<1>2. /\ First(p) \in Nat \ {0} /\ Limit(p) \in Nat /\ First(p) - 1 .. Limit(p) - 1 \subseteq Chunk
  BY Geometry
<1>3. /\ st.list \in SUBSET [key : Key, addr : Nat, size : Nat]
      /\ st.page \in [Pages -> Key \union {FREE, NONE}]
  BY DEF Sound, StoreType
<1>4. /\ \A c \in Chunk : c \notin b .. t - 1 => h2[c] = h[c]
      /\ \A c \in b .. t - 2 : h2[c] = "free"
      /\ h2[t - 1] = "freeEnd"
      /\ Allocated(h[b - 1])
      /\ t = Limit(p) \/ Allocated(h[t])
  BY DEF Frees, Hole
<1>5. PICK rest : /\ Rest(st.list, rest, b, t)
                  /\ \/ /\ b = First(p) /\ t = Limit(p)
                        /\ st2.page = [st.page EXCEPT ![p] = FREE] /\ st2.list = rest
                     \/ /\ First(p) < b \/ t < Limit(p)
                        /\ st2.page = st.page /\ st2.list = rest \union {Entry(r.key, b, t - b)}
  BY DEF Frees
<1> DEFINE new == Entry(r.key, b, t - b)
<1>6. /\ rest \subseteq st.list
      /\ \A e \in rest : e.size > 0 => \A c \in Span(e) : c \notin b .. t - 1
      /\ \A e \in st.list : e.size > 0 /\ (\E c \in Span(e) : c \notin b .. t - 1) => e \in rest
  BY <1>5 DEF Rest
<1>7. /\ new = [key |-> r.key, addr |-> b, size |-> t - b] /\ t - b \in Nat \ {0}
      /\ Span(new) = b .. t - 1 /\ new.size > 0 /\ new.addr = b /\ new.addr + new.size = t
      /\ new.addr \in Own(p)
  <2>1. b \in b .. t - 1
    BY <1>1
  <2> QED BY <1>1, <2>1 DEF Entry, Span
<1>8. \A e \in st2.list : e \in rest \/ e = new
  BY <1>5
<1> HIDE DEF new
<1>9. SameEntries(st, st2, p)
  <2>1. ASSUME NEW e, e.size > 0, e.addr \notin Own(p) PROVE e \in st.list <=> e \in st2.list
    <3>1. ASSUME e \in st.list PROVE e \in st2.list
      <4>1. e.addr \in Span(e)
        BY <2>1, <3>1, EntryFacts
      <4> QED BY <1>1, <1>5, <1>6, <2>1, <3>1, <4>1
    <3>2. ASSUME e \in st2.list PROVE e \in st.list
      BY <1>6, <1>7, <1>8, <2>1, <3>2
    <3> QED BY <3>1, <3>2
  <2> QED BY <2>1 DEF SameEntries
<1>10. ASSUME NEW q \in Pages, q # p
       PROVE  Entire(st2, q) /\ st2.page[q] = st.page[q] /\ (Closed(st, q) => Closed(st2, q))
  BY <1>1, <1>9, <1>10, ClosedElsewhere DEF Whole
<1>11. st2.page[p] \in Key => st2.page[p] = st.page[p] /\ Closed(st2, p) /\ Entire(st2, p)
  <2>1. CASE st2.page[p] \notin Key
    BY <2>1
  <2>2. CASE st2.page[p] \in Key
    <3>1. /\ First(p) < b \/ t < Limit(p)
          /\ st2.page = st.page /\ st2.list = rest \union {new}
      BY <1>3, <1>5, <2>2, AllocatorAssumption DEF new
    <3>2. MaximalRun(h2, p, new) /\ h2[new.addr + new.size - 1] = "freeEnd"
      <4>1. b - 1 \in Chunk /\ b - 1 \notin b .. t - 1
        BY <1>1, <1>2
      <4>2. t = Limit(p) \/ Allocated(h2[t])
        <5>1. t # Limit(p) => t \in Chunk /\ t \notin b .. t - 1
          BY <1>1, <1>2
        <5> QED BY <1>4, <5>1
      <4> QED BY <1>1, <1>4, <1>7, <4>1, <4>2 DEF MaximalRun
    <3>3. ASSUME NEW e \in rest, e.size > 0, e.addr \in Own(p)
          PROVE  MaximalRun(h2, p, e) /\ h2[e.addr + e.size - 1] = "freeEnd"
      <4>1. e \in st.list
        BY <1>6
      <4>2. MaximalRun(h, p, e) /\ h[e.addr + e.size - 1] = "freeEnd"
        BY <3>3, <4>1 DEF Closed
      <4>3. /\ e \in [key : Key, addr : Nat \ {0}, size : Nat \ {0}]
            /\ Span(e) = e.addr .. e.addr + e.size - 1 /\ Span(e) \subseteq Chunk /\ e.addr - 1 \in Chunk
            /\ \A c \in Span(e) : ~Allocated(h[c])
        BY <3>3, <4>1, EntryFacts
      <4>4. \A c \in Span(e) : c \notin b .. t - 1 /\ h2[c] = h[c]
        BY <1>4, <1>6, <3>3, <4>3
      <4> DEFINE a == e.addr
                 z == e.addr + e.size
      <4>5. /\ a \in Nat \ {0} /\ z \in Nat /\ a < z /\ Span(e) = a .. z - 1 /\ First(p) <= a /\ z <= Limit(p)
            /\ Allocated(h[a - 1]) /\ (z = Limit(p) \/ Allocated(h[z]))
            /\ a - 1 \in Chunk /\ z - 1 = e.addr + e.size - 1
        BY <1>2, <3>3, <4>2, <4>3 DEF MaximalRun, Own
      <4> HIDE DEF a, z
      <4>6. a \in Span(e) /\ z - 1 \in Span(e)
        BY <4>5
      <4>7. a - 1 \notin b .. t - 1
        <5>1. SUFFICES ASSUME a - 1 \in b .. t - 1 PROVE FALSE
          OBVIOUS
        <5>2. a = t
          BY <1>1, <4>4, <4>5, <4>6, <5>1
        <5>3. Allocated(h[t])
          BY <1>1, <1>2, <1>4, <4>5, <5>2
        <5> QED BY <4>3, <4>6, <5>2, <5>3
      <4>8. z \notin b .. t - 1
        <5>1. SUFFICES ASSUME z \in b .. t - 1 PROVE FALSE
          OBVIOUS
        <5>2. z = b
          BY <1>1, <4>4, <4>5, <4>6, <5>1
        <5> QED BY <1>4, <4>3, <4>6, <5>2
      <4>9. Allocated(h2[a - 1])
        BY <1>4, <4>5, <4>7
      <4>10. z = Limit(p) \/ Allocated(h2[z])
        <5>1. z # Limit(p) => z \in Chunk
          BY <1>2, <4>5
        <5> QED BY <1>4, <4>5, <4>8, <5>1
      <4>11. h2[z - 1] = "freeEnd"
        BY <4>2, <4>4, <4>5, <4>6
      <4>12. \A c \in Span(e) : ~Allocated(h2[c])
        BY <4>3, <4>4
      <4> QED BY <4>5, <4>9, <4>10, <4>11, <4>12 DEF MaximalRun, a, z
    <3>4. ASSUME NEW c \in Own(p), ~Allocated(h2[c]) PROVE \E e \in st2.list : c \in Span(e)
      <4>1. CASE c \in b .. t - 1
        BY <1>7, <3>1, <4>1
      <4>2. CASE c \notin b .. t - 1
        <5>1. c \in Chunk
          BY <1>2 DEF Own
        <5>2. PICK e \in st.list : c \in Span(e)
          BY <1>4, <3>4, <4>2, <5>1 DEF Closed
        <5>3. e.size > 0
          BY <1>3, <5>2 DEF Span
        <5> QED BY <1>6, <3>1, <4>2, <5>2, <5>3
      <4> QED BY <4>1, <4>2
    <3>5. \E c \in Own(p) : Allocated(h2[c])
      <4>1. CASE First(p) < b
        <5>1. b - 1 \in Own(p) /\ b - 1 \in Chunk /\ b - 1 \notin b .. t - 1
          BY <1>1, <1>2, <4>1 DEF Own
        <5> QED BY <1>4, <5>1
      <4>2. CASE t < Limit(p)
        <5>1. t \in Own(p) /\ t \in Chunk /\ t \notin b .. t - 1
          BY <1>1, <1>2, <4>2 DEF Own
        <5> QED BY <1>1, <1>2, <1>4, <4>2, <5>1
      <4> QED BY <3>1, <4>1, <4>2
    <3>6. \A e \in st2.list : e.size > 0 /\ e.addr \in Own(p) =>
              MaximalRun(h2, p, e) /\ h2[e.addr + e.size - 1] = "freeEnd"
      BY <1>8, <3>2, <3>3
    <3>7. Closed(st2, p)
      BY <3>4, <3>6 DEF Closed
    <3> QED BY <3>1, <3>5, <3>7 DEF Entire
  <2> QED BY <2>1, <2>2
<1>12. Entire(st2, p)
  BY <1>11 DEF Entire
<1> QED BY <1>10, <1>11, <1>12 DEF Whole, Keeps

\* A record freed: the invariant of the store stays, without that record.
LEMMA FreeKeeps ==
    ASSUME NEW st, NEW rs, NEW us, Sound(st, rs, us), Whole(st), NEW r \in rs, Closed(st, PageOf(r.addr)),
           NEW st2, st2 = FreePointer(st, r.key, r.addr, r.size)
    PROVE  Sound(st2, rs \ {r}, us) /\ Whole(st2) /\ Keeps(st, st2)
<1>1. PICK p \in Pages : st.page[p] = r.key /\ First(p) <= r.addr /\ Last(r) < Limit(p)
  BY RowFacts
<1>3. Closed(st, p)
  BY <1>1, RowPage
<1>2. PICK b, t : Frees(st, st2, p, r, b, t)
  BY <1>1, <1>3, FreeCases
<1> QED BY <1>1, <1>2, <1>3, FreeSound, FreeWhole

-----------------------------------------------------------------------------
(* Walking a page                                                          *)

\* the step of a walk at chunk i, of the chunks up to b: where it goes on and what it takes
Go(next, gives, b, w, i) == IF next[i] \in i + 1 .. b THEN gives[i] \union w[next[i]] ELSE gives[i]

\* a walk of the chunks from a to b, as a function of where it stands
Goes(next, gives, a, b, w) == w = [i \in a .. b |-> Go(next, gives, b, w, i)]

\* A function that takes what it takes at a chunk and goes on behind it is defined.
LEMMA WalkExists ==
    ASSUME NEW a \in Nat, NEW b \in Nat, NEW next, NEW gives
    PROVE  \E w : Goes(next, gives, a, b, w)
<1> DEFINE Right(w, j) == \A i \in a .. b : i > b - j => w[i] = Go(next, gives, b, w, i)
           K == {j \in Nat : \E w : Right(w, j)}
<1>1. 0 \in K
  <2>1. \A i \in a .. b : ~(i > b - 0)
    OBVIOUS
  <2>2. Right(gives, 0)
    BY <2>1
  <2> HIDE DEF Right
  <2> QED BY <2>2
<1>2. ASSUME NEW j \in K PROVE j + 1 \in K
  <2>1. PICK w : Right(w, j)
    OBVIOUS
  <2> DEFINE w1 == [i \in a .. b |-> Go(next, gives, b, w, i)]
  <2>2. ASSUME NEW i \in a .. b, i > b - (j + 1) PROVE w1[i] = Go(next, gives, b, w1, i)
    <3>1. CASE next[i] \in i + 1 .. b
      <4>1. next[i] \in a .. b /\ next[i] > b - j
        BY <2>2, <3>1
      <4>2. w[next[i]] = w1[next[i]]
        BY <2>1, <4>1
      <4> QED BY <4>2 DEF Go
    <3>2. CASE next[i] \notin i + 1 .. b
      BY <3>2 DEF Go
    <3> QED BY <3>1, <3>2
  <2>3. Right(w1, j + 1)
    BY <2>2
  <2> HIDE DEF Right
  <2> QED BY <2>3
<1> HIDE DEF Right, K
<1>3. b + 1 \in K
  <2> DEFINE L == {j \in Nat : j \notin K}
  <2>1. SUFFICES ASSUME b + 1 \notin K PROVE FALSE
    OBVIOUS
  <2>2. L \subseteq Nat /\ L # {}
    BY <2>1
  <2>3. PICK m \in L : \A y \in L : m <= y
    BY <2>2, MinIsLeast
  <2>4. m \in Nat /\ m # 0
    BY <1>1
  <2>5. m - 1 \in Nat /\ ~(m <= m - 1) /\ (m - 1) + 1 = m
    BY <2>4
  <2>6. m - 1 \in K
    BY <2>3, <2>5
  <2> QED BY <1>2, <2>5, <2>6
<1>4. PICK w : Right(w, b + 1)
  BY <1>3 DEF K
<1> DEFINE w1 == [i \in a .. b |-> w[i]]
<1>5. ASSUME NEW i \in a .. b PROVE w1[i] = Go(next, gives, b, w1, i)
  <2>1. w[i] = Go(next, gives, b, w, i)
    BY <1>4 DEF Right
  <2>2. CASE next[i] \in i + 1 .. b
    <3>1. next[i] \in a .. b
      BY <2>2
    <3> QED BY <2>1, <3>1 DEF Go
  <2>3. CASE next[i] \notin i + 1 .. b
    BY <2>1, <2>3 DEF Go
  <2> QED BY <2>2, <2>3
<1>6. w1 = [i \in a .. b |-> Go(next, gives, b, w1, i)]
  BY <1>5
<1> HIDE DEF w1
<1> QED BY <1>6 DEF Goes

\* the bytes at which a walk of page p takes a record that begins at chunk i to end
Ends(h, p, i) == {c \in i + CONTROL_COUNT .. Limit(p) - 1 : Standalone(h[c]) /\ h[c] # "headEnd"}

\* what a walk of page p takes from chunk i on; w is what it takes behind
WalkFrom(h, p, w, i) ==
    LET end == Min(Ends(h, p, i)) IN
    IF i = Limit(p)             THEN {}
    ELSE IF ~Allocated(h[i])    THEN w[i + 1]
    ELSE IF Ends(h, p, i) = {}  THEN {}
    ELSE (IF h[end] = "dataEnd" THEN {[addr |-> i, size |-> end - i - CONTROL_COUNT + 1]} ELSE {})
           \union w[end + 1]

\* w is the walk of page p
WalkOf(h, p, w) == w = [i \in First(p) .. Limit(p) |-> WalkFrom(h, p, w, i)]

\* Where a walk goes on behind a record is a later chunk of the page.
LEMMA EndsInPage ==
    ASSUME NEW h, NEW p \in Pages, NEW i \in First(p) .. Limit(p), NEW S,
           S \subseteq i + CONTROL_COUNT .. Limit(p) - 1, S # {}
    PROVE  Min(S) \in S /\ (\A y \in S : Min(S) <= y) /\ Min(S) + 1 \in i + 1 .. Limit(p)
<1>1. CONTROL_COUNT \in Nat \ {0} /\ First(p) \in Nat /\ Limit(p) \in Nat
  BY Counts, Geometry
<1>2. S \subseteq Nat
  BY <1>1
<1>3. Min(S) \in S /\ \A y \in S : Min(S) <= y
  BY <1>2, MinIsLeast
<1> DEFINE m == Min(S)
<1>4. m \in i + CONTROL_COUNT .. Limit(p) - 1
  BY <1>3
<1> HIDE DEF m
<1>5. m + 1 \in i + 1 .. Limit(p)
  BY <1>1, <1>4
<1> QED BY <1>3, <1>5 DEF m

\* The walk is what its definition says.
LEMMA WalkIsDefined ==
    ASSUME NEW h, NEW p \in Pages
    PROVE  \E w : WalkOf(h, p, w) /\ Walk(h, p) = w[First(p)]
<1> DEFINE a == First(p)
           b == Limit(p)
           next == [i \in a .. b |-> IF i = b THEN 0
                                     ELSE IF ~Allocated(h[i]) THEN i + 1
                                     ELSE IF Ends(h, p, i) = {} THEN 0
                                     ELSE Min(Ends(h, p, i)) + 1]
           gives == [i \in a .. b |->
                        IF i # b /\ Allocated(h[i]) /\ Ends(h, p, i) # {}
                             /\ h[Min(Ends(h, p, i))] = "dataEnd"
                        THEN {[addr |-> i, size |-> Min(Ends(h, p, i)) - i - CONTROL_COUNT + 1]}
                        ELSE {}]
<1>1. a \in Nat /\ b \in Nat /\ a = First(p) /\ b = Limit(p)
  BY Geometry
<1>2. ASSUME NEW w, NEW i \in a .. b PROVE WalkFrom(h, p, w, i) = Go(next, gives, b, w, i)
  <2>1. CASE i = b
    <3>1. next[i] = 0 /\ gives[i] = {} /\ 0 \notin i + 1 .. b
      BY <1>1, <2>1
    <3>2. WalkFrom(h, p, w, i) = {}
      BY <2>1 DEF WalkFrom
    <3> HIDE DEF next, gives
    <3> QED BY <3>1, <3>2 DEF Go
  <2>2. CASE i # b /\ ~Allocated(h[i])
    <3>1. next[i] = i + 1 /\ gives[i] = {} /\ i + 1 \in i + 1 .. b
      BY <1>1, <2>2
    <3>2. WalkFrom(h, p, w, i) = w[i + 1]
      BY <2>2 DEF WalkFrom
    <3> HIDE DEF next, gives
    <3> QED BY <3>1, <3>2 DEF Go
  <2>3. CASE i # b /\ Allocated(h[i]) /\ Ends(h, p, i) = {}
    <3>1. next[i] = 0 /\ gives[i] = {} /\ 0 \notin i + 1 .. b
      BY <1>1, <2>3
    <3>2. WalkFrom(h, p, w, i) = {}
      BY <2>3 DEF WalkFrom
    <3> HIDE DEF next, gives
    <3> QED BY <3>1, <3>2 DEF Go
  <2>4. CASE i # b /\ Allocated(h[i]) /\ Ends(h, p, i) # {}
    <3> DEFINE e == Min(Ends(h, p, i))
    <3>1. Ends(h, p, i) \subseteq i + CONTROL_COUNT .. Limit(p) - 1
      BY DEF Ends
    <3>2. e + 1 \in i + 1 .. b
      BY <2>4, <3>1, EndsInPage
    <3>3. next[i] = e + 1
      BY <2>4
    <3>4. gives[i] = IF h[e] = "dataEnd" THEN {[addr |-> i, size |-> e - i - CONTROL_COUNT + 1]} ELSE {}
      BY <2>4
    <3>5. WalkFrom(h, p, w, i) =
            (IF h[e] = "dataEnd" THEN {[addr |-> i, size |-> e - i - CONTROL_COUNT + 1]} ELSE {})
              \union w[e + 1]
      BY <1>1, <2>4 DEF WalkFrom
    <3> HIDE DEF e, next, gives
    <3> QED BY <3>2, <3>3, <3>4, <3>5 DEF Go
  <2> QED BY <2>1, <2>2, <2>3, <2>4
<1> HIDE DEF next, gives, a, b
<1>3. PICK v : Goes(next, gives, a, b, v)
  BY <1>1, WalkExists
<1>4. v = [i \in a .. b |-> WalkFrom(h, p, v, i)]
  BY <1>2, <1>3 DEF Goes
<1> DEFINE w == CHOOSE w : w = [i \in a .. b |-> WalkFrom(h, p, w, i)]
<1>5. w = [i \in a .. b |-> WalkFrom(h, p, w, i)]
  BY <1>4
<1>6. Walk(h, p) = w[a]
  BY DEF Walk, WalkFrom, Ends, a, b
<1> HIDE DEF w
<1> QED BY <1>1, <1>5, <1>6 DEF WalkOf

\* h is the hexmap of a page, p, of a key
Walked(st, p, h) ==
    /\ StoreType(st) /\ p \in Pages /\ PageOk(st, p) /\ st.page[p] \in Key
    /\ h = st.hex

\* Where a record may begin and the byte is not of a hole, a unit begins.
LEMMA UnitAt ==
    ASSUME NEW st, NEW p, NEW h, Walked(st, p, h), NEW i \in Own(p), Boundary(h, i), Allocated(h[i])
    PROVE  \E y \in Own(p) : Unit(h, i, y)
<1>1. PICK x, y \in Own(p) : x <= i /\ i <= y /\ Boundary(h, x) /\ Unit(h, x, y)
  BY DEF PageOk, Walked
<1>2. x \in Nat /\ y \in Nat /\ i \in Nat
  BY Geometry DEF Own, Walked
<1>3. i - 1 \notin x .. y - 1
  BY <1>1, <1>2, UnitBytes DEF Boundary
<1>4. x = i
  BY <1>1, <1>2, <1>3
<1> QED BY <1>1, <1>4

\* What a walk takes where a record may begin, and that it goes on where one may.
LEMMA WalkStep ==
    ASSUME NEW st, NEW p, NEW h, Walked(st, p, h),
           NEW w, WalkOf(h, p, w),
           NEW i \in Own(p), Boundary(h, i)
    PROVE  \/ ~Allocated(h[i]) /\ Boundary(h, i + 1) /\ w[i] = w[i + 1]
           \/ \E y \in Own(p) :
                /\ i < y /\ Unit(h, i, y) /\ Boundary(h, y + 1)
                /\ w[i] = {[addr |-> i, size |-> y - i - CONTROL_COUNT + 1]} \union w[y + 1]
<1>1. /\ First(p) \in Nat \ {0} /\ Limit(p) \in Nat /\ First(p) - 1 .. Limit(p) - 1 \subseteq Chunk
      /\ CONTROL_COUNT \in Nat \ {0} /\ h \in [Chunk -> Byte]
  BY Geometry, Counts DEF Walked, StoreType
<1>2. i \in First(p) .. Limit(p) /\ i # Limit(p) /\ i \in Chunk /\ i + 1 - 1 = i /\ i \in Nat
  BY <1>1 DEF Own
<1>3. w[i] = WalkFrom(h, p, w, i)
  BY <1>2 DEF WalkOf
<1>4. CASE ~Allocated(h[i])
  <2>1. w[i] = w[i + 1]
    BY <1>2, <1>3, <1>4 DEF WalkFrom
  <2>2. Boundary(h, i + 1)
    BY <1>2, <1>4 DEF Boundary, Allocated
  <2> QED BY <1>4, <2>1, <2>2
<1>5. CASE Allocated(h[i])
  <2>1. PICK y \in Own(p) : Unit(h, i, y)
    BY <1>5, UnitAt
  <2>2. y \in Nat /\ y < Limit(p) /\ i < y /\ i + CONTROL_COUNT <= y
    BY <1>1, <1>2, <2>1, UnitBytes DEF Own, Unit
  <2> DEFINE S == Ends(h, p, i)
  <2>3. S \subseteq i + CONTROL_COUNT .. Limit(p) - 1
    BY DEF Ends
  <2>4. y \in S
    BY <1>1, <1>2, <2>1, <2>2 DEF Ends, Unit, Standalone
  <2>5. \A c \in i + CONTROL_COUNT .. y - 1 : c \notin S
    BY <1>1, <1>2, <2>1, <2>2 DEF Ends, Unit, Standalone
  <2>6. Min(S) \in S /\ \A z \in S : Min(S) <= z
    BY <1>2, <2>1, <2>3, <2>4, EndsInPage DEF Walked
  <2> HIDE DEF S
  <2>7. Min(S) = y
    <3> DEFINE m == Min(S)
    <3>1. m \in S /\ m <= y /\ m \in i + CONTROL_COUNT .. Limit(p) - 1
      BY <2>3, <2>4, <2>6
    <3> HIDE DEF m
    <3>2. m \notin i + CONTROL_COUNT .. y - 1
      BY <2>5, <3>1
    <3>3. m = y
      BY <1>1, <1>2, <2>2, <3>1, <3>2
    <3> QED BY <3>3 DEF m
  <2>8. h[y] = "dataEnd" /\ S # {}
    BY <2>1, <2>4 DEF Unit
  <2>9. w[i] = {[addr |-> i, size |-> y - i - CONTROL_COUNT + 1]} \union w[y + 1]
    BY <1>2, <1>3, <1>5, <2>7, <2>8 DEF WalkFrom, S
  <2>10. Boundary(h, y + 1)
    BY <2>2, <2>8 DEF Boundary
  <2> QED BY <2>1, <2>2, <2>9, <2>10
<1> QED BY <1>4, <1>5

\* The walk of a page finds every unit that begins where a record may.
LEMMA WalkFinds ==
    ASSUME NEW st, NEW p, NEW h, Walked(st, p, h),
           NEW a \in Own(p), NEW d \in Own(p), Boundary(h, a), Unit(h, a, d)
    PROVE  [addr |-> a, size |-> d - a - CONTROL_COUNT + 1] \in Walk(h, p)
<1>1. /\ First(p) \in Nat \ {0} /\ Limit(p) \in Nat /\ a \in Nat /\ d \in Nat /\ d < Limit(p)
      /\ First(p) <= a /\ a < Limit(p)
  BY Geometry DEF Walked, Own
<1>2. PICK w : WalkOf(h, p, w) /\ Walk(h, p) = w[First(p)]
  BY WalkIsDefined DEF Walked
<1> DEFINE S == {i \in First(p) .. a : Boundary(h, i) /\ w[i] \subseteq w[First(p)]}
<1>3. S \subseteq 0 .. a
  BY <1>1
<1>4. First(p) \in S
  <2>1. h[First(p) - 1] = "dataEnd"
    BY DEF Walked, PageOk
  <2> QED BY <1>1, <2>1 DEF Boundary
<1>5. PICK m \in S : \A i \in S : i <= m
  BY <1>1, <1>3, <1>4, MaxIsGreatest
<1>6. m \in Nat /\ m <= a /\ First(p) <= m /\ m \in Own(p) /\ Boundary(h, m) /\ w[m] \subseteq w[First(p)]
  BY <1>1, <1>5 DEF Own
<1>7. a < d /\ \A c \in a .. d : Allocated(h[c])
  BY <1>1, UnitBytes
<1>8. CASE ~Allocated(h[m]) /\ Boundary(h, m + 1) /\ w[m] = w[m + 1]
  <2>1. m # a
    BY <1>1, <1>7, <1>8
  <2>2. m + 1 \in S /\ ~(m + 1 <= m)
    BY <1>1, <1>6, <1>8, <2>1
  <2> QED BY <1>5, <2>2
<1>9. CASE \E y \in Own(p) :
              /\ m < y /\ Unit(h, m, y) /\ Boundary(h, y + 1)
              /\ w[m] = {[addr |-> m, size |-> y - m - CONTROL_COUNT + 1]} \union w[y + 1]
  <2>1. PICK y \in Own(p) :
              /\ m < y /\ Unit(h, m, y) /\ Boundary(h, y + 1)
              /\ w[m] = {[addr |-> m, size |-> y - m - CONTROL_COUNT + 1]} \union w[y + 1]
    BY <1>9
  <2>2. y \in Nat
    BY <1>1 DEF Own
  <2>3. CASE a <= y
    <3>1. m = a /\ y = d
      <4>1. a \in Nat /\ d \in Nat /\ m \in Nat /\ y \in Nat /\ a <= a /\ a <= d /\ m <= a /\ a <= y
        BY <1>1, <1>6, <1>7, <2>2, <2>3
      <4>2. Unit(h, m, y) /\ Boundary(h, m)
        BY <1>6, <2>1
      <4> QED BY <4>1, <4>2, UnitsMeet
    <3> QED BY <1>2, <1>6, <2>1, <3>1
  <2>4. CASE y < a
    <3>1. y + 1 \in S /\ ~(y + 1 <= m)
      BY <1>1, <1>6, <2>1, <2>2, <2>4
    <3> QED BY <1>5, <3>1
  <2> QED BY <1>1, <2>2, <2>3, <2>4
<1>10. \/ ~Allocated(h[m]) /\ Boundary(h, m + 1) /\ w[m] = w[m + 1]
       \/ \E y \in Own(p) :
            /\ m < y /\ Unit(h, m, y) /\ Boundary(h, y + 1)
            /\ w[m] = {[addr |-> m, size |-> y - m - CONTROL_COUNT + 1]} \union w[y + 1]
  BY <1>2, <1>6, WalkStep
<1> QED BY <1>8, <1>9, <1>10

\* And what it finds are such units.
LEMMA WalkFindsUnits ==
    ASSUME NEW st, NEW p, NEW h, Walked(st, p, h), NEW x \in Walk(h, p)
    PROVE  /\ x \in [addr : Own(p), size : Int] /\ x.addr + CONTROL_COUNT + x.size - 1 \in Own(p)
           /\ Boundary(h, x.addr) /\ Unit(h, x.addr, x.addr + CONTROL_COUNT + x.size - 1)
<1>1. /\ First(p) \in Nat \ {0} /\ Limit(p) \in Nat /\ Limit(p) = First(p) + PageChunks - 1
      /\ PageChunks \in Nat \ {0} /\ CONTROL_COUNT \in Nat \ {0}
  BY Geometry, Counts DEF Walked
<1>2. PICK w : WalkOf(h, p, w) /\ Walk(h, p) = w[First(p)]
  BY WalkIsDefined DEF Walked
<1> DEFINE Right(z) == /\ z \in [addr : Own(p), size : Int] /\ z.addr + CONTROL_COUNT + z.size - 1 \in Own(p)
                       /\ Boundary(h, z.addr) /\ Unit(h, z.addr, z.addr + CONTROL_COUNT + z.size - 1)
           Bad == {i \in First(p) .. Limit(p) : Boundary(h, i) /\ \E z \in w[i] : ~Right(z)}
<1>3. SUFFICES Bad = {}
  <2>1. h[First(p) - 1] = "dataEnd"
    BY DEF Walked, PageOk
  <2>2. First(p) \in First(p) .. Limit(p)
    BY <1>1
  <2>3. First(p) \notin Bad => \A z \in w[First(p)] : Right(z)
    BY <2>1, <2>2 DEF Boundary
  <2> HIDE DEF Bad
  <2> QED BY <1>2, <2>3
<1>4. SUFFICES ASSUME Bad # {} PROVE FALSE
  OBVIOUS
<1>5. Bad \subseteq 0 .. Limit(p)
  BY <1>1
<1>6. PICK m \in Bad : \A i \in Bad : i <= m
  BY <1>1, <1>4, <1>5, MaxIsGreatest
<1>7. PICK z \in w[m] : ~Right(z)
  BY <1>6
<1>8. m \in First(p) .. Limit(p) /\ Boundary(h, m)
  BY <1>6
<1>9. m # Limit(p)
  <2>1. w[Limit(p)] = {}
    BY <1>1, <1>2 DEF WalkFrom, WalkOf
  <2> QED BY <1>7, <2>1
<1>10. m \in Own(p) /\ m \in Nat
  BY <1>1, <1>8, <1>9 DEF Own
<1>11. CASE ~Allocated(h[m]) /\ Boundary(h, m + 1) /\ w[m] = w[m + 1]
  <2>1. m + 1 \in First(p) .. Limit(p) /\ ~(m + 1 <= m)
    BY <1>1, <1>8, <1>9
  <2>2. m + 1 \in Bad
    BY <1>7, <1>11, <2>1
  <2> QED BY <1>6, <2>1, <2>2
<1>12. CASE \E y \in Own(p) :
              /\ m < y /\ Unit(h, m, y) /\ Boundary(h, y + 1)
              /\ w[m] = {[addr |-> m, size |-> y - m - CONTROL_COUNT + 1]} \union w[y + 1]
  <2>1. PICK y \in Own(p) :
              /\ m < y /\ Unit(h, m, y) /\ Boundary(h, y + 1)
              /\ w[m] = {[addr |-> m, size |-> y - m - CONTROL_COUNT + 1]} \union w[y + 1]
    BY <1>12
  <2>2. y \in Nat /\ y + 1 \in First(p) .. Limit(p) /\ ~(y + 1 <= m)
    BY <1>1, <1>10, <2>1 DEF Own
  <2>3. CASE z \in w[y + 1]
    <3>1. y + 1 \in Bad
      BY <1>7, <2>1, <2>2, <2>3
    <3> QED BY <1>6, <2>2, <3>1
  <2>4. CASE z = [addr |-> m, size |-> y - m - CONTROL_COUNT + 1]
    <3>1. m + CONTROL_COUNT + (y - m - CONTROL_COUNT + 1) - 1 = y /\ y - m - CONTROL_COUNT + 1 \in Int
      BY <1>1, <1>10, <2>2
    <3>2. Right(z)
      BY <1>8, <1>10, <2>1, <2>4, <3>1
    <3> QED BY <1>7, <3>2
  <2> QED BY <1>7, <2>1, <2>3, <2>4
<1>13. \/ ~Allocated(h[m]) /\ Boundary(h, m + 1) /\ w[m] = w[m + 1]
       \/ \E y \in Own(p) :
            /\ m < y /\ Unit(h, m, y) /\ Boundary(h, y + 1)
            /\ w[m] = {[addr |-> m, size |-> y - m - CONTROL_COUNT + 1]} \union w[y + 1]
  BY <1>2, <1>8, <1>10, WalkStep
<1> QED BY <1>11, <1>12, <1>13

\* Every record is found.
LEMMA RowFound ==
    ASSUME NEW st, NEW rs, NEW us, Sound(st, rs, us), NEW r \in rs
    PROVE  [addr |-> r.addr, size |-> r.size] \in Walk(st.hex, PageOf(r.addr))
<1> DEFINE h == st.hex
<1>1. /\ r \in [key : Key, addr : Nat \ {0}, size : Nat \ {0}, dead : BOOLEAN]
      /\ Last(r) \in Nat /\ Last(r) = r.addr + CONTROL_COUNT + r.size - 1 /\ r.addr < Last(r)
      /\ Unit(h, r.addr, Last(r))
  BY RowFacts
<1>2. PICK p \in Pages : st.page[p] = r.key /\ First(p) <= r.addr /\ Last(r) < Limit(p)
  BY RowFacts
<1>3. /\ First(p) \in Nat \ {0} /\ Limit(p) \in Nat /\ CONTROL_COUNT \in Nat
      /\ \A c \in First(p) - 1 .. Limit(p) - 1 : PageOf(c) = p
  BY Geometry, Counts
<1>4. PageOf(r.addr) = p
  BY <1>1, <1>2, <1>3
<1>5. Walked(st, p, h) /\ Boundary(h, r.addr)
  BY <1>1, <1>2 DEF Walked, Sound, RowOk
<1>6. r.addr \in Own(p) /\ Last(r) \in Own(p)
  BY <1>1, <1>2, <1>3 DEF Own
<1> DEFINE a == r.addr
           d == Last(r)
<1>7. a \in Own(p) /\ d \in Own(p) /\ Boundary(h, a) /\ Unit(h, a, d)
  BY <1>1, <1>5, <1>6
<1>8. d - a - CONTROL_COUNT + 1 = r.size
  BY <1>1, <1>3
<1> HIDE DEF a, d, h
<1>9. [addr |-> a, size |-> d - a - CONTROL_COUNT + 1] \in Walk(h, p)
  BY <1>5, <1>7, WalkFinds
<1> QED BY <1>4, <1>8, <1>9 DEF a, h

-----------------------------------------------------------------------------
(* TRUNCATE                                                                *)

\* What TRUNCATE collects are dead records, each with its own length.
LEMMA Collected ==
    ASSUME NEW us, Sound(store, rows, us), NEW k \in Key, NEW x \in DeadPointers(k)
    PROVE  \E r \in rows : r.key = k /\ r.dead /\ r.addr = x.addr /\ r.size = x.size
<1> DEFINE h == store.hex
<1>1. PICK p \in Pages : store.page[p] = k /\ x \in Walk(h, p)
  BY DEF DeadPointers, PagesOf
<1>2. PICK r \in rows : r.key = k /\ r.addr = x.addr /\ r.dead
  BY DEF DeadPointers
<1>3. /\ r \in [key : Key, addr : Nat \ {0}, size : Nat \ {0}, dead : BOOLEAN]
      /\ Last(r) \in Nat /\ Last(r) = r.addr + CONTROL_COUNT + r.size - 1 /\ r.addr < Last(r)
      /\ Unit(h, r.addr, Last(r))
  BY RowFacts
<1>4. Boundary(h, r.addr)
  BY <1>2 DEF Sound, RowOk
<1>5. Walked(store, p, h)
  BY <1>1 DEF Walked, Sound
<1> DEFINE y == x.addr + CONTROL_COUNT + x.size - 1
<1>6. x \in [addr : Own(p), size : Int] /\ y \in Own(p) /\ Boundary(h, x.addr) /\ Unit(h, x.addr, y)
  BY <1>1, <1>5, WalkFindsUnits
<1>7. /\ First(p) \in Nat \ {0} /\ Limit(p) \in Nat /\ CONTROL_COUNT \in Nat
  BY Geometry, Counts
<1>8. x.addr \in Nat /\ y \in Nat /\ x.size \in Int
  BY <1>6, <1>7 DEF Own
<1>9. y = Last(r)
  <2> DEFINE a == r.addr
             d == Last(r)
  <2>1. /\ a \in Nat /\ d \in Nat /\ y \in Nat /\ Unit(h, a, d) /\ Boundary(h, a) /\ Unit(h, a, y)
        /\ a <= a /\ a <= d
    BY <1>2, <1>3, <1>4, <1>6, <1>8
  <2>2. a <= y
    <3>1. a < y
      BY <2>1, UnitBytes
    <3> QED BY <2>1, <3>1
  <2> HIDE DEF a, d, y, h
  <2>3. y = d
    BY <2>1, <2>2, UnitsMeet
  <2> QED BY <2>3 DEF d
<1>10. x.size = r.size
  BY <1>2, <1>3, <1>7, <1>8, <1>9
<1> QED BY <1>2, <1>10

\* one step of FreeAll
FreeFrom(k, dead, f, c) ==
    LET here == {w \in dead : w.addr = c} IN
    IF c = MaxPages * PageChunks THEN store
    ELSE IF here = {}            THEN f[c + 1]
    ELSE FreePointer(f[c + 1], k, c, (CHOOSE w \in here : TRUE).size)

\* f is the loop of FreeAll, as a function of the chunk it has come to
FreesAll(k, dead, f) == f = [c \in 0 .. MaxPages * PageChunks |-> FreeFrom(k, dead, f, c)]

\* FreeAll is what its definition says.
LEMMA FreeAllIsDefined ==
    ASSUME NEW k, NEW dead
    PROVE  \E f : FreesAll(k, dead, f) /\ FreeAll(k, dead) = f[0]
<1> DEFINE b == MaxPages * PageChunks
<1>0. b \in Nat /\ b = MaxPages * PageChunks
  BY AllocatorAssumption
<1> HIDE DEF b
<1> DEFINE Right(f, j) == \A i \in 0 .. b : i > b - j => f[i] = FreeFrom(k, dead, f, i)
           K == {j \in Nat : \E f : Right(f, j)}
<1>1. 0 \in K
  <2>1. \A i \in 0 .. b : ~(i > b - 0)
    BY <1>0
  <2>2. Right(dead, 0)
    BY <2>1
  <2> HIDE DEF Right
  <2> QED BY <2>2
<1>2. ASSUME NEW j \in K PROVE j + 1 \in K
  <2>1. PICK f : Right(f, j)
    OBVIOUS
  <2> DEFINE f1 == [i \in 0 .. b |-> FreeFrom(k, dead, f, i)]
  <2>2. ASSUME NEW i \in 0 .. b, i > b - (j + 1) PROVE f1[i] = FreeFrom(k, dead, f1, i)
    <3>1. CASE i # b
      <4>1. i + 1 \in 0 .. b /\ i + 1 > b - j
        BY <1>0, <2>2, <3>1
      <4>2. f[i + 1] = f1[i + 1]
        BY <2>1, <4>1
      <4> QED BY <4>2 DEF FreeFrom
    <3>2. CASE i = b
      BY <1>0, <3>2 DEF FreeFrom
    <3> QED BY <3>1, <3>2
  <2>3. Right(f1, j + 1)
    BY <2>2
  <2> HIDE DEF Right
  <2> QED BY <2>3
<1> HIDE DEF Right, K
<1>3. b + 1 \in K
  <2> DEFINE L == {j \in Nat : j \notin K}
  <2>1. SUFFICES ASSUME b + 1 \notin K PROVE FALSE
    OBVIOUS
  <2>2. L \subseteq Nat /\ L # {}
    BY <1>0, <2>1
  <2>3. PICK m \in L : \A y \in L : m <= y
    BY <2>2, MinIsLeast
  <2>4. m \in Nat /\ m # 0
    BY <1>1
  <2>5. m - 1 \in Nat /\ ~(m <= m - 1) /\ (m - 1) + 1 = m
    BY <2>4
  <2>6. m - 1 \in K
    BY <2>3, <2>5
  <2> QED BY <1>2, <2>5, <2>6
<1>4. PICK f : Right(f, b + 1)
  BY <1>3 DEF K
<1> DEFINE f1 == [i \in 0 .. b |-> f[i]]
<1>5. ASSUME NEW i \in 0 .. b PROVE f1[i] = FreeFrom(k, dead, f1, i)
  <2>1. f[i] = FreeFrom(k, dead, f, i)
    BY <1>0, <1>4 DEF Right
  <2>2. CASE i # b
    <3>1. i + 1 \in 0 .. b
      BY <1>0, <2>2
    <3> QED BY <2>1, <3>1 DEF FreeFrom
  <2>3. CASE i = b
    BY <1>0, <2>1, <2>3 DEF FreeFrom
  <2> QED BY <2>2, <2>3
<1>6. f1 = [c \in 0 .. b |-> FreeFrom(k, dead, f1, c)]
  BY <1>5
<1> HIDE DEF f1
<1> DEFINE g == CHOOSE g : g = [c \in 0 .. b |-> FreeFrom(k, dead, g, c)]
<1>7. g = [c \in 0 .. b |-> FreeFrom(k, dead, g, c)]
  BY <1>6
<1>8. FreeAll(k, dead) = g[0]
  BY <1>0 DEF FreeAll, FreeFrom
<1> HIDE DEF g
<1> QED BY <1>0, <1>7, <1>8 DEF FreesAll

\* the dead records of k from chunk c on that were collected
Gone(k, dead, c) == {r \in rows : r.key = k /\ r.dead /\ r.addr >= c /\ \E x \in dead : x.addr = r.addr}

\* One turn of TRUNCATE's loop: what stands at chunk c is freed, if it was collected.
LEMMA FreeOneMore ==
    ASSUME NEW us, Sound(store, rows, us), NEW k \in Key,
           NEW dead, dead = DeadPointers(k), \A x \in dead : Tight(store, PageOf(x.addr)), NEW f, FreesAll(k, dead, f),
           NEW c \in Nat, c < MaxPages * PageChunks,
           Sound(f[c + 1], rows \ Gone(k, dead, c + 1), us), Whole(f[c + 1]), Keeps(store, f[c + 1])
    PROVE  Sound(f[c], rows \ Gone(k, dead, c), us) /\ Whole(f[c]) /\ Keeps(store, f[c])
<1> DEFINE b == MaxPages * PageChunks
           here == {w \in dead : w.addr = c}
<1>1. b \in Nat /\ c \in 0 .. b /\ c # b
  BY AllocatorAssumption
<1>2. f[c] = FreeFrom(k, dead, f, c)
  BY <1>1 DEF FreesAll
<1>3. \A r \in rows : r.addr \in Nat
  BY RowFacts
<1>4. CASE here = {}
  <2>1. f[c] = f[c + 1]
    BY <1>1, <1>2, <1>4 DEF FreeFrom
  <2>2. \A r \in rows : (\E x \in dead : x.addr = r.addr) => r.addr # c
    BY <1>4
  <2>3. Gone(k, dead, c) = Gone(k, dead, c + 1)
    BY <1>3, <2>2 DEF Gone
  <2> QED BY <2>1, <2>3
<1>5. CASE here # {}
  <2> DEFINE w == CHOOSE w \in here : TRUE
  <2>1. w \in here
    BY <1>5
  <2>2. f[c] = FreePointer(f[c + 1], k, c, w.size)
    BY <1>1, <1>2, <1>5 DEF FreeFrom
  <2> HIDE DEF w
  <2>3. w \in DeadPointers(k) /\ w.addr = c
    BY <2>1
  <2>4. PICK r \in rows : r.key = k /\ r.dead /\ r.addr = c /\ r.size = w.size
    BY <2>3, Collected
  <2>5. ASSUME NEW q \in rows, q.addr = c PROVE q = r
    <3>1. q.addr \in Body(q) /\ q.addr \in Body(r)
      <4>1. /\ Body(q) = q.addr .. Last(q) /\ q.addr < Last(q) /\ Last(q) \in Nat /\ q.addr \in Nat
            /\ Body(r) = r.addr .. Last(r) /\ r.addr < Last(r) /\ Last(r) \in Nat /\ r.addr \in Nat
        BY RowFacts
      <4> QED BY <2>4, <2>5, <4>1
    <3> QED BY <3>1 DEF Sound, Disjoint
  <2>6. Gone(k, dead, c) = Gone(k, dead, c + 1) \union {r}
    <3>1. r \in Gone(k, dead, c)
      BY <2>1, <2>4 DEF Gone
    <3>2. \A q \in rows : q.addr >= c <=> q.addr >= c + 1 \/ q.addr = c
      BY <1>3
    <3> QED BY <2>5, <3>1, <3>2 DEF Gone
  <2> DEFINE rs == rows \ Gone(k, dead, c + 1)
             st == f[c + 1]
             st2 == f[c]
  <2>7. r \in rs /\ rows \ Gone(k, dead, c) = rs \ {r}
    BY <1>3, <2>4, <2>6 DEF Gone
  <2>8. Sound(st, rs, us) /\ Whole(st) /\ st2 = FreePointer(st, r.key, r.addr, r.size)
    BY <2>2, <2>4
  <2> HIDE DEF rs, st, st2
  <2>10. Closed(st, PageOf(r.addr))
    <3>1. PICK p \in Pages : st.page[p] = r.key /\ First(p) <= r.addr /\ Last(r) < Limit(p)
      BY <2>7, <2>8, RowFacts
    <3>2. PageOf(r.addr) = p
      BY <2>7, <2>8, <3>1, RowPage
    <3>3. Tight(store, p)
      BY <2>1, <2>4, <3>2
    <3>4. st.page[p] \in Key /\ Keeps(store, st)
      BY <2>4, <3>1 DEF st
    <3>5. store.page[p] = st.page[p] /\ (Closed(store, p) => Closed(st, p))
      BY <3>4 DEF Keeps
    <3>6. Closed(store, p)
      BY <3>3, <3>4, <3>5, TightIsClosed
    <3> QED BY <3>2, <3>5, <3>6
  <2>9. Sound(st2, rs \ {r}, us) /\ Whole(st2) /\ Keeps(st, st2)
    BY <2>7, <2>8, <2>10, FreeKeeps
  <2>11. Keeps(store, st2)
    <3>1. Keeps(store, st)
      BY DEF st
    <3> QED BY <2>9, <3>1 DEF Keeps
  <2> QED BY <2>7, <2>9, <2>11 DEF st2
<1> QED BY <1>4, <1>5

\* TRUNCATE leaves the store sound, and its holes entire.
LEMMA TruncateKeeps ==
    ASSUME NEW us, Sound(store, rows, us), Whole(store),
           NEW k \in Key, NEW dead, dead = DeadPointers(k), \A x \in dead : Tight(store, PageOf(x.addr))
    PROVE  /\ Sound(FreeAll(k, dead), rows \ Gone(k, dead, 0), us)
           /\ Whole(FreeAll(k, dead))
<1> DEFINE b == MaxPages * PageChunks
<1>1. b \in Nat
  BY AllocatorAssumption
<1>2. PICK f : FreesAll(k, dead, f) /\ FreeAll(k, dead) = f[0]
  BY FreeAllIsDefined
<1> DEFINE Good(c) == Sound(f[c], rows \ Gone(k, dead, c), us) /\ Whole(f[c]) /\ Keeps(store, f[c])
           Bad == {c \in 0 .. b : ~Good(c)}
<1>3. Good(b)
  <2>1. f[b] = store
    BY <1>1, <1>2 DEF FreesAll, FreeFrom
  <2>2. ASSUME NEW r \in rows PROVE ~(r.addr >= b)
    <3>1. /\ Body(r) \subseteq Chunk /\ Body(r) = r.addr .. Last(r) /\ r.addr < Last(r)
          /\ Last(r) \in Nat /\ r.addr \in Nat
      BY RowFacts
    <3>2. r.addr \in Chunk
      BY <3>1
    <3> QED BY <1>1, <3>2 DEF Chunk
  <2>3. rows \ Gone(k, dead, b) = rows
    BY <2>2 DEF Gone
  <2>4. Keeps(store, store)
    BY DEF Keeps
  <2> QED BY <2>1, <2>3, <2>4
<1> HIDE DEF Good
<1>4. Bad = {}
  <2>1. SUFFICES ASSUME Bad # {} PROVE FALSE
    OBVIOUS
  <2>2. Bad \subseteq 0 .. b
    OBVIOUS
  <2>3. PICK m \in Bad : \A i \in Bad : i <= m
    BY <1>1, <2>1, <2>2, MaxIsGreatest
  <2>4. m \in Nat /\ m < b /\ ~(m + 1 <= m) /\ m + 1 \in 0 .. b /\ ~Good(m)
    <3>1. m \in 0 .. b /\ ~Good(m)
      BY <2>3
    <3>2. m # b
      BY <1>3, <3>1
    <3> QED BY <1>1, <3>1, <3>2
  <2>5. Good(m + 1)
    BY <2>3, <2>4
  <2>6. Good(m)
    BY <1>2, <2>4, <2>5, FreeOneMore DEF Good
  <2> QED BY <2>4, <2>6
<1>5. Good(0)
  <2>1. 0 \in 0 .. b
    BY <1>1
  <2> QED BY <1>4, <2>1
<1> QED BY <1>2, <1>5 DEF Good

-----------------------------------------------------------------------------
(* Start-up                                                                *)

\* where the hole at chunk i ends: at the byte that says so, or before one allocated
Stop(h, p, i) ==
    Min({c \in i .. Limit(p) - 1 : Allocated(h[c]) \/ h[c] = "freeEnd"} \union {Limit(p)})

\* the chunk behind that hole
Past(h, p, i) ==
    IF Stop(h, p, i) < Limit(p) /\ ~Allocated(h[Stop(h, p, i)])
    THEN Stop(h, p, i) + 1 ELSE Stop(h, p, i)

\* the bytes at which start-up takes a record that begins at chunk i to end
RecordEnds(h, p, i) == {c \in i + CONTROL_COUNT .. Limit(p) - 1 : Standalone(h[c])}

\* what start-up takes of page p from chunk i on; w is what it takes behind
HolesFrom(h, p, k, w, i) ==
    IF i = Limit(p) THEN {}
    ELSE IF ~Allocated(h[i]) THEN {Entry(k, i, Past(h, p, i) - i)} \union w[Past(h, p, i)]
    ELSE IF RecordEnds(h, p, i) = {} \/ h[Min(RecordEnds(h, p, i))] = "freeEnd" THEN {}
    ELSE w[Min(RecordEnds(h, p, i)) + 1]

\* w is the reading of page p at start-up
HolesOf(h, p, k, w) == w = [i \in First(p) .. Limit(p) |-> HolesFrom(h, p, k, w, i)]

\* Start-up goes on behind a hole at a later chunk, and the hole is all free.
LEMMA PastHole ==
    ASSUME NEW h, NEW p \in Pages, NEW i \in Own(p), ~Allocated(h[i])
    PROVE  /\ Past(h, p, i) \in i + 1 .. Limit(p)
           /\ \A c \in i .. Past(h, p, i) - 1 : ~Allocated(h[c])
           /\ \/ Past(h, p, i) = Limit(p)
              \/ Allocated(h[Past(h, p, i)])
              \/ h[Past(h, p, i) - 1] = "freeEnd"
<1> DEFINE S == {c \in i .. Limit(p) - 1 : Allocated(h[c]) \/ h[c] = "freeEnd"} \union {Limit(p)}
           m == Stop(h, p, i)
           n == Past(h, p, i)
<1>1. First(p) \in Nat \ {0} /\ Limit(p) \in Nat /\ i \in Nat /\ i < Limit(p)
  BY Geometry DEF Own
<1>2. S \subseteq Nat /\ S # {}
  BY <1>1
<1>3. m \in S /\ \A y \in S : m <= y
  BY <1>2, MinIsLeast DEF Stop
<1>4. n = IF m < Limit(p) /\ ~Allocated(h[m]) THEN m + 1 ELSE m
  BY DEF Past
<1> HIDE DEF m, n
<1>5. m \in i .. Limit(p)
  BY <1>1, <1>3
<1>6. ASSUME NEW c \in i .. m - 1 PROVE ~Allocated(h[c])
  <2>1. c \in i .. Limit(p) - 1 /\ ~(m <= c)
    BY <1>1, <1>5
  <2> QED BY <1>3, <2>1
<1>7. m < Limit(p) => Allocated(h[m]) \/ h[m] = "freeEnd"
  BY <1>1, <1>3
<1>8. CASE m < Limit(p) /\ ~Allocated(h[m])
  <2>1. n = m + 1 /\ n - 1 = m /\ n \in i + 1 .. Limit(p)
    BY <1>1, <1>4, <1>5, <1>8
  <2>2. \A c \in i .. n - 1 : c \in i .. m - 1 \/ c = m
    BY <1>1, <1>5, <2>1
  <2> QED BY <1>6, <1>7, <1>8, <2>1, <2>2 DEF n
<1>9. CASE ~(m < Limit(p) /\ ~Allocated(h[m]))
  <2>1. n = m /\ (m = Limit(p) \/ Allocated(h[m]))
    BY <1>1, <1>4, <1>5, <1>9
  <2>2. m # i
    BY <1>1, <2>1
  <2>3. n \in i + 1 .. Limit(p)
    BY <1>1, <1>5, <2>1, <2>2
  <2> QED BY <1>6, <2>1, <2>3 DEF n
<1> QED BY <1>8, <1>9

\* What start-up lists is what its definition says.
LEMMA HolesIsDefined ==
    ASSUME NEW h, NEW p \in Pages, NEW k
    PROVE  \E w : HolesOf(h, p, k, w) /\ Holes(h, p, k) = w[First(p)]
<1> DEFINE a == First(p)
           b == Limit(p)
           next == [i \in a .. b |->
                      IF i = b THEN 0
                      ELSE IF ~Allocated(h[i]) THEN Past(h, p, i)
                      ELSE IF RecordEnds(h, p, i) = {} \/ h[Min(RecordEnds(h, p, i))] = "freeEnd" THEN 0
                      ELSE Min(RecordEnds(h, p, i)) + 1]
           gives == [i \in a .. b |->
                       IF i # b /\ ~Allocated(h[i]) THEN {Entry(k, i, Past(h, p, i) - i)} ELSE {}]
<1>1. a \in Nat /\ b \in Nat /\ a = First(p) /\ b = Limit(p)
  BY Geometry
<1>2. ASSUME NEW w, NEW i \in a .. b PROVE HolesFrom(h, p, k, w, i) = Go(next, gives, b, w, i)
  <2>1. CASE i = b
    <3>1. next[i] = 0 /\ gives[i] = {} /\ 0 \notin i + 1 .. b
      BY <1>1, <2>1
    <3>2. HolesFrom(h, p, k, w, i) = {}
      BY <2>1 DEF HolesFrom
    <3> HIDE DEF next, gives
    <3> QED BY <3>1, <3>2 DEF Go
  <2>2. CASE i # b /\ ~Allocated(h[i])
    <3> DEFINE n == Past(h, p, i)
    <3>1. i \in Own(p)
      BY <1>1, <2>2 DEF Own
    <3>2. next[i] = n /\ gives[i] = {Entry(k, i, n - i)}
      BY <2>2
    <3>3. n \in i + 1 .. b
      BY <2>2, <3>1, PastHole
    <3>4. HolesFrom(h, p, k, w, i) = {Entry(k, i, n - i)} \union w[n]
      BY <2>2 DEF HolesFrom
    <3> HIDE DEF next, gives, n
    <3> QED BY <3>2, <3>3, <3>4 DEF Go
  <2> DEFINE S == RecordEnds(h, p, i)
             e == Min(S)
  <2>3. CASE i # b /\ Allocated(h[i]) /\ (S = {} \/ h[e] = "freeEnd")
    <3>1. next[i] = 0 /\ gives[i] = {} /\ 0 \notin i + 1 .. b
      BY <1>1, <2>3
    <3>2. HolesFrom(h, p, k, w, i) = {}
      BY <2>3 DEF HolesFrom
    <3> HIDE DEF next, gives
    <3> QED BY <3>1, <3>2 DEF Go
  <2>4. CASE i # b /\ Allocated(h[i]) /\ ~(S = {} \/ h[e] = "freeEnd")
    <3>1. S \subseteq i + CONTROL_COUNT .. Limit(p) - 1
      BY DEF RecordEnds
    <3>2. e + 1 \in i + 1 .. b
      BY <2>4, <3>1, EndsInPage
    <3>3. next[i] = e + 1 /\ gives[i] = {}
      BY <2>4
    <3>4. HolesFrom(h, p, k, w, i) = w[e + 1]
      BY <1>1, <2>4 DEF HolesFrom
    <3> HIDE DEF e, S, next, gives
    <3> QED BY <3>2, <3>3, <3>4 DEF Go
  <2> QED BY <2>1, <2>2, <2>3, <2>4
<1> HIDE DEF next, gives, a, b
<1>3. PICK v : Goes(next, gives, a, b, v)
  BY <1>1, WalkExists
<1>4. v = [i \in a .. b |-> HolesFrom(h, p, k, v, i)]
  BY <1>2, <1>3 DEF Goes
<1> DEFINE w == CHOOSE w : w = [i \in a .. b |-> HolesFrom(h, p, k, w, i)]
<1>5. w = [i \in a .. b |-> HolesFrom(h, p, k, w, i)]
  BY <1>4
<1>6. Holes(h, p, k) = w[a]
  BY DEF Holes, HolesFrom, RecordEnds, Past, Stop, a, b
<1> HIDE DEF w
<1> QED BY <1>1, <1>5, <1>6 DEF HolesOf

\* a free entry of k for free chunks of page p, from chunk i on
HoleIn(h, p, k, i, e) ==
    /\ e \in [key : {k}, addr : Nat, size : Nat \ {0}]
    /\ First(p) <= e.addr /\ i <= e.addr /\ e.addr + e.size <= Limit(p)
    /\ \A c \in Span(e) : ~Allocated(h[c])

\* What start-up takes at a chunk is a hole, and the others lie behind it.
LEMMA HoleStep ==
    ASSUME NEW h, NEW p \in Pages, NEW k, NEW i \in Own(p), ~Allocated(h[i]),
           NEW n, n = Past(h, p, i), NEW e, e = Entry(k, i, n - i)
    PROVE  /\ n \in i + 1 .. Limit(p) /\ Span(e) = i .. n - 1 /\ HoleIn(h, p, k, i, e)
           /\ e.addr = i /\ e.addr + e.size = n
<1>1. First(p) \in Nat \ {0} /\ Limit(p) \in Nat /\ i \in Nat /\ First(p) <= i
  BY Geometry DEF Own
<1>2. n \in i + 1 .. Limit(p) /\ \A c \in i .. n - 1 : ~Allocated(h[c])
  BY PastHole
<1>3. /\ e = [key |-> k, addr |-> i, size |-> n - i] /\ n \in Nat /\ n - i \in Nat \ {0}
      /\ i + (n - i) = n /\ i + (n - i) - 1 = n - 1 /\ n <= Limit(p)
  BY <1>1, <1>2 DEF Entry
<1>4. Span(e) = i .. n - 1
  BY <1>3 DEF Span
<1>5. e.addr = i /\ e.size = n - i /\ e.addr + e.size = n
  BY <1>3
<1>6. e \in [key : {k}, addr : Nat, size : Nat \ {0}]
  BY <1>1, <1>3
<1>7. First(p) <= e.addr /\ i <= e.addr /\ e.addr + e.size <= Limit(p)
  BY <1>1, <1>3, <1>5
<1>8. HoleIn(h, p, k, i, e)
  BY <1>2, <1>4, <1>6, <1>7 DEF HoleIn
<1> QED BY <1>2, <1>4, <1>5, <1>8

\* The entries start-up lists for a page are of free chunks and do not meet.
LEMMA HolesAre ==
    ASSUME NEW h, NEW p \in Pages, NEW k
    PROVE  /\ \A e \in Holes(h, p, k) : HoleIn(h, p, k, First(p), e)
           /\ \A e, f \in Holes(h, p, k) : e # f => \A c \in Span(e) : c \notin Span(f)
<1>1. First(p) \in Nat \ {0} /\ Limit(p) \in Nat /\ First(p) <= Limit(p)
  BY Geometry, Counts
<1>2. PICK w : HolesOf(h, p, k, w) /\ Holes(h, p, k) = w[First(p)]
  BY HolesIsDefined
<1> DEFINE Good(i) == /\ \A e \in w[i] : HoleIn(h, p, k, i, e)
                      /\ \A e, f \in w[i] : e # f => \A c \in Span(e) : c \notin Span(f)
           Bad == {i \in First(p) .. Limit(p) : ~Good(i)}
<1>3. ASSUME NEW i \in First(p) .. Limit(p), NEW n \in i + 1 .. Limit(p), Good(n)
      PROVE  \A e \in w[n] : HoleIn(h, p, k, i, e)
  <2>1. ASSUME NEW e \in w[n] PROVE HoleIn(h, p, k, i, e)
    <3>1. HoleIn(h, p, k, n, e)
      BY <1>3
    <3> QED BY <1>1, <3>1 DEF HoleIn
  <2> QED BY <2>1
<1>4. ASSUME NEW i \in First(p) .. Limit(p), \A n \in i + 1 .. Limit(p) : Good(n) PROVE Good(i)
  <2>1. w[i] = HolesFrom(h, p, k, w, i)
    BY <1>2 DEF HolesOf
  <2>2. CASE i = Limit(p) \/ (Allocated(h[i]) /\ (RecordEnds(h, p, i) = {} \/ h[Min(RecordEnds(h, p, i))] = "freeEnd"))
    <3>1. w[i] = {}
      BY <2>1, <2>2 DEF HolesFrom
    <3> QED BY <3>1
  <2>3. CASE i # Limit(p) /\ Allocated(h[i])
             /\ ~(RecordEnds(h, p, i) = {} \/ h[Min(RecordEnds(h, p, i))] = "freeEnd")
    <3> DEFINE S == RecordEnds(h, p, i)
               n == Min(S) + 1
    <3>1. w[i] = w[n]
      BY <2>1, <2>3 DEF HolesFrom
    <3>2. S # {} /\ S \subseteq i + CONTROL_COUNT .. Limit(p) - 1
      BY <2>3 DEF RecordEnds
    <3>3. n \in i + 1 .. Limit(p)
      BY <3>2, EndsInPage
    <3> HIDE DEF S, n
    <3>4. Good(n)
      BY <1>4, <3>3
    <3>5. \A e \in w[n] : HoleIn(h, p, k, i, e)
      BY <1>3, <3>3, <3>4
    <3> QED BY <3>1, <3>4, <3>5
  <2>4. CASE i # Limit(p) /\ ~Allocated(h[i])
    <3> DEFINE n == Past(h, p, i)
               e == Entry(k, i, n - i)
    <3>0. i \in Own(p)
      BY <1>1, <2>4 DEF Own
    <3>1. /\ n \in i + 1 .. Limit(p) /\ Span(e) = i .. n - 1 /\ HoleIn(h, p, k, i, e)
      BY <2>4, <3>0, HoleStep
    <3>2. w[i] = {e} \union w[n]
      BY <2>1, <2>4 DEF HolesFrom
    <3> HIDE DEF e, n
    <3>3. Good(n)
      BY <1>4, <3>1
    <3>4. \A f \in w[n] : HoleIn(h, p, k, i, f) /\ HoleIn(h, p, k, n, f)
      BY <1>3, <3>1, <3>3
    <3>5. ASSUME NEW f \in w[n], NEW c \in Span(f) PROVE c \notin Span(e)
      <4>1. n <= f.addr /\ f.addr \in Nat /\ f.size \in Nat /\ n \in Nat
        BY <1>1, <3>1, <3>4 DEF HoleIn
      <4>2. c \in f.addr .. f.addr + f.size - 1
        BY <3>5 DEF Span
      <4> QED BY <1>1, <3>1, <4>1, <4>2
    <3>6. \A f, g \in w[i] : f # g => \A c \in Span(f) : c \notin Span(g)
      BY <3>2, <3>3, <3>5
    <3>7. \A f \in w[i] : HoleIn(h, p, k, i, f)
      BY <3>1, <3>2, <3>4
    <3> QED BY <3>6, <3>7
  <2> QED BY <2>2, <2>3, <2>4
<1> HIDE DEF Good
<1>5. Bad = {}
  <2>1. SUFFICES ASSUME Bad # {} PROVE FALSE
    OBVIOUS
  <2>2. Bad \subseteq 0 .. Limit(p)
    BY <1>1
  <2>3. PICK m \in Bad : \A i \in Bad : i <= m
    BY <1>1, <2>1, <2>2, MaxIsGreatest
  <2>4. m \in First(p) .. Limit(p) /\ ~Good(m)
    BY <2>3
  <2>5. ASSUME NEW n \in m + 1 .. Limit(p) PROVE Good(n)
    <3>1. n \in First(p) .. Limit(p) /\ ~(n <= m)
      BY <1>1, <2>4
    <3> QED BY <2>3, <3>1
  <2> QED BY <1>4, <2>4, <2>5
<1>6. Good(First(p))
  <2>1. First(p) \in First(p) .. Limit(p)
    BY <1>1
  <2> QED BY <1>5, <2>1
<1> QED BY <1>2, <1>6 DEF Good

\* Two maximal runs that share a chunk are the same.
LEMMA RunsMeet ==
    ASSUME NEW h, NEW p \in Pages, NEW k,
           NEW e \in [key : {k}, addr : Nat \ {0}, size : Nat], NEW f \in [key : {k}, addr : Nat \ {0}, size : Nat],
           MaximalRun(h, p, e), MaximalRun(h, p, f), NEW c, c \in Span(e), c \in Span(f)
    PROVE  e = f
<1> DEFINE a == e.addr
           z == e.addr + e.size
           b == f.addr
           t == f.addr + f.size
<1>1. Limit(p) \in Nat
  BY Geometry
<1>2. /\ a \in Nat \ {0} /\ z \in Nat /\ Span(e) = a .. z - 1 /\ z <= Limit(p)
      /\ \A x \in Span(e) : ~Allocated(h[x])
      /\ Allocated(h[a - 1]) /\ (z = Limit(p) \/ Allocated(h[z]))
  BY DEF Span, MaximalRun
<1>3. /\ b \in Nat \ {0} /\ t \in Nat /\ Span(f) = b .. t - 1 /\ t <= Limit(p)
      /\ \A x \in Span(f) : ~Allocated(h[x])
      /\ Allocated(h[b - 1]) /\ (t = Limit(p) \/ Allocated(h[t]))
  BY DEF Span, MaximalRun
<1> HIDE DEF a, z, b, t
<1>4. a - 1 \notin Span(f) /\ b - 1 \notin Span(e)
  BY <1>2, <1>3
<1>5. a = b
  BY <1>2, <1>4, <1>3
<1>6. (z # Limit(p) => z \notin Span(f)) /\ (t # Limit(p) => t \notin Span(e))
  BY <1>2, <1>3
<1>7. z = t
  BY <1>1, <1>2, <1>5, <1>6, <1>3
<1>8. e.addr = f.addr /\ e.size = f.size
  BY <1>5, <1>7 DEF a, b, z, t
<1> QED BY <1>8

\* a hole, or a record, begins at chunk i, or the page ends there
Begins(h, p, i) == Boundary(h, i) /\ (Allocated(h[i - 1]) \/ i = Limit(p) \/ Allocated(h[i]))

\* One step of start-up: it takes a whole hole, or passes a whole record.
LEMMA HolesStep ==
    ASSUME NEW st, NEW p, NEW h, Walked(st, p, h), NEW k, NEW w, HolesOf(h, p, k, w),
           NEW i \in Own(p), Begins(h, p, i)
    PROVE  \/ \E n \in i + 1 .. Limit(p) :
                 /\ w[i] = {Entry(k, i, n - i)} \union w[n] /\ Begins(h, p, n)
                 /\ MaximalRun(h, p, Entry(k, i, n - i)) /\ Span(Entry(k, i, n - i)) = i .. n - 1
           \/ \E y \in Own(p) : i < y /\ Unit(h, i, y) /\ w[i] = w[y + 1] /\ Begins(h, p, y + 1)
<1>1. /\ First(p) \in Nat \ {0} /\ Limit(p) \in Nat /\ First(p) - 1 .. Limit(p) - 1 \subseteq Chunk
      /\ CONTROL_COUNT \in Nat \ {0} /\ h \in [Chunk -> Byte] /\ p \in Pages
  BY Geometry, Counts DEF Walked, StoreType
<1>2. i \in First(p) .. Limit(p) /\ i # Limit(p) /\ i \in Nat
  BY <1>1 DEF Own
<1>3. w[i] = HolesFrom(h, p, k, w, i)
  BY <1>2 DEF HolesOf
<1>4. CASE ~Allocated(h[i])
  <2> DEFINE n == Past(h, p, i)
             e == Entry(k, i, n - i)
  <2>1. w[i] = {e} \union w[n]
    BY <1>2, <1>3, <1>4 DEF HolesFrom
  <2>2. /\ n \in i + 1 .. Limit(p) /\ \A c \in i .. n - 1 : ~Allocated(h[c])
        /\ n = Limit(p) \/ Allocated(h[n]) \/ h[n - 1] = "freeEnd"
    BY <1>1, <1>4, PastHole
  <2>3. Span(e) = i .. n - 1 /\ e.addr = i /\ e.addr + e.size = n
    BY <1>1, <1>4, HoleStep
  <2> HIDE DEF n, e
  <2>4. n - 1 \in Own(p) /\ n - 1 \in i .. n - 1 /\ n - 1 + 1 = n /\ n \in Nat
    BY <1>1, <1>2, <2>2 DEF Own
  <2>5. n = Limit(p) \/ Allocated(h[n])
    <3>1. CASE h[n - 1] = "freeEnd"
      <4>1. n - 1 = Limit(p) - 1 \/ Allocated(h[n - 1 + 1])
        BY <2>4, <3>1 DEF Walked, PageOk
      <4> QED BY <1>1, <2>4, <4>1
    <3> QED BY <2>2, <3>1
  <2>6. Allocated(h[i - 1])
    BY <1>2, <1>4 DEF Begins
  <2>7. MaximalRun(h, p, e)
    BY <1>1, <2>2, <2>3, <2>5, <2>6 DEF MaximalRun
  <2>8. Boundary(h, n)
    BY <2>2, <2>4 DEF Boundary, Allocated
  <2>9. Begins(h, p, n)
    BY <2>5, <2>8 DEF Begins
  <2> QED BY <2>1, <2>2, <2>3, <2>7, <2>9 DEF e
<1>5. CASE Allocated(h[i])
  <2>1. PICK y \in Own(p) : Unit(h, i, y)
    BY <1>5, UnitAt DEF Begins
  <2>2. y \in Nat /\ y < Limit(p) /\ i < y /\ i + CONTROL_COUNT <= y
    BY <1>1, <1>2, <2>1, UnitBytes DEF Own, Unit
  <2> DEFINE S == RecordEnds(h, p, i)
  <2>3. S \subseteq i + CONTROL_COUNT .. Limit(p) - 1
    BY DEF RecordEnds
  <2>4. y \in S
    BY <1>1, <1>2, <2>1, <2>2 DEF RecordEnds, Unit, Standalone
  <2>5. \A c \in i + CONTROL_COUNT .. y - 1 : c \notin S
    BY <1>1, <1>2, <2>1, <2>2 DEF RecordEnds, Unit, Standalone
  <2>6. Min(S) \in S /\ \A z \in S : Min(S) <= z
    BY <1>1, <1>2, <2>3, <2>4, EndsInPage
  <2> HIDE DEF S
  <2>7. Min(S) = y
    <3> DEFINE m == Min(S)
    <3>1. m \in S /\ m <= y /\ m \in i + CONTROL_COUNT .. Limit(p) - 1
      BY <2>3, <2>4, <2>6
    <3> HIDE DEF m
    <3>2. m \notin i + CONTROL_COUNT .. y - 1
      BY <2>5, <3>1
    <3>3. m = y
      BY <1>1, <1>2, <2>2, <3>1, <3>2
    <3> QED BY <3>3 DEF m
  <2>8. h[y] = "dataEnd" /\ S # {}
    BY <2>1, <2>4 DEF Unit
  <2>9. w[i] = w[y + 1]
    BY <1>2, <1>3, <1>5, <2>7, <2>8 DEF HolesFrom, S
  <2>10. Begins(h, p, y + 1)
    BY <2>2, <2>8 DEF Begins, Boundary, Allocated
  <2> QED BY <2>1, <2>2, <2>9, <2>10
<1> QED BY <1>4, <1>5

\* What start-up lists of a page are maximal runs.
LEMMA HolesAreMaximal ==
    ASSUME NEW st, NEW p, NEW h, Walked(st, p, h), NEW k, NEW x \in Holes(h, p, k)
    PROVE  MaximalRun(h, p, x)
<1>1. First(p) \in Nat \ {0} /\ Limit(p) \in Nat /\ First(p) <= Limit(p) /\ p \in Pages
  BY Geometry, Counts DEF Walked
<1>2. PICK w : HolesOf(h, p, k, w) /\ Holes(h, p, k) = w[First(p)]
  BY <1>1, HolesIsDefined
<1> DEFINE Good(i) == Begins(h, p, i) => \A e \in w[i] : MaximalRun(h, p, e)
           Bad == {i \in First(p) .. Limit(p) : ~Good(i)}
<1>3. ASSUME NEW i \in First(p) .. Limit(p), \A n \in i + 1 .. Limit(p) : Good(n) PROVE Good(i)
  <2>1. CASE i = Limit(p)
    <3>1. w[i] = {}
      BY <1>2, <2>1 DEF HolesOf, HolesFrom
    <3> QED BY <3>1
  <2>2. CASE i # Limit(p)
    <3>1. SUFFICES ASSUME Begins(h, p, i) PROVE \A e \in w[i] : MaximalRun(h, p, e)
      OBVIOUS
    <3>2. i \in Own(p)
      BY <1>1, <2>2 DEF Own
    <3>3. CASE \E n \in i + 1 .. Limit(p) :
                 /\ w[i] = {Entry(k, i, n - i)} \union w[n] /\ Begins(h, p, n)
                 /\ MaximalRun(h, p, Entry(k, i, n - i)) /\ Span(Entry(k, i, n - i)) = i .. n - 1
      BY <1>3, <3>3
    <3>4. CASE \E y \in Own(p) : i < y /\ Unit(h, i, y) /\ w[i] = w[y + 1] /\ Begins(h, p, y + 1)
      <4>1. PICK y \in Own(p) : i < y /\ w[i] = w[y + 1] /\ Begins(h, p, y + 1)
        BY <3>4
      <4>2. y + 1 \in i + 1 .. Limit(p)
        BY <1>1, <4>1 DEF Own
      <4> QED BY <1>3, <4>1, <4>2
    <3> QED BY <1>2, <3>1, <3>2, <3>3, <3>4, HolesStep
  <2> QED BY <2>1, <2>2
<1> HIDE DEF Good
<1>4. Bad = {}
  <2>1. SUFFICES ASSUME Bad # {} PROVE FALSE
    OBVIOUS
  <2>2. Bad \subseteq 0 .. Limit(p)
    BY <1>1
  <2>3. PICK m \in Bad : \A i \in Bad : i <= m
    BY <1>1, <2>1, <2>2, MaxIsGreatest
  <2>4. m \in First(p) .. Limit(p) /\ ~Good(m)
    BY <2>3
  <2>5. ASSUME NEW n \in m + 1 .. Limit(p) PROVE Good(n)
    <3>1. n \in First(p) .. Limit(p) /\ ~(n <= m)
      BY <1>1, <2>4
    <3> QED BY <2>3, <3>1
  <2> QED BY <1>3, <2>4, <2>5
<1>5. Good(First(p))
  <2>1. First(p) \in First(p) .. Limit(p)
    BY <1>1
  <2> QED BY <1>4, <2>1
<1>6. Begins(h, p, First(p))
  <2>1. h[First(p) - 1] = "dataEnd"
    BY DEF Walked, PageOk
  <2> QED BY <2>1 DEF Begins, Boundary, Allocated
<1> QED BY <1>2, <1>5, <1>6 DEF Good

\* And they leave no free chunk of it out.
LEMMA HolesCover ==
    ASSUME NEW st, NEW p, NEW h, Walked(st, p, h), NEW k, NEW c \in Own(p), ~Allocated(h[c])
    PROVE  \E e \in Holes(h, p, k) : c \in Span(e)
<1>1. /\ First(p) \in Nat \ {0} /\ Limit(p) \in Nat /\ p \in Pages
      /\ c \in Nat /\ First(p) <= c /\ c < Limit(p)
  BY Geometry DEF Walked, Own
<1>2. PICK w : HolesOf(h, p, k, w) /\ Holes(h, p, k) = w[First(p)]
  BY <1>1, HolesIsDefined
<1> DEFINE S == {i \in First(p) .. c : Begins(h, p, i) /\ w[i] \subseteq w[First(p)]}
<1>3. S \subseteq 0 .. c
  BY <1>1
<1>4. First(p) \in S
  <2>1. h[First(p) - 1] = "dataEnd"
    BY DEF Walked, PageOk
  <2>2. Begins(h, p, First(p))
    BY <2>1 DEF Begins, Boundary, Allocated
  <2> QED BY <1>1, <2>2
<1>5. PICK m \in S : \A i \in S : i <= m
  BY <1>1, <1>3, <1>4, MaxIsGreatest
<1>6. m \in Nat /\ m <= c /\ First(p) <= m /\ m \in Own(p) /\ Begins(h, p, m) /\ w[m] \subseteq w[First(p)]
  BY <1>1, <1>5 DEF Own
<1>7. CASE \E n \in m + 1 .. Limit(p) :
             /\ w[m] = {Entry(k, m, n - m)} \union w[n] /\ Begins(h, p, n)
             /\ MaximalRun(h, p, Entry(k, m, n - m)) /\ Span(Entry(k, m, n - m)) = m .. n - 1
  <2>1. PICK n \in m + 1 .. Limit(p) :
             /\ w[m] = {Entry(k, m, n - m)} \union w[n] /\ Begins(h, p, n)
             /\ Span(Entry(k, m, n - m)) = m .. n - 1
    BY <1>7
  <2>2. CASE c < n
    <3>1. c \in m .. n - 1
      BY <1>1, <1>6, <2>2
    <3> QED BY <1>2, <1>6, <2>1, <3>1
  <2>3. CASE n <= c
    <3>1. n \in S /\ ~(n <= m)
      BY <1>1, <1>6, <2>1, <2>3
    <3> QED BY <1>5, <3>1
  <2> QED BY <1>1, <1>6, <2>2, <2>3
<1>8. CASE \E y \in Own(p) : m < y /\ Unit(h, m, y) /\ w[m] = w[y + 1] /\ Begins(h, p, y + 1)
  <2>1. PICK y \in Own(p) : m < y /\ Unit(h, m, y) /\ w[m] = w[y + 1] /\ Begins(h, p, y + 1)
    BY <1>8
  <2>2. y \in Nat
    BY <1>1 DEF Own
  <2>3. c \notin m .. y
    BY <1>6, <2>1, <2>2, UnitBytes
  <2>4. y + 1 \in S /\ ~(y + 1 <= m)
    BY <1>1, <1>6, <2>1, <2>2, <2>3
  <2> QED BY <1>5, <2>4
<1>9. \/ \E n \in m + 1 .. Limit(p) :
             /\ w[m] = {Entry(k, m, n - m)} \union w[n] /\ Begins(h, p, n)
             /\ MaximalRun(h, p, Entry(k, m, n - m)) /\ Span(Entry(k, m, n - m)) = m .. n - 1
      \/ \E y \in Own(p) : m < y /\ Unit(h, m, y) /\ w[m] = w[y + 1] /\ Begins(h, p, y + 1)
  BY <1>2, <1>6, HolesStep
<1> QED BY <1>7, <1>8, <1>9

\* entries of k for maximal runs of page p, that leave no free chunk out
Runs(h, p, k, l) ==
    /\ \A e \in l : /\ e \in [key : {k}, addr : Nat \ {0}, size : Nat \ {0}]
                    /\ First(p) <= e.addr /\ MaximalRun(h, p, e)
    /\ \A c \in Own(p) : ~Allocated(h[c]) => \E e \in l : c \in Span(e)

\* Such are all the runs there are.
LEMMA RunsAreFreeRuns ==
    ASSUME NEW h, NEW p \in Pages, NEW k, NEW l, Runs(h, p, k, l)
    PROVE  l = FreeRuns(h, p, k)
<1>1. /\ First(p) \in Nat \ {0} /\ Limit(p) \in Nat /\ Limit(p) = First(p) + PageChunks - 1
      /\ PageChunks \in Nat \ {0}
  BY Geometry, Counts
<1>2. ASSUME NEW e \in l PROVE e \in FreeRuns(h, p, k)
  <2>1. /\ e \in [key : {k}, addr : Nat \ {0}, size : Nat \ {0}]
        /\ First(p) <= e.addr /\ MaximalRun(h, p, e)
    BY DEF Runs
  <2>2. e.addr + e.size <= Limit(p)
    BY <2>1 DEF MaximalRun
  <2>3. e.addr \in First(p) .. Limit(p) - 1 /\ e.size \in 1 .. PageChunks - 1
    BY <1>1, <2>1, <2>2
  <2>4. e = Entry(k, e.addr, e.size)
    BY <2>1 DEF Entry
  <2> QED BY <2>1, <2>3, <2>4 DEF FreeRuns
<1>3. ASSUME NEW f \in FreeRuns(h, p, k) PROVE f \in l
  <2>1. PICK a \in First(p) .. Limit(p) - 1, n \in 1 .. PageChunks - 1 : f = Entry(k, a, n)
    BY DEF FreeRuns
  <2>2. MaximalRun(h, p, f)
    BY DEF FreeRuns
  <2>3. f \in [key : {k}, addr : Nat \ {0}, size : Nat] /\ f.addr = a /\ f.size = n /\ n \in Nat \ {0} /\ a \in Nat
    BY <1>1, <2>1 DEF Entry
  <2>4. a \in Span(f) /\ a \in Own(p)
    BY <2>1, <2>3 DEF Span, Own
  <2>5. PICK e \in l : a \in Span(e)
    BY <2>2, <2>4 DEF Runs, MaximalRun
  <2>6. e \in [key : {k}, addr : Nat \ {0}, size : Nat] /\ MaximalRun(h, p, e)
    BY DEF Runs
  <2>7. e = f
    BY <2>2, <2>3, <2>4, <2>5, <2>6, RunsMeet
  <2> QED BY <2>7
<1> QED BY <1>2, <1>3

\* Start-up lists the free runs of the page.
LEMMA HolesAreFreeRuns ==
    ASSUME NEW st, NEW p, NEW h, Walked(st, p, h), NEW k
    PROVE  Holes(h, p, k) = FreeRuns(h, p, k)
<1>1. p \in Pages /\ First(p) \in Nat \ {0}
  BY Geometry DEF Walked
<1>2. ASSUME NEW e \in Holes(h, p, k)
      PROVE  e \in [key : {k}, addr : Nat \ {0}, size : Nat \ {0}] /\ First(p) <= e.addr
  <2>1. HoleIn(h, p, k, First(p), e)
    BY <1>1, HolesAre
  <2>2. e.addr # 0
    BY <1>1, <2>1 DEF HoleIn
  <2> QED BY <2>1, <2>2 DEF HoleIn
<1>3. \A e \in Holes(h, p, k) : MaximalRun(h, p, e)
  BY HolesAreMaximal
<1>4. \A c \in Own(p) : ~Allocated(h[c]) => \E e \in Holes(h, p, k) : c \in Span(e)
  BY HolesCover
<1>5. Runs(h, p, k, Holes(h, p, k))
  BY <1>2, <1>3, <1>4 DEF Runs
<1> QED BY <1>1, <1>5, RunsAreFreeRuns

\* The entries of a page whose holes are entire are its free runs.
LEMMA ClosedIsListed ==
    ASSUME NEW st, NEW rs, NEW us, Sound(st, rs, us), NEW p \in Pages, Closed(st, p),
           st.page[p] \in Key
    PROVE  Listed(st, p) = FreeRuns(st.hex, p, st.page[p])
<1> DEFINE h == st.hex
           k == st.page[p]
           l == Listed(st, p)
<1>1. /\ First(p) \in Nat \ {0} /\ Limit(p) \in Nat /\ \A c \in First(p) - 1 .. Limit(p) - 1 : PageOf(c) = p
      /\ First(p) - 1 .. Limit(p) - 1 \subseteq Chunk
  BY Geometry
<1>2. ASSUME NEW e \in st.list, e.size > 0
      PROVE  /\ e \in [key : Key, addr : Nat \ {0}, size : Nat \ {0}]
             /\ \A c \in Span(e) : c \in Own(p) => e.addr \in Own(p)
             /\ PageOf(e.addr) = p => e.addr \in Own(p) /\ e.key = k
             /\ e.addr \in Own(p) => PageOf(e.addr) = p
  <2>1. e \in [key : Key, addr : Nat \ {0}, size : Nat \ {0}] /\ Span(e) = e.addr .. e.addr + e.size - 1
    BY <1>2, EntryFacts
  <2>2. PICK g \in Pages : st.page[g] = e.key /\ First(g) <= e.addr /\ e.addr + e.size <= Limit(g)
    BY <1>2, EntryFacts
  <2>3. First(g) \in Nat \ {0} /\ Limit(g) \in Nat /\ \A c \in First(g) - 1 .. Limit(g) - 1 : PageOf(c) = g
    BY Geometry
  <2>4. /\ e.addr \in First(g) .. Limit(g) - 1 /\ e.addr \in First(g) - 1 .. Limit(g) - 1
        /\ \A c \in Span(e) : c \in First(g) - 1 .. Limit(g) - 1
    BY <2>1, <2>2, <2>3
  <2>5. PageOf(e.addr) = g /\ \A c \in Span(e) : PageOf(c) = g
    BY <2>3, <2>4
  <2>6. \A c \in Own(p) : PageOf(c) = p
    BY <1>1 DEF Own
  <2> QED BY <2>1, <2>2, <2>4, <2>5, <2>6 DEF Own
<1>3. ASSUME NEW e \in l
      PROVE  /\ e \in [key : {k}, addr : Nat \ {0}, size : Nat \ {0}]
             /\ First(p) <= e.addr /\ MaximalRun(h, p, e)
  <2>1. e \in st.list /\ e.size > 0 /\ PageOf(e.addr) = p
    BY DEF Listed
  <2>2. e \in [key : Key, addr : Nat \ {0}, size : Nat \ {0}] /\ e.addr \in Own(p) /\ e.key = k
    BY <1>2, <2>1
  <2>3. MaximalRun(h, p, e)
    BY <2>1, <2>2 DEF Closed
  <2> QED BY <1>1, <2>2, <2>3 DEF Own
<1>4. ASSUME NEW c \in Own(p), ~Allocated(h[c]) PROVE \E e \in l : c \in Span(e)
  <2>1. PICK e \in st.list : c \in Span(e)
    BY <1>4 DEF Closed
  <2>2. e.size > 0
    BY <2>1 DEF Sound, StoreType, Span
  <2>3. PageOf(e.addr) = p
    BY <1>2, <2>1, <2>2
  <2> QED BY <2>1, <2>2, <2>3 DEF Listed
<1>5. Runs(h, p, k, l)
  BY <1>3, <1>4 DEF Runs
<1> HIDE DEF h, k, l
<1>6. l = FreeRuns(h, p, k)
  BY <1>5, RunsAreFreeRuns
<1> QED BY <1>6 DEF h, k, l

\* st2 is st opened again
Reopened(st, st2) ==
    st2 = [st EXCEPT !.list = UNION {Holes(st.hex, p, st.page[p]) : p \in {q \in Pages : st.page[q] \in Key}}]

\* The free list after start-up is what was read of the pages that have a key.
LEMMA ReopenedList ==
    ASSUME NEW st, StoreType(st), NEW st2, Reopened(st, st2), NEW e
    PROVE  e \in st2.list <=> \E p \in Pages : st.page[p] \in Key /\ e \in Holes(st.hex, p, st.page[p])
BY DEF Reopened, StoreType

\* A restart leaves the store sound, with nobody waiting, and its holes entire.
LEMMA RestartKeeps ==
    ASSUME NEW st, NEW rs, NEW us, Sound(st, rs, us), Whole(st), NEW st2, Reopened(st, st2)
    PROVE  Sound(st2, rs, {}) /\ Whole(st2)
<1> DEFINE h == st.hex
<1>1. StoreType(st) /\ st2.hex = h /\ st2.page = st.page
  BY DEF Sound, StoreType, Reopened
<1>2. ASSUME NEW e \in st2.list
      PROVE  \E p \in Pages : /\ st.page[p] \in Key /\ e \in Holes(h, p, st.page[p])
                              /\ HoleIn(h, p, st.page[p], First(p), e)
  <2>1. PICK p \in Pages : st.page[p] \in Key /\ e \in Holes(h, p, st.page[p])
    BY <1>1, ReopenedList
  <2>2. HoleIn(h, p, st.page[p], First(p), e)
    BY <2>1, HolesAre
  <2> QED BY <2>1, <2>2
<1>3. \A e \in st2.list : e \in [key : Key, addr : Nat, size : Nat]
  BY <1>2 DEF HoleIn
<1>4. StoreType(st2)
  <2>1. st2 = [hex |-> h, page |-> st.page, list |-> st2.list]
    BY <1>1 DEF StoreType, Reopened
  <2> HIDE DEF Reopened
  <2> QED BY <1>1, <1>3, <2>1 DEF StoreType
<1>5. \A p \in Pages : PageOk(st, p) /\ PageOk(st2, p)
  BY <1>1 DEF Sound, PageOk
<1>6. \A r \in rs : RowOk(st2, r)
  BY <1>1 DEF Sound, RowOk, InPage
<1>7. ASSUME NEW e \in st2.list PROVE EntryOk(st2, e)
  <2>1. PICK p \in Pages : st.page[p] \in Key /\ HoleIn(h, p, st.page[p], First(p), e)
    BY <1>2
  <2>2. /\ e \in [key : {st.page[p]}, addr : Nat, size : Nat \ {0}]
        /\ First(p) <= e.addr /\ e.addr + e.size <= Limit(p)
        /\ \A c \in Span(e) : ~Allocated(h[c])
    BY <2>1 DEF HoleIn
  <2>3. InPage(st2, e.key, e.addr, e.size)
    BY <1>1, <2>2 DEF InPage
  <2>4. Boundary(h, e.addr)
    <3>1. First(p) \in Nat /\ Limit(p) \in Nat
      BY Geometry
    <3>2. e.addr \in Own(p) /\ e.addr \in Span(e)
      BY <2>2, <3>1 DEF Own, Span
    <3>3. h \in [Chunk -> Byte]
      BY <1>1 DEF StoreType
    <3> QED BY <1>5, <2>1, <2>2, <3>2, <3>3, FreeIsBoundary
  <2> QED BY <1>1, <2>2, <2>3, <2>4 DEF EntryOk
<1>8. ASSUME NEW e \in st2.list, NEW f \in st2.list, e # f, NEW c \in Span(e) PROVE c \notin Span(f)
  <2>1. PICK p \in Pages : /\ st.page[p] \in Key /\ e \in Holes(h, p, st.page[p])
                           /\ HoleIn(h, p, st.page[p], First(p), e)
    BY <1>2
  <2>2. PICK q \in Pages : /\ st.page[q] \in Key /\ f \in Holes(h, q, st.page[q])
                           /\ HoleIn(h, q, st.page[q], First(q), f)
    BY <1>2
  <2>3. CASE p = q
    BY <1>8, <2>1, <2>2, <2>3, HolesAre
  <2>4. CASE p # q
    <3>1. /\ First(p) \in Nat \ {0} /\ Limit(p) \in Nat /\ First(q) \in Nat \ {0} /\ Limit(q) \in Nat
      BY Geometry
    <3>2. c \in First(p) - 1 .. Limit(p) - 1
      BY <1>8, <2>1, <3>1 DEF HoleIn, Span
    <3>3. c \in Span(f) => c \in First(q) - 1 .. Limit(q) - 1
      BY <2>2, <3>1 DEF HoleIn, Span
    <3> QED BY <2>4, <3>2, <3>3, OnePage
  <2> QED BY <2>3, <2>4
<1>9. Disjoint(st2, rs, {})
  BY <1>8 DEF Sound, Disjoint
<1>10. Sound(st2, rs, {})
  BY <1>4, <1>5, <1>6, <1>7, <1>9 DEF Sound
<1>11. ASSUME NEW q \in Pages PROVE Entire(st2, q)
  <2>1. SUFFICES ASSUME st.page[q] \in Key \ Updated PROVE Entire(st2, q)
    BY <1>1 DEF Entire
  <2> DEFINE k == st.page[q]
  <2>0. Entire(st, q)
    BY DEF Whole
  <2>2. Walked(st, q, h) /\ Closed(st, q)
    BY <1>1, <1>5, <2>0, <2>1 DEF Walked, Entire
  <2>3. Holes(h, q, k) = FreeRuns(h, q, k) /\ Listed(st, q) = FreeRuns(h, q, k)
    BY <2>1, <2>2, HolesAreFreeRuns, ClosedIsListed
  <2>4. /\ First(q) \in Nat \ {0} /\ Limit(q) \in Nat /\ \A c \in First(q) - 1 .. Limit(q) - 1 : PageOf(c) = q
    BY Geometry
  <2>5. ASSUME NEW e \in st2.list, e.size > 0, e.addr \in Own(q)
        PROVE  MaximalRun(h, q, e) /\ h[e.addr + e.size - 1] = "freeEnd"
    <3>1. PICK p \in Pages : /\ st.page[p] \in Key /\ e \in Holes(h, p, st.page[p])
                             /\ HoleIn(h, p, st.page[p], First(p), e)
      BY <1>2
    <3>2. First(p) \in Nat \ {0} /\ Limit(p) \in Nat
      BY Geometry
    <3>3. e.addr \in First(p) - 1 .. Limit(p) - 1 /\ e.addr \in First(q) - 1 .. Limit(q) - 1
      BY <2>4, <2>5, <3>1, <3>2 DEF HoleIn, Own
    <3>4. p = q
      BY <3>3, OnePage
    <3>5. e \in Listed(st, q)
      BY <2>3, <3>1, <3>4
    <3>6. e \in st.list
      BY <3>5 DEF Listed
    <3> QED BY <2>2, <2>5, <3>6 DEF Closed
  <2>6. ASSUME NEW c \in Own(q), ~Allocated(h[c]) PROVE \E e \in st2.list : c \in Span(e)
    <3>1. PICK e \in Holes(h, q, k) : c \in Span(e)
      BY <2>2, <2>6, HolesCover
    <3>2. e \in st2.list
      BY <1>1, <2>1, <3>1, ReopenedList
    <3> QED BY <3>1, <3>2
  <2>7. \E c \in Own(q) : Allocated(h[c])
    BY <2>0, <2>1 DEF Entire
  <2>8. Closed(st2, q)
    BY <1>1, <2>5, <2>6 DEF Closed
  <2> QED BY <1>1, <2>7, <2>8 DEF Entire
<1> QED BY <1>10, <1>11 DEF Whole

\* And it lists the free runs of every page.
LEMMA RestartLists ==
    ASSUME NEW st, NEW rs, NEW us, Sound(st, rs, us), NEW st2, Reopened(st, st2),
           NEW p \in Pages, st.page[p] \in Key
    PROVE  Listed(st2, p) = FreeRuns(st.hex, p, st.page[p])
<1> DEFINE h == st.hex
           k == st.page[p]
<1>1. StoreType(st) /\ Walked(st, p, h)
  BY DEF Walked, Sound
<1>2. Holes(h, p, k) = FreeRuns(h, p, k)
  BY <1>1, HolesAreFreeRuns
<1>3. ASSUME NEW q \in Pages, NEW e \in Holes(h, q, st.page[q])
      PROVE  e.size > 0 /\ PageOf(e.addr) = q
  <2>1. HoleIn(h, q, st.page[q], First(q), e)
    BY HolesAre
  <2>2. /\ First(q) \in Nat \ {0} /\ Limit(q) \in Nat /\ \A c \in First(q) - 1 .. Limit(q) - 1 : PageOf(c) = q
    BY Geometry
  <2>3. e.addr \in First(q) - 1 .. Limit(q) - 1 /\ e.size > 0
    BY <2>1, <2>2 DEF HoleIn
  <2> QED BY <2>2, <2>3
<1>4. \A e : e \in Listed(st2, p) <=> e \in Holes(h, p, k)
  BY <1>1, <1>3, ReopenedList DEF Listed
<1> QED BY <1>2, <1>4

-----------------------------------------------------------------------------
(* The invariant holds                                                     *)

\* A change of the hexmap in one page that updates wait in leaves the other holes entire.
LEMMA UpdatedPage ==
    ASSUME NEW st, NEW rs, NEW us, Sound(st, rs, us), Whole(st), NEW u \in us, u.key \in Updated,
           NEW st2, StoreType(st2), st2.page = st.page, st2.list = st.list,
           \A c \in Chunk : c \notin Body(u) => st2.hex[c] = st.hex[c]
    PROVE  Whole(st2)
<1>1. /\ u \in [key : Key, addr : Nat \ {0}, size : Nat \ {0}, old : Nat]
      /\ Body(u) = u.addr .. u.addr + CONTROL_COUNT + u.size - 1 /\ CONTROL_COUNT \in Nat
  BY SpanFacts, Counts
<1>2. PICK p \in Pages : /\ st.page[p] = u.key /\ First(p) <= u.addr
                         /\ u.addr + CONTROL_COUNT + u.size <= Limit(p)
  BY SpanFacts
<1>3. First(p) \in Nat \ {0} /\ Limit(p) \in Nat
  BY Geometry
<1>4. Body(u) \subseteq First(p) - 1 .. Limit(p) - 1
  BY <1>1, <1>2, <1>3
<1>5. Differs(st, st2, p)
  BY <1>4 DEF Differs, Sound
<1>6. SameEntries(st, st2, p)
  BY DEF SameEntries
<1>7. Entire(st2, p)
  BY <1>2 DEF Entire
<1>8. ASSUME NEW q \in Pages, q # p PROVE Entire(st2, q)
  BY <1>5, <1>6, <1>8, ClosedElsewhere DEF Whole
<1> QED BY <1>7, <1>8 DEF Whole

\* Who waits has a span, and it is of an updated table.
LEMMA WaitingFacts ==
    ASSUME Waits
    PROVE  /\ \A u \in Waiting : u.key \in Updated
           /\ \A s \in Session : pend[s] # NoUpdate => pend[s] \in Waiting
BY DEF Waits, Waiting

\* Whoever is answered leaves the others waiting.
LEMMA Answered ==
    ASSUME Waits, NEW s \in Session, pend[s] # NoUpdate, pend' = [pend EXCEPT ![s] = NoUpdate]
    PROVE  Waiting' = Waiting \ {pend[s]} /\ Waits'
<1> DEFINE T == [key : Key \union {NONE}, addr : Nat, size : Nat, old : Nat]
<1>1. pend \in [Session -> T] /\ NoUpdate \in T
  BY DEF Waits, NoUpdate
<1>2. pend' \in [Session -> T] /\ \A t \in Session : pend'[t] = IF t = s THEN NoUpdate ELSE pend[t]
  BY <1>1
<1> HIDE DEF T
<1>3. Waiting' = Waiting \ {pend[s]}
  <2>1. \A x : x \in Waiting' <=> \E t \in Session : pend'[t] # NoUpdate /\ x = pend'[t]
    BY DEF Waiting, NoUpdate
  <2>2. \A x : x \in Waiting <=> \E t \in Session : pend[t] # NoUpdate /\ x = pend[t]
    BY DEF Waiting
  <2>3. \A t \in Session : t # s => pend[t] # pend[s] \/ pend[t] = NoUpdate
    BY DEF Waits
  <2> QED BY <1>2, <2>1, <2>2, <2>3
<1>4. Waits'
  <2>1. \A t \in Session : pend'[t] # NoUpdate => pend'[t].key \in Updated
    BY <1>2 DEF Waits
  <2>2. \A t, v \in Session : t # v /\ pend'[t] # NoUpdate => pend'[t] # pend'[v]
    BY <1>2 DEF Waits
  <2> QED BY <1>2, <2>1, <2>2 DEF Waits, NoUpdate, T
<1> QED BY <1>3, <1>4

\* A new store satisfies the invariant.
LEMMA InitSound == Init => AllocInv
<1> SUFFICES ASSUME Init PROVE AllocInv
  OBVIOUS
<1>1. /\ store.hex = [c \in Chunk |-> "free"] /\ store.page = [p \in Pages |-> NONE] /\ store.list = {}
      /\ rows = {} /\ pend = [s \in Session |-> NoUpdate]
  BY DEF Init
<1>2. StoreType(store)
  BY DEF Init, StoreType, Byte
<1>3. Waiting = {}
  BY <1>1 DEF Waiting
<1>4. NONE \notin Key
  BY AllocatorAssumption
<1>5. \A p \in Pages : PageOk(store, p) /\ Entire(store, p)
  BY <1>1, <1>4 DEF PageOk, Entire
<1>6. Sound(store, rows, Waiting)
  BY <1>1, <1>2, <1>3, <1>5 DEF Sound, Disjoint
<1>7. Waits
  BY <1>1 DEF Waits, NoUpdate
<1> QED BY <1>5, <1>6, <1>7 DEF AllocInv, Whole

\* The invariant stays when a record is inserted.
LEMMA InsertStep ==
    ASSUME AllocInv, NEW k \in Key, NEW n \in Size[k], Insert(k, n)
    PROVE  AllocInv'
<1>1. PICK x \in Allocate(store, k, n) :
            /\ store' = [x.st EXCEPT !.hex = Written(@, x.at, n)]
            /\ rows' = rows \union {Row(k, x.at, n)}
  BY DEF Insert
<1>2. pend' = pend
  BY DEF Insert
<1> DEFINE st2 == [x.st EXCEPT !.hex = Written(@, x.at, n)]
<1>3. Sound(st2, rows \union {Row(k, x.at, n)}, Waiting) /\ Whole(st2)
  BY InsertKeeps DEF AllocInv
<1>4. Waiting' = Waiting /\ Waits'
  BY <1>2 DEF Waiting, Waits, AllocInv, NoUpdate
<1> QED BY <1>1, <1>3, <1>4 DEF AllocInv

\* The invariant stays when an update allots its new span before it asks for the row.
LEMMA AllotStep ==
    ASSUME AllocInv, NEW s \in Session, NEW r \in rows, r.key \in Updated, NEW n \in Size[r.key],
           UpdateAllocates(s, r, n)
    PROVE  AllocInv'
<1>1. PICK x \in Allocate(store, r.key, n) :
            /\ store' = x.st
            /\ pend' = [pend EXCEPT ![s] = [key |-> r.key, addr |-> x.at, size |-> n, old |-> r.addr]]
  BY DEF UpdateAllocates
<1>2. rows' = rows /\ pend[s] = NoUpdate
  BY DEF UpdateAllocates
<1>3. r.key \in Key \cap Updated /\ r.addr \in Nat
  BY RowFacts DEF AllocInv
<1> DEFINE u == Lot(r.key, x.at, n, r.addr)
<1>4. u \notin Waiting /\ Sound(x.st, rows, Waiting \union {u}) /\ Whole(x.st)
  BY <1>3, AllotKeeps DEF AllocInv
<1>5. pend' = [pend EXCEPT ![s] = u] /\ u.key = r.key
  BY <1>1 DEF Lot
<1> DEFINE T == [key : Key \union {NONE}, addr : Nat, size : Nat, old : Nat]
<1>6. pend \in [Session -> T] /\ Waits
  BY DEF AllocInv, Waits
<1>7. u \in T /\ u # NoUpdate
  <2>1. u \in Waiting \union {u}
    OBVIOUS
  <2>2. SpanOk(x.st, u)
    BY <1>4, <2>1 DEF Sound
  <2>3. u \in [key : Key, addr : Nat, size : Nat \ {0}, old : Nat]
    BY <2>2 DEF SpanOk
  <2>4. NONE \notin Key
    BY AllocatorAssumption
  <2> QED BY <2>3, <2>4 DEF NoUpdate
<1> HIDE DEF u, T
<1>8. pend' \in [Session -> T] /\ \A t \in Session : pend'[t] = IF t = s THEN u ELSE pend[t]
  BY <1>5, <1>6, <1>7
<1>9. \A t \in Session : pend[t] # NoUpdate => pend[t] \in Waiting
  BY <1>6, WaitingFacts
<1>10. Waiting' = Waiting \union {u}
  <2>1. \A y : y \in Waiting' <=> \E t \in Session : pend'[t] # NoUpdate /\ y = pend'[t]
    BY DEF Waiting, NoUpdate
  <2>2. \A y : y \in Waiting <=> \E t \in Session : pend[t] # NoUpdate /\ y = pend[t]
    BY DEF Waiting
  <2> QED BY <1>2, <1>7, <1>8, <2>1, <2>2
<1>11. Waits'
  <2>1. \A t \in Session : pend'[t] # NoUpdate => pend'[t].key \in Updated
    BY <1>3, <1>5, <1>6, <1>8 DEF Waits
  <2>2. \A t, v \in Session : t # v /\ pend'[t] # NoUpdate => pend'[t] # pend'[v]
    BY <1>4, <1>6, <1>7, <1>8, <1>9 DEF Waits
  <2> QED BY <1>8, <2>1, <2>2 DEF Waits, NoUpdate, T
<1> QED BY <1>1, <1>2, <1>4, <1>10, <1>11 DEF AllocInv, u

\* The invariant stays when an update is granted and writes its record.
LEMMA GrantStep ==
    ASSUME AllocInv, NEW s \in Session, UpdateGranted(s)
    PROVE  AllocInv'
<1> DEFINE u == pend[s]
<1>1. /\ u # NoUpdate /\ store' = [store EXCEPT !.hex = Written(@, u.addr, u.size)]
      /\ rows' = rows \union {Row(u.key, u.addr, u.size)} /\ pend' = [pend EXCEPT ![s] = NoUpdate]
  BY DEF UpdateGranted
<1>2. u \in Waiting /\ u.key \in Updated /\ Waits
  BY <1>1, WaitingFacts DEF AllocInv
<1>3. Waiting' = Waiting \ {u} /\ Waits'
  BY <1>1, <1>2, Answered
<1> HIDE DEF u
<1> DEFINE st2 == [store EXCEPT !.hex = Written(@, u.addr, u.size)]
<1>4. Writes(store, st2, u)
  BY DEF Writes
<1>5. StoreType(store)
  BY DEF AllocInv, Sound
<1>6. st2.page = store.page /\ st2.list = store.list
  BY <1>5 DEF StoreType
<1> HIDE DEF st2
<1>7. /\ Sound(st2, rows \union {Row(u.key, u.addr, u.size)}, Waiting \ {u})
      /\ \A c \in Chunk : c \notin Body(u) => st2.hex[c] = store.hex[c]
  BY <1>2, <1>4, WriteSound DEF AllocInv
<1>8. Whole(st2)
  BY <1>2, <1>6, <1>7, UpdatedPage DEF AllocInv, Sound
<1> QED BY <1>1, <1>3, <1>7, <1>8 DEF AllocInv, st2

\* The invariant stays when an update is refused and its data bytes are marked all the same.
LEMMA RefuseStep ==
    ASSUME AllocInv, NEW s \in Session, UpdateRefused(s), RefusesLong
    PROVE  AllocInv'
<1> DEFINE u == pend[s]
<1>1. /\ u # NoUpdate /\ store' = [store EXCEPT !.hex = FullHexmap(@, u.addr, u.size)]
      /\ rows' = rows /\ pend' = [pend EXCEPT ![s] = NoUpdate]
  BY DEF UpdateRefused
<1>2. u \in Waiting /\ u.key \in Updated /\ u.size > CONTROL_COUNT /\ Waits
  BY <1>1, WaitingFacts DEF AllocInv, RefusesLong
<1>3. Waiting' = Waiting \ {u} /\ Waits'
  BY <1>1, <1>2, Answered
<1> HIDE DEF u
<1> DEFINE st2 == [store EXCEPT !.hex = FullHexmap(@, u.addr, u.size)]
<1>4. StoreType(store)
  BY DEF AllocInv, Sound
<1>5. st2.page = store.page /\ st2.list = store.list
  BY <1>4 DEF StoreType
<1>6. Refuses(store, st2, u)
  BY DEF Refuses
<1> HIDE DEF st2
<1>7. /\ Sound(st2, rows, Waiting \ {u})
      /\ \A c \in Chunk : c \notin Body(u) => st2.hex[c] = store.hex[c]
  BY <1>2, <1>6, RefuseSound DEF AllocInv
<1>8. Whole(st2)
  BY <1>2, <1>5, <1>7, UpdatedPage DEF AllocInv, Sound
<1> QED BY <1>1, <1>3, <1>7, <1>8 DEF AllocInv, st2

\* The invariant stays when an update gives up: its span is in no list any more.
LEMMA GiveUpStep ==
    ASSUME AllocInv, NEW s \in Session, UpdateGivesUp(s)
    PROVE  AllocInv'
<1>1. pend[s] # NoUpdate /\ pend' = [pend EXCEPT ![s] = NoUpdate] /\ store' = store /\ rows' = rows
  BY DEF UpdateGivesUp
<1>2. Waiting' = Waiting \ {pend[s]} /\ Waits'
  BY <1>1, Answered DEF AllocInv
<1> DEFINE us2 == Waiting \ {pend[s]}
<1>3. Sound(store, rows, us2)
  <2>1. us2 \subseteq Waiting /\ Sound(store, rows, Waiting)
    BY DEF AllocInv
  <2> HIDE DEF us2
  <2>2. Disjoint(store, rows, us2)
    BY <2>1 DEF Sound, Disjoint
  <2> QED BY <2>1, <2>2 DEF Sound
<1> HIDE DEF us2
<1>4. Waiting' = us2
  BY <1>2 DEF us2
<1>5. Sound(store, rows, Waiting)' /\ Whole(store)'
  BY <1>1, <1>3, <1>4 DEF AllocInv
<1> QED BY <1>2, <1>5 DEF AllocInv

\* The invariant stays when a record is marked deleted.
LEMMA DieStep ==
    ASSUME AllocInv, NEW r \in rows, Die(r)
    PROVE  AllocInv'
<1> DEFINE r2 == [r EXCEPT !.dead = TRUE]
           rs == (rows \ {r}) \union {r2}
<1>1. rows' = rs /\ store' = store /\ pend' = pend
  BY DEF Die
<1>2. RowOk(store, r)
  BY DEF AllocInv, Sound
<1>3. r \in [key : Key, addr : Nat, size : Nat \ {0}, dead : BOOLEAN]
  BY <1>2 DEF RowOk
<1>4. /\ r2.key = r.key /\ r2.addr = r.addr /\ r2.size = r.size
      /\ r2 \in [key : Key, addr : Nat, size : Nat \ {0}, dead : BOOLEAN]
  BY <1>3
<1> HIDE DEF r2
<1>5. Last(r2) = Last(r) /\ Body(r2) = Body(r)
  BY <1>4 DEF Last, Body
<1>6. RowOk(store, r2)
  BY <1>2, <1>4, <1>5 DEF RowOk
<1>7. Disjoint(store, rs, Waiting)
  <2>1. Disjoint(store, rows, Waiting)
    BY DEF AllocInv, Sound
  <2>2. \A a, b \in rs : a # b => \A c \in Body(a) : c \notin Body(b)
    BY <1>5, <2>1 DEF Disjoint
  <2> HIDE DEF rs
  <2> QED BY <2>1, <2>2 DEF Disjoint
<1>8. Sound(store, rs, Waiting)
  BY <1>6, <1>7 DEF AllocInv, Sound
<1> HIDE DEF rs
<1>9. Waiting' = Waiting /\ Waits'
  BY <1>1 DEF Waiting, Waits, AllocInv, NoUpdate
<1> QED BY <1>1, <1>8, <1>9 DEF AllocInv

\* The invariant stays when a record is freed by its address.
LEMMA ReleaseStep ==
    ASSUME AllocInv, NEW r \in rows, Release(r), FreesTight
    PROVE  AllocInv'
<1>1. /\ store' = FreePointer(store, r.key, r.addr, r.size)
      /\ rows' = rows \ {r} /\ pend' = pend
  BY DEF Release
<1>2. Closed(store, PageOf(r.addr))
  <2>1. Sound(store, rows, Waiting) /\ Tight(store, PageOf(r.addr)) /\ r.key \in Key
    BY DEF AllocInv, FreesTight, Sound, RowOk
  <2>2. PICK p \in Pages : store.page[p] = r.key /\ First(p) <= r.addr /\ Last(r) < Limit(p)
    BY <2>1, RowFacts
  <2>3. PageOf(r.addr) = p
    BY <2>1, <2>2, RowPage
  <2> QED BY <2>1, <2>2, <2>3, TightIsClosed
<1> DEFINE st2 == FreePointer(store, r.key, r.addr, r.size)
<1>3. Sound(st2, rows \ {r}, Waiting) /\ Whole(st2)
  BY <1>2, FreeKeeps DEF AllocInv
<1>4. Waiting' = Waiting /\ Waits'
  BY <1>1 DEF Waiting, Waits, AllocInv, NoUpdate
<1> QED BY <1>1, <1>3, <1>4 DEF AllocInv

\* The invariant stays when TRUNCATE frees the dead records of a table.
LEMMA TruncateStep ==
    ASSUME AllocInv, NEW k \in Truncated, Truncate(k), FreesTight
    PROVE  AllocInv'
<1> DEFINE dead == DeadPointers(k)
<1>1. /\ store' = FreeAll(k, dead) /\ pend' = pend
      /\ rows' = {r \in rows : r.key = k /\ r.dead => \A w \in dead : w.addr # r.addr}
  BY DEF Truncate
<1>2. k \in Key /\ \A x \in dead : Tight(store, PageOf(x.addr))
  BY AllocatorAssumption DEF FreesTight
<1>4. Sound(FreeAll(k, dead), rows \ Gone(k, dead, 0), Waiting) /\ Whole(FreeAll(k, dead))
  BY <1>2, TruncateKeeps DEF AllocInv
<1> HIDE DEF dead
<1>5. rows' = rows \ Gone(k, dead, 0)
  <2>1. \A r \in rows : r.addr >= 0
    BY RowFacts DEF AllocInv
  <2> QED BY <1>1, <2>1 DEF Gone
<1>6. Waiting' = Waiting /\ Waits'
  BY <1>1 DEF Waiting, Waits, AllocInv, NoUpdate
<1> QED BY <1>1, <1>4, <1>5, <1>6 DEF AllocInv

\* The invariant stays over a restart, and nobody waits after one.
LEMMA RestartStep ==
    ASSUME AllocInv, Restart
    PROVE  AllocInv' /\ Waiting' = {}
<1> DEFINE st2 == [store EXCEPT !.list = UNION {Holes(store.hex, p, store.page[p]) :
                                                   p \in {q \in Pages : store.page[q] \in Key}}]
<1>1. store' = st2 /\ rows' = rows /\ pend' = [s \in Session |-> NoUpdate]
  BY DEF Restart
<1>2. Reopened(store, st2)
  BY DEF Reopened
<1> HIDE DEF st2
<1>3. Sound(st2, rows, {}) /\ Whole(st2)
  BY <1>2, RestartKeeps DEF AllocInv
<1>4. \A s \in Session : pend'[s] = NoUpdate
  BY <1>1
<1>5. Waiting' = {}
  BY <1>4 DEF Waiting, NoUpdate
<1>6. Waits'
  BY <1>1, <1>4 DEF Waits, NoUpdate
<1> QED BY <1>1, <1>3, <1>5, <1>6 DEF AllocInv

\* Every orderly step keeps the invariant.
LEMMA NextKeeps == AllocInv /\ [Next]_vars /\ [Orderly]_vars => AllocInv'
<1> SUFFICES ASSUME AllocInv, [Next]_vars, [Orderly]_vars PROVE AllocInv'
  OBVIOUS
<1>7. ASSUME UNCHANGED vars PROVE AllocInv'
  <2>1. store' = store /\ rows' = rows /\ pend' = pend
    BY <1>7 DEF vars
  <2>2. Waiting' = Waiting /\ Waits'
    BY <2>1 DEF Waiting, Waits, AllocInv, NoUpdate
  <2> QED BY <2>1, <2>2 DEF AllocInv
<1> SUFFICES ASSUME Next, FreesTight, RefusesLong PROVE AllocInv'
  BY <1>7 DEF Orderly
<1>1. ASSUME NEW k \in Key, NEW n \in Size[k], Insert(k, n) PROVE AllocInv'
  BY <1>1, InsertStep
<1>2. ASSUME NEW s \in Session, NEW r \in rows, r.key \in Updated, NEW n \in Size[r.key],
             UpdateAllocates(s, r, n)
      PROVE  AllocInv'
  BY <1>2, AllotStep
<1>3. ASSUME NEW s \in Session, UpdateGranted(s) \/ UpdateRefused(s) \/ UpdateGivesUp(s) PROVE AllocInv'
  BY <1>3, GrantStep, RefuseStep, GiveUpStep
<1>4. ASSUME NEW r \in rows, Die(r) \/ Release(r) PROVE AllocInv'
  BY <1>4, DieStep, ReleaseStep
<1>5. ASSUME NEW k \in Truncated, Truncate(k) PROVE AllocInv'
  BY <1>5, TruncateStep
<1>6. ASSUME Restart PROVE AllocInv'
  BY <1>6, RestartStep
<1> QED BY <1>1, <1>2, <1>3, <1>4, <1>5, <1>6 DEF Next

-----------------------------------------------------------------------------
(* Theorems                                                                *)

\* The invariant, of every behaviour whose steps are orderly.
THEOREM AlwaysAllocInv == Spec /\ [][Orderly]_vars => []AllocInv
<1>1. Init => AllocInv
  BY InitSound
<1>2. AllocInv /\ [Next]_vars /\ [Orderly]_vars => AllocInv'
  BY NextKeeps
<1> QED BY <1>1, <1>2, PTL DEF Spec

\* The invariant has the types in it.
LEMMA InvTypeOK == AllocInv => TypeOK
<1> SUFFICES ASSUME AllocInv PROVE TypeOK
  OBVIOUS
<1>1. Sound(store, rows, Waiting) /\ StoreType(store) /\ Waits
  BY DEF AllocInv, Sound
<1>2. DOMAIN store = {"hex", "page", "list"}
  BY <1>1 DEF StoreType
<1>3. ASSUME NEW e \in store.list PROVE e.key \in Key /\ e.size \in Nat /\ Span(e) \subseteq Chunk
  <2>1. e \in [key : Key, addr : Nat, size : Nat]
    BY <1>1 DEF StoreType
  <2>2. CASE e.size > 0
    BY <1>1, <2>1, <2>2, EntryFacts
  <2>3. CASE e.size = 0
    BY <2>1, <2>3 DEF Span
  <2> QED BY <2>1, <2>2, <2>3
<1>4. ASSUME NEW r \in rows PROVE r.key \in Key /\ r.addr \in Chunk /\ r.size \in Size[r.key]
  <2>1. RowOk(store, r)
    BY <1>1 DEF Sound
  <2>2. /\ r.addr \in Nat /\ Last(r) \in Nat /\ r.addr < Last(r) /\ Body(r) = r.addr .. Last(r)
        /\ Body(r) \subseteq Chunk
    BY <1>1, RowFacts
  <2> QED BY <2>1, <2>2 DEF RowOk
<1>5. \A s \in Session : pend[s] # NoUpdate => pend[s].key \in Updated
  BY <1>1 DEF Waits
<1> QED BY <1>1, <1>2, <1>3, <1>4, <1>5 DEF TypeOK, StoreType

\* TYPE CORRECTNESS.  The free list names only chunks of the file, every record is of a
\* length its key may have, and only tables whose rows are rewritten have updates waiting.
THEOREM AlwaysTyped == Spec /\ [][Orderly]_vars => []TypeOK
BY AlwaysAllocInv, InvTypeOK, PTL

\* The invariant keeps what is held apart.
LEMMA InvSpansApart == AllocInv => SpansApart
<1> SUFFICES ASSUME AllocInv PROVE SpansApart
  OBVIOUS
<1>1. Sound(store, rows, Waiting) /\ Disjoint(store, rows, Waiting) /\ Waits
  BY DEF AllocInv, Sound
<1>2. /\ \A r \in rows : \A c \in Body(r) : Allocated(store.hex[c])
      /\ \A u \in Waiting : \A c \in Body(u) : ~Allocated(store.hex[c])
      /\ \A e \in store.list : \A c \in Span(e) : ~Allocated(store.hex[c])
  <2>1. ASSUME NEW e \in store.list, NEW c \in Span(e) PROVE ~Allocated(store.hex[c])
    <3>1. e.size > 0
      BY <1>1, <2>1 DEF Sound, StoreType, Span
    <3> QED BY <1>1, <2>1, <3>1, EntryFacts
  <2> QED BY <1>1, <2>1, RowFacts, SpanFacts
<1>3. \A s \in Session : pend[s] # NoUpdate => pend[s] \in Waiting
  BY <1>1, WaitingFacts
<1>4. \A s, t \in Session : s # t /\ pend[s] # NoUpdate => pend[s] # pend[t]
  BY <1>1 DEF Waits
<1> DEFINE Rows == {<<"row", r, Body(r)>> : r \in rows}
           Updates == {<<"update", s, Body(pend[s])>> : s \in {t \in Session : pend[t] # NoUpdate}}
           Entries == {<<"list", e, Span(e)>> : e \in store.list}
<1>5. Holders = Rows \union Updates \union Entries
  BY DEF Holders
<1>6. ASSUME NEW x \in Rows, NEW y \in Rows, x # y PROVE x[3] \cap y[3] = {}
  BY <1>1, <1>6 DEF Disjoint
<1>7. ASSUME NEW x \in Rows, NEW y \in Updates PROVE x[3] \cap y[3] = {}
  BY <1>2, <1>3
<1>8. ASSUME NEW x \in Rows, NEW y \in Entries PROVE x[3] \cap y[3] = {}
  BY <1>2
<1>9. ASSUME NEW x \in Updates, NEW y \in Updates, x # y PROVE x[3] \cap y[3] = {}
  BY <1>1, <1>3, <1>4, <1>9 DEF Disjoint
<1>10. ASSUME NEW x \in Updates, NEW y \in Entries PROVE x[3] \cap y[3] = {}
  BY <1>1, <1>3 DEF Disjoint
<1>11. ASSUME NEW x \in Entries, NEW y \in Entries, x # y PROVE x[3] \cap y[3] = {}
  BY <1>1, <1>11 DEF Disjoint
<1> HIDE DEF Rows, Updates, Entries
<1>12. \A x, y \in Holders : x # y => x[3] \cap y[3] = {}
  BY <1>5, <1>6, <1>7, <1>8, <1>9, <1>10, <1>11
<1>13. ASSUME NEW r \in rows, NEW c \in Body(r) PROVE store.page[PageOf(c)] = r.key
  <2>1. Body(r) = r.addr .. Last(r) /\ Last(r) \in Nat /\ r.addr \in Nat
    BY <1>1, RowFacts
  <2>2. PICK p \in Pages : store.page[p] = r.key /\ First(p) <= r.addr /\ Last(r) < Limit(p)
    BY <1>1, RowFacts
  <2>3. /\ First(p) \in Nat \ {0} /\ Limit(p) \in Nat
        /\ \A x \in First(p) - 1 .. Limit(p) - 1 : PageOf(x) = p
    BY Geometry
  <2>4. c \in First(p) - 1 .. Limit(p) - 1
    BY <1>13, <2>1, <2>2, <2>3
  <2> QED BY <2>2, <2>3, <2>4
<1> QED BY <1>12, <1>13 DEF SpansApart

\* NO CHUNK HAS TWO HOLDERS: allocate, free_pointer, TRUNCATE and start-up keep records,
\* waiting updates and the free list apart, in tables that are updated and truncated too, as
\* long as no row is freed from a page that has an unwritten span of an update in it.
THEOREM AlwaysApart == Spec /\ [][Orderly]_vars => []SpansApart
BY AlwaysAllocInv, InvSpansApart, PTL

\* The invariant lets a walk find every record.
LEMMA InvRowsAreFound == AllocInv => RowsAreFound
BY RowFound DEF AllocInv, RowsAreFound

\* EVERY RECORD IS FOUND by the walk of its page, holes, freed rows and the bytes that
\* refused updates left notwithstanding, as long as those are longer than a control block.
THEOREM AlwaysFound == Spec /\ [][Orderly]_vars => []RowsAreFound
BY AlwaysAllocInv, InvRowsAreFound, PTL

\* The invariant has the list made of whole runs.
LEMMA InvRunsAreWhole == AllocInv => RunsAreWhole
BY ClosedIsListed DEF AllocInv, RunsAreWhole, Whole, Entire

\* FREE SPACE IS WHOLE: of a page where no update waits, the free list has exactly the
\* maximal free runs; free_pointer coalesces with both neighbours.
THEOREM AlwaysWhole == Spec /\ [][Orderly]_vars => []RunsAreWhole
BY AlwaysAllocInv, InvRunsAreWhole, PTL

\* The invariant leaves no empty page with a key.
LEMMA InvPagesComeBack == AllocInv => PagesComeBack
BY DEF AllocInv, PagesComeBack, Whole, Entire, Own

\* EMPTY PAGES COME BACK: free_pointer leaves no page with a key and without a record.
THEOREM AlwaysComeBack == Spec /\ [][Orderly]_vars => []PagesComeBack
BY AlwaysAllocInv, InvPagesComeBack, PTL

\* what a restart lists
Relisted ==
    Restart => \A p \in Pages : store.page[p] \in Key =>
                  Listed(store', p) = FreeRuns(store.hex, p, store.page[p])

\* A restart out of a state of the invariant lists what is free.
LEMMA InvRestartFindsAll ==
    ASSUME AllocInv
    PROVE  Relisted
<1> SUFFICES ASSUME Restart, NEW p \in Pages, store.page[p] \in Key
             PROVE  Listed(store', p) = FreeRuns(store.hex, p, store.page[p])
  BY DEF Relisted
<1> DEFINE st2 == store'
<1>1. Reopened(store, st2)
  BY DEF Restart, Reopened
<1>2. Sound(store, rows, Waiting)
  BY DEF AllocInv
<1>3. Listed(st2, p) = FreeRuns(store.hex, p, store.page[p])
  BY <1>1, <1>2, RestartLists
<1> QED BY <1>3

\* A RESTART FINDS ALL FREE SPACE, of the pages updates waited in too: start-up's walk of
\* the hexmap lists every maximal free run of every page that has a key.
THEOREM RestartAlwaysFindsAll == Spec /\ [][Orderly]_vars => RestartFindsAll
<1>1. AllocInv /\ [Next]_vars => [Relisted]_vars
  BY InvRestartFindsAll
<1> QED BY <1>1, AlwaysAllocInv, PTL DEF Spec, RestartFindsAll, Relisted
=============================================================================
