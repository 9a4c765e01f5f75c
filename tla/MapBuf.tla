------------------------------- MODULE MapBuf -------------------------------
(***************************************************************************)
(* src/StreamIO/mapbuf.cpp: the streams of the store, each a mapping of    *)
(* the same file. One stream writes and makes the file longer ahead of     *)
(* itself; the others read, and learn the length when they run past the    *)
(* one they know. Bytes are shared by every mapping at once; lengths,      *)
(* reservations and positions are each stream's own.                       *)
(*                                                                         *)
(* A call is one step: the guard of the store keeps writer and readers     *)
(* apart (StreamsGuard). A process can be killed between two calls.        *)
(***************************************************************************)
EXTENDS Integers, Sequences, FiniteSets

CONSTANTS
    Writer,     \* the stream that is opened for writing
    Reader,     \* those that are opened for reading
    Byte,       \* the bytes, with 0
    RESERVE,    \* bytes mapped at least
    CHUNK,      \* bytes by which the file grows
    MaxLength,  \* bound: the longest file
    MaxCall,    \* bound: the most bytes of a call
    Addressed   \* readers read what was written and nothing else

ASSUME MapAssumption ==
    /\ Writer \notin Reader /\ 0 \in Byte
    /\ RESERVE \in Nat /\ CHUNK \in Nat \ {0}
    /\ MaxLength \in Nat /\ MaxCall \in Nat
    /\ Addressed \in BOOLEAN

VARIABLES
    file,      \* the bytes of the file
    opened,    \* the streams that are open
    capacity,  \* _capacity: bytes mapped
    size,      \* _size: what was written, to the writer; what is there, to a reader
    length,    \* the writer's _file: how long it has made the file
    pos,       \* _pos
    got        \* what the last call read

vars == <<file, opened, capacity, size, length, pos, got>>

Stream == {Writer} \cup Reader
Position == 0..MaxLength + CHUNK
Piece == UNION {[1..n -> Byte] : n \in 1..MaxCall}
Larger(a, b) == IF a > b THEN a ELSE b
Smaller(a, b) == IF a < b THEN a ELSE b

Init ==
    /\ file = << >> /\ opened = {} /\ length = 0 /\ got = << >>
    /\ capacity = [s \in Stream |-> 0] /\ size = [s \in Stream |-> 0]
    /\ pos = [s \in Stream |-> 0]

\* what was written; where nobody writes, all there is
Content == IF Writer \in opened THEN SubSeq(file, 1, size[Writer]) ELSE file

-----------------------------------------------------------------------------
(* The parts                                                               *)

\* ftruncate: bytes are dropped, or zeros come in
Resized(n) == [i \in 1..n |-> IF i <= Len(file) THEN file[i] ELSE 0]

\* mutant: what is mapped is enough
NeverMore(mapped, n) == IF mapped = 0 THEN RESERVE ELSE mapped

\* reserve(n): what is mapped afterwards, and if it is more, twice what it was
Reserve(mapped, n) ==
    LET want == Larger(n, RESERVE) IN
    CASE mapped = 0 -> want
      [] mapped > 0 /\ want <= mapped -> mapped
      [] OTHER -> Larger(want, 2 * mapped)

\* what a stream knows: the length, and what it has mapped of it
AsIs(s) == [size |-> size[s], capacity |-> capacity[s]]

\* refresh()
Refreshed(s) ==
    [size |-> Len(file),
     capacity |-> IF Len(file) > capacity[s] THEN Reserve(capacity[s], Len(file)) ELSE capacity[s]]

\* mutant: the length learnt first is the length for ever
NeverAgain(s, end) == AsIs(s)

\* a reader looks again where its call runs past the length it knows
View(s, end) == IF s # Writer /\ end > size[s] THEN Refreshed(s) ELSE AsIs(s)

Knows(s, view) ==
    /\ size' = [size EXCEPT ![s] = view.size]
    /\ capacity' = [capacity EXCEPT ![s] = view.capacity]

\* grow(): whole chunks
Chunked(n) == ((n + CHUNK - 1) \div CHUNK) * CHUNK

\* mutant: the growth stays
Uncut == file

\* shrink(): the file cut back to what was written
Cut == IF length > size[Writer] THEN Resized(size[Writer]) ELSE file

-----------------------------------------------------------------------------
(* The calls                                                               *)

Opens(s, bytes) ==
    /\ s \notin opened
    /\ opened' = opened \cup {s}
    /\ file' = bytes
    /\ Knows(s, [size |-> Len(bytes), capacity |-> Reserve(0, Len(bytes))])
    /\ length' = IF s = Writer THEN Len(bytes) ELSE length
    /\ pos' = [pos EXCEPT ![s] = 0]
    /\ got' = << >>

Open(s) == Opens(s, file)
OpenEmpty == Opens(Writer, << >>)

\* seekoff
SeekTo(s, p) ==
    /\ s \in opened
    /\ pos' = [pos EXCEPT ![s] = p]
    /\ got' = << >> /\ UNCHANGED <<file, opened, capacity, size, length>>

SeekEnd(s) ==
    LET view == IF s = Writer THEN AsIs(s) ELSE Refreshed(s) IN
    /\ s \in opened
    /\ Knows(s, view)
    /\ pos' = [pos EXCEPT ![s] = view.size]
    /\ got' = << >> /\ UNCHANGED <<file, opened, length>>

\* xsgetn; uflow is the same with n = 1. A byte past the file's end cannot be touched.
Read(s, n) ==
    LET view == View(s, pos[s] + n)
        avail == Smaller(n, view.size - pos[s])
        bytes == [i \in 1..Larger(avail, 0) |->
                    IF pos[s] + i <= Len(file) THEN file[pos[s] + i] ELSE -1] IN
    /\ s \in opened
    /\ s \in Reader /\ Addressed => pos[s] + n <= Len(Content)
    /\ Knows(s, view)
    /\ got' = <<[stream |-> s, from |-> pos[s], asked |-> n, bytes |-> bytes]>>
    /\ pos' = [pos EXCEPT ![s] = @ + Len(bytes)]
    /\ UNCHANGED <<file, opened, length>>

\* xsputn; overflow is the same with one byte. The file is made long enough first.
Write(bytes) ==
    LET from == pos[Writer]
        end == from + Len(bytes)
        grows == end > size[Writer] IN
    /\ Writer \in opened /\ end <= MaxLength
    /\ length' = IF grows /\ end > length THEN Chunked(end) ELSE length
    /\ file' = [i \in 1..Larger(Len(file), length') |->
                  IF i \in from + 1..end THEN bytes[i - from] ELSE IF i <= Len(file) THEN file[i] ELSE 0]
    /\ Knows(Writer,
         [size |-> Larger(size[Writer], end),
          capacity |-> IF grows /\ end > capacity[Writer] THEN Reserve(capacity[Writer], end)
                                                          ELSE capacity[Writer]])
    /\ pos' = [pos EXCEPT ![Writer] = end]
    /\ got' = << >> /\ UNCHANGED opened

\* sync_to_disk: what is made durable is exactly as long as what was written
Sync ==
    /\ Writer \in opened
    /\ file' = Cut /\ length' = Smaller(length, size[Writer])
    /\ got' = << >> /\ UNCHANGED <<opened, capacity, size, pos>>

Unmap(gone) ==
    /\ opened' = opened \ gone
    /\ capacity' = [s \in Stream |-> IF s \in gone THEN 0 ELSE capacity[s]]
    /\ size' = [s \in Stream |-> IF s \in gone THEN 0 ELSE size[s]]
    /\ pos' = [s \in Stream |-> IF s \in gone THEN 0 ELSE pos[s]]
    /\ length' = IF Writer \in gone THEN 0 ELSE length
    /\ got' = << >>

Close(s) ==
    /\ s \in opened
    /\ file' = IF s = Writer THEN Cut ELSE file
    /\ Unmap({s})

\* the process dies: the file keeps whatever length it has
Kill ==
    /\ opened # {}
    /\ Unmap(Stream)
    /\ UNCHANGED file

-----------------------------------------------------------------------------
Call(s) ==
    \/ Open(s) \/ SeekEnd(s) \/ Close(s)
    \/ \E p \in 0..MaxLength : SeekTo(s, p)
    \/ \E n \in 1..MaxCall : Read(s, n)

Next ==
    \/ \E s \in Stream : Call(s)
    \/ \E bytes \in Piece : Write(bytes)
    \/ OpenEmpty \/ Sync \/ Kill

Spec == Init /\ [][Next]_vars

-----------------------------------------------------------------------------
(* Properties                                                              *)

\* Nothing is touched outside what is mapped, and the file is at least as long as
\* what was written and never a whole CHUNK longer.
InBounds ==
    /\ \A s \in opened : size[s] <= capacity[s]
    /\ Writer \in opened =>
         /\ length = Len(file)
         /\ size[Writer] <= Len(file) /\ Len(file) < size[Writer] + CHUNK

Plain == INSTANCE PlainFile WITH
    content <- Content,
    at      <- pos,
    Slack   <- CHUNK

\* The streams are one plain file: a read returns what was written last, whichever
\* stream wrote it and however the file has been made longer, cut or mapped again
\* since; a file that is closed is as long as what was written, and one whose
\* process was killed longer by zeros only.
KeepsFile == Plain!Spec
=============================================================================
