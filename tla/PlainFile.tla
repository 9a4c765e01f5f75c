----------------------------- MODULE PlainFile -----------------------------
(***************************************************************************)
(* What the streams over a file promise: one sequence of bytes, a position *)
(* for each stream, reads that return what was written last. A file whose  *)
(* writer left without tidying up may be longer than what was written, by  *)
(* zeros.                                                                  *)
(***************************************************************************)
EXTENDS Naturals, Sequences

CONSTANTS
    Stream,
    Position,  \* where a stream may go
    Piece,     \* what may be written in one call
    Slack      \* by how much at most

VARIABLES
    content,   \* what was written
    at,        \* the position of each stream
    got        \* what the last step read: a sequence of records, empty or one

fileVars == <<content, at, got>>

Zeros(k) == [i \in 1..k |-> 0]

\* content with bytes written at position p: a gap before them is zeros
Written(p, bytes) ==
    LET end == p + Len(bytes) IN
    [i \in 1..(IF end > Len(content) THEN end ELSE Len(content)) |->
       CASE i \in p + 1..end -> bytes[i - p]
         [] i \notin p + 1..end /\ i <= Len(content) -> content[i]
         [] OTHER -> 0]

Init == content = << >> /\ at = [s \in Stream |-> 0] /\ got = << >>

Seek(s, p) ==
    /\ at' = [at EXCEPT ![s] = p]
    /\ got' = << >> /\ UNCHANGED content

Write(s, bytes) ==
    /\ content' = Written(at[s], bytes)
    /\ at' = [at EXCEPT ![s] = @ + Len(bytes)]
    /\ got' = << >>

\* what was written, as much as was asked for unless the end comes first; zeros
\* beyond the end
Read(s) ==
    /\ Len(got') = 1
    /\ LET bytes == got'[1].bytes
           end == at[s] + Len(bytes) IN
       /\ got'[1].stream = s /\ got'[1].from = at[s]
       /\ Len(bytes) < got'[1].asked => end >= Len(content)
       /\ \A i \in 1..Len(bytes) :
            bytes[i] = IF at[s] + i <= Len(content) THEN content[at[s] + i] ELSE 0
       /\ at' = [at EXCEPT ![s] = end]
    /\ UNCHANGED content

Empty(s) ==
    /\ content' = << >> /\ at' = [at EXCEPT ![s] = 0]
    /\ got' = << >>

\* a stream is closed
Leave(s) ==
    /\ at' = [at EXCEPT ![s] = 0]
    /\ got' = << >> /\ UNCHANGED content

\* all of them are, in a hurry
Drop ==
    /\ \E k \in 0..Slack : content' = content \o Zeros(k)
    /\ at' = [s \in Stream |-> 0]
    /\ got' = << >>

Next ==
    \/ \E s \in Stream : Read(s) \/ Empty(s) \/ Leave(s)
    \/ \E s \in Stream, p \in Position : Seek(s, p)
    \/ \E s \in Stream, bytes \in Piece : Write(s, bytes)
    \/ Drop

Spec == Init /\ [][Next]_fileVars
=============================================================================
