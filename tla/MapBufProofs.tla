---------------------------- MODULE MapBufProofs ----------------------------
(***************************************************************************)
(* The streams of MapBuf never touch a byte outside what they have mapped, *)
(* and are one plain file, for any streams, sizes and lengths of call.     *)
(***************************************************************************)
EXTENDS MapBuf, TLAPS, SequenceTheorems

-----------------------------------------------------------------------------
(* The operators                                                           *)

LEMMA Rounding ==
  ASSUME NEW n \in Nat
  PROVE  Chunked(n) \in Nat /\ n <= Chunked(n) /\ Chunked(n) < n + CHUNK
<1> DEFINE q == (n + CHUNK - 1) \div CHUNK
<1>1. q \in Nat /\ q * CHUNK <= n + CHUNK - 1 /\ n + CHUNK - 1 < (q + 1) * CHUNK
  BY MapAssumption
<1>2. (q + 1) * CHUNK = q * CHUNK + CHUNK
  BY <1>1, MapAssumption
<1> QED
  BY <1>1, <1>2, MapAssumption DEF Chunked

LEMMA Reserved ==
  ASSUME NEW m \in Nat, NEW n \in Nat
  PROVE  Reserve(m, n) \in Nat /\ n <= Reserve(m, n)
BY MapAssumption DEF Reserve, Larger

LEMMA Built ==
  ASSUME NEW n \in Nat, NEW f, f \in [1..n -> Byte]
  PROVE  f \in Seq(Byte) /\ Len(f) = n
OBVIOUS

LEMMA Apart ==
  ASSUME NEW f \in Seq(Byte), NEW n \in 0..Len(f)
  PROVE  /\ SubSeq(f, 1, n) \in Seq(Byte) /\ Len(SubSeq(f, 1, n)) = n
         /\ \A i \in 1..n : SubSeq(f, 1, n)[i] = f[i]
OBVIOUS

-----------------------------------------------------------------------------
(* The invariant                                                           *)

TypeInv ==
    /\ file \in Seq(Byte) /\ opened \subseteq Stream /\ length \in Nat
    /\ capacity \in [Stream -> Nat] /\ size \in [Stream -> Nat] /\ pos \in [Stream -> Nat]

\* no file is longer than the last chunk of the longest, no stream is beyond that
Longest == MaxLength + CHUNK
Bounded ==
    /\ Len(file) <= Longest
    /\ \A s \in Stream : size[s] <= Longest /\ pos[s] <= Longest

\* what a file has beyond what was written is zeros
ZeroTail == Writer \in opened => \A i \in size[Writer] + 1..Len(file) : file[i] = 0

MapInv == TypeInv /\ InBounds /\ Bounded /\ ZeroTail

LEMMA LookAgain ==
  ASSUME MapInv, NEW s \in Stream
  PROVE  /\ Refreshed(s) \in [size : Nat, capacity : Nat]
         /\ Refreshed(s).size = Len(file) /\ Refreshed(s).size <= Refreshed(s).capacity
<1>1. Len(file) \in Nat /\ capacity[s] \in Nat
  BY DEF MapInv, TypeInv
<1>2. Reserve(capacity[s], Len(file)) \in Nat /\ Len(file) <= Reserve(capacity[s], Len(file))
  BY <1>1, Reserved
<1>3. CASE Len(file) > capacity[s]
  BY <1>1, <1>2, <1>3 DEF Refreshed
<1>4. CASE ~(Len(file) > capacity[s])
  BY <1>1, <1>4 DEF Refreshed
<1> QED
  BY <1>3, <1>4

LEMMA Views ==
  ASSUME MapInv, NEW s \in Stream, NEW end \in Nat
  PROVE  /\ View(s, end) \in [size : Nat, capacity : Nat]
         /\ s \in opened => View(s, end).size <= View(s, end).capacity
         /\ View(s, end).size <= Longest
         /\ s = Writer => View(s, end) = AsIs(s)
         /\ s # Writer => end <= View(s, end).size \/ View(s, end).size = Len(file)
<1>1. Len(file) \in Nat /\ size[s] \in Nat /\ capacity[s] \in Nat
  BY DEF MapInv, TypeInv
<1>2. Refreshed(s) \in [size : Nat, capacity : Nat] /\ Refreshed(s).size <= Refreshed(s).capacity
      /\ Refreshed(s).size = Len(file)
  BY LookAgain
<1>3. AsIs(s) \in [size : Nat, capacity : Nat] /\ (s \in opened => AsIs(s).size <= AsIs(s).capacity)
      /\ AsIs(s).size = size[s]
  BY <1>1 DEF AsIs, MapInv, InBounds
<1> QED
  BY <1>1, <1>2, <1>3 DEF View, MapInv, Bounded

\* What a stream learns disturbs nothing, if it is a reader.
LEMMA Learning ==
  ASSUME MapInv, NEW s \in Stream, NEW view \in [size : Nat, capacity : Nat], Knows(s, view),
         s \in opened => view.size <= view.capacity,
         s = Writer => view = AsIs(s), view.size <= Longest,
         UNCHANGED <<file, opened, length>>,
         NEW p \in 0..Longest, pos' = [pos EXCEPT ![s] = p]
  PROVE  MapInv'
<1>1. size' = [size EXCEPT ![s] = view.size] /\ capacity' = [capacity EXCEPT ![s] = view.capacity]
  BY DEF Knows
<1>2. size'[Writer] = size[Writer]
  BY <1>1 DEF AsIs, MapInv, TypeInv, Stream
<1>3. TypeInv'
  BY <1>1, MapAssumption DEF MapInv, TypeInv, Longest
<1>4. InBounds'
  BY <1>1, <1>2 DEF MapInv, TypeInv, InBounds
<1>5. Bounded' /\ ZeroTail'
  BY <1>1, <1>2, MapAssumption DEF MapInv, TypeInv, Bounded, ZeroTail, Longest
<1> QED
  BY <1>3, <1>4, <1>5 DEF MapInv

\* The file cut back to what was written: no longer than it was, and the same.
LEMMA CuttingBack ==
  ASSUME MapInv, Writer \in opened
  PROVE  /\ Cut \in Seq(Byte) /\ Len(Cut) = size[Writer]
         /\ \A i \in 1..size[Writer] : Cut[i] = file[i]
         /\ Cut = SubSeq(file, 1, size[Writer])
<1>1. size[Writer] \in Nat /\ size[Writer] <= Len(file) /\ length = Len(file) /\ file \in Seq(Byte)
      /\ Len(file) \in Nat
  BY DEF MapInv, TypeInv, InBounds, Stream
<1>2. Resized(size[Writer]) = [i \in 1..size[Writer] |-> file[i]]
  BY <1>1 DEF Resized
<1>3. Resized(size[Writer]) \in [1..size[Writer] -> Byte]
  BY <1>1, <1>2
<1>4. Resized(size[Writer]) \in Seq(Byte) /\ Len(Resized(size[Writer])) = size[Writer]
  BY <1>1, <1>3, Built
<1>5. SubSeq(file, 1, size[Writer]) \in Seq(Byte)
      /\ Len(SubSeq(file, 1, size[Writer])) = size[Writer]
      /\ \A i \in 1..size[Writer] : SubSeq(file, 1, size[Writer])[i] = file[i]
  BY <1>1, Apart
<1>6. Resized(size[Writer]) = SubSeq(file, 1, size[Writer])
  BY <1>1, <1>2, <1>4, <1>5, SeqEqual
<1>7. CASE length > size[Writer]
  BY <1>1, <1>2, <1>4, <1>6, <1>7 DEF Cut
<1>8. CASE ~(length > size[Writer])
  <2>1. Len(file) = size[Writer]
    BY <1>1, <1>8
  <2>2. SubSeq(file, 1, size[Writer]) = file
    BY <1>1, <1>5, <2>1, SeqEqual
  <2> QED
    BY <1>1, <1>8, <2>1, <2>2 DEF Cut
<1> QED
  BY <1>7, <1>8

\* The file after a write: as long as it was or has been made, with what was
\* written in its place and zeros where it is new.
LEMMA WrittenFile ==
  ASSUME MapInv, NEW bytes \in Piece, Write(bytes)
  PROVE  /\ bytes \in Seq(Byte) /\ Len(bytes) \in 1..MaxCall
         /\ pos[Writer] \in Nat /\ pos[Writer] + Len(bytes) <= MaxLength
         /\ length' \in Nat /\ length' = Len(file')
         /\ Len(file) <= Len(file') /\ pos[Writer] + Len(bytes) <= Len(file')
         /\ Len(file') < Larger(size[Writer], pos[Writer] + Len(bytes)) + CHUNK
         /\ Len(file') <= Longest
         /\ file' \in Seq(Byte)
         /\ \A i \in 1..Len(file') :
              file'[i] = IF i \in pos[Writer] + 1..pos[Writer] + Len(bytes) THEN bytes[i - pos[Writer]]
                         ELSE IF i <= Len(file) THEN file[i] ELSE 0
<1> DEFINE from == pos[Writer]
           end == from + Len(bytes)
           n == Larger(Len(file), length')
           f == [i \in 1..n |-> IF i \in from + 1..end THEN bytes[i - from]
                                ELSE IF i <= Len(file) THEN file[i] ELSE 0]
<1>1. PICK k \in 1..MaxCall : bytes \in [1..k -> Byte]
  BY DEF Piece
<1>2. bytes \in Seq(Byte) /\ Len(bytes) = k
  BY <1>1, Built, MapAssumption
<1>3. Writer \in Stream /\ from \in Nat /\ size[Writer] \in Nat /\ Len(file) \in Nat /\ end \in Nat
      /\ file \in Seq(Byte) /\ length \in Nat
  BY <1>2 DEF MapInv, TypeInv, Stream
<1>4. /\ Writer \in opened /\ end <= MaxLength
      /\ length' = IF end > size[Writer] /\ end > length THEN Chunked(end) ELSE length
      /\ file' = f
  BY DEF Write
<1>5. length = Len(file) /\ size[Writer] <= Len(file) /\ Len(file) < size[Writer] + CHUNK
  BY <1>4 DEF MapInv, InBounds
<1>6. /\ length' \in Nat /\ Len(file) <= length' /\ end <= length'
      /\ length' < Larger(size[Writer], end) + CHUNK
      /\ length' <= Longest
  <2>1. Chunked(end) \in Nat /\ end <= Chunked(end) /\ Chunked(end) < end + CHUNK
    BY <1>3, Rounding
  <2>2. Larger(size[Writer], end) \in Nat /\ size[Writer] <= Larger(size[Writer], end)
        /\ end <= Larger(size[Writer], end)
    BY <1>3 DEF Larger
  <2>3. Len(file) <= Longest
    BY DEF MapInv, Bounded
  <2> HIDE DEF end
  <2>4. CASE end > size[Writer] /\ end > length
    BY <1>3, <1>4, <1>5, <2>1, <2>2, <2>4, MapAssumption DEF Longest
  <2>5. CASE ~(end > size[Writer] /\ end > length)
    BY <1>3, <1>4, <1>5, <2>2, <2>3, <2>5, MapAssumption DEF Longest
  <2> QED
    BY <2>4, <2>5
<1>7. n = length'
  BY <1>3, <1>6 DEF Larger
<1>8. f \in [1..n -> Byte]
  <2>1. ASSUME NEW i \in 1..n PROVE f[i] \in Byte
    <3>1. CASE i \in from + 1..end
      <4>1. i - from \in 1..k
        BY <1>2, <1>3, <3>1
      <4> QED
        BY <1>1, <2>1, <3>1, <4>1
    <3>2. CASE i \notin from + 1..end
      BY <1>3, <2>1, <3>2, MapAssumption
    <3> QED
      BY <3>1, <3>2
  <2> QED
    BY <2>1
<1>9. f \in Seq(Byte) /\ Len(f) = n
  BY <1>6, <1>7, <1>8, Built
<1> QED
  BY <1>2, <1>3, <1>4, <1>6, <1>7, <1>9

-----------------------------------------------------------------------------
(* Every call keeps it                                                     *)

LEMMA OpenKeeps ==
  ASSUME MapInv, NEW s \in Stream, NEW bytes \in Seq(Byte), Opens(s, bytes),
         bytes = file \/ (bytes = << >> /\ s = Writer)
  PROVE  MapInv'
<1> DEFINE m == Reserve(0, Len(bytes))
<1>1. Len(bytes) \in Nat /\ m \in Nat /\ Len(bytes) <= m
  BY Reserved
<1>2. /\ opened' = opened \cup {s} /\ s \notin opened /\ file' = bytes
      /\ size' = [size EXCEPT ![s] = Len(bytes)] /\ capacity' = [capacity EXCEPT ![s] = m]
      /\ length' = IF s = Writer THEN Len(bytes) ELSE length
      /\ pos' = [pos EXCEPT ![s] = 0]
  BY DEF Opens, Knows
<1>3. size'[s] = Len(bytes) /\ capacity'[s] = m
      /\ \A t \in Stream \ {s} : size'[t] = size[t] /\ capacity'[t] = capacity[t]
  BY <1>1, <1>2 DEF MapInv, TypeInv
<1>4. TypeInv'
  BY <1>1, <1>2 DEF MapInv, TypeInv
<1>5. Bounded'
  BY <1>1, <1>2, <1>3, MapAssumption DEF MapInv, TypeInv, Bounded, Longest
<1>6. CASE s = Writer
  BY <1>1, <1>2, <1>3, <1>4, <1>5, <1>6, MapAssumption DEF MapInv, TypeInv, InBounds, ZeroTail
<1>7. CASE s # Writer
  <2>1. Writer \in Stream /\ size'[Writer] = size[Writer] /\ file' = file
    BY <1>2, <1>3, <1>7 DEF Stream
  <2>2. InBounds'
    BY <1>1, <1>2, <1>3, <1>4, <1>7, <2>1 DEF MapInv, TypeInv, InBounds
  <2> QED
    BY <1>2, <1>4, <1>5, <1>7, <2>1, <2>2 DEF MapInv, ZeroTail
<1> QED
  BY <1>6, <1>7

LEMMA WriteKeeps ==
  ASSUME MapInv, NEW bytes \in Piece, Write(bytes)
  PROVE  MapInv'
<1> DEFINE end == pos[Writer] + Len(bytes)
           m == IF end > size[Writer] /\ end > capacity[Writer]
                THEN Reserve(capacity[Writer], end) ELSE capacity[Writer]
<1>1. Writer \in Stream /\ end \in Nat /\ size[Writer] \in Nat /\ capacity[Writer] \in Nat
  BY WrittenFile DEF MapInv, TypeInv, Stream
<1>2. Writer \in opened /\ size[Writer] <= capacity[Writer] /\ length = Len(file)
      /\ size[Writer] <= Len(file)
  BY DEF Write, MapInv, InBounds
<1>3. m \in Nat /\ end <= m /\ size[Writer] <= m
  <2>1. Reserve(capacity[Writer], end) \in Nat /\ end <= Reserve(capacity[Writer], end)
    BY <1>1, Reserved
  <2> HIDE DEF end
  <2> QED
    BY <1>1, <1>2, <2>1
<1>4. Larger(size[Writer], end) \in Nat /\ size[Writer] <= Larger(size[Writer], end)
      /\ end <= Larger(size[Writer], end) /\ Larger(size[Writer], end) \in {size[Writer], end}
  BY <1>1 DEF Larger
<1>5. /\ size' = [size EXCEPT ![Writer] = Larger(size[Writer], end)]
      /\ capacity' = [capacity EXCEPT ![Writer] = m]
      /\ pos' = [pos EXCEPT ![Writer] = end] /\ opened' = opened
  BY DEF Write, Knows
<1> HIDE DEF end, m
<1>6. TypeInv'
  BY <1>1, <1>3, <1>4, <1>5, WrittenFile DEF MapInv, TypeInv
<1>7. InBounds'
  <2>1. \A t \in opened' : size'[t] <= capacity'[t]
    BY <1>1, <1>3, <1>4, <1>5 DEF MapInv, TypeInv, InBounds
  <2>2. size'[Writer] = Larger(size[Writer], end)
    BY <1>1, <1>5 DEF MapInv, TypeInv
  <2>3. length' = Len(file') /\ size'[Writer] <= Len(file')
        /\ Len(file') < size'[Writer] + CHUNK
    <3>1. length' = Len(file') /\ Len(file) <= Len(file') /\ end <= Len(file')
          /\ Len(file') < Larger(size[Writer], end) + CHUNK /\ Len(file') \in Nat
          /\ Len(file) \in Nat
      BY WrittenFile DEF MapInv, TypeInv, end
    <3> QED
      BY <1>1, <1>2, <1>4, <2>2, <3>1
  <2> QED
    BY <2>1, <2>3 DEF InBounds
<1>8. Bounded'
  <2>1. Len(file') <= Longest /\ end <= Longest /\ size[Writer] <= Longest
    BY <1>1, WrittenFile, MapAssumption DEF MapInv, Bounded, Longest, end
  <2>2. \A t \in Stream : size'[t] <= Longest /\ pos'[t] <= Longest
    BY <1>1, <1>4, <1>5, <2>1 DEF MapInv, TypeInv, Bounded
  <2> QED
    BY <2>1, <2>2 DEF Bounded
<1>9. ZeroTail'
  <2>1. size'[Writer] = Larger(size[Writer], end) /\ Len(file') \in Nat /\ Len(file) \in Nat
    BY <1>1, <1>5, WrittenFile DEF MapInv, TypeInv
  <2>2. ASSUME NEW i \in size'[Writer] + 1..Len(file') PROVE file'[i] = 0
    <3>1. i \in 1..Len(file') /\ i > size[Writer] /\ i > end
      BY <1>1, <1>4, <2>1
    <3>2. file'[i] = IF i <= Len(file) THEN file[i] ELSE 0
      BY <1>1, <3>1, WrittenFile DEF end
    <3>3. i <= Len(file) => file[i] = 0
      BY <1>1, <1>2, <2>1, <3>1 DEF MapInv, ZeroTail
    <3> QED
      BY <3>2, <3>3
  <2> QED
    BY <2>2 DEF ZeroTail
<1> QED
  BY <1>6, <1>7, <1>8, <1>9 DEF MapInv

LEMMA MapInvStep ==
  ASSUME MapInv, [Next]_vars
  PROVE  MapInv'
<1>1. ASSUME NEW s \in Stream, Open(s) PROVE MapInv'
  BY <1>1, OpenKeeps DEF Open, MapInv, TypeInv
<1>2. CASE OpenEmpty
  <2>1. << >> \in Seq(Byte) /\ Writer \in Stream
    BY DEF Stream
  <2> QED
    BY <1>2, <2>1, OpenKeeps DEF OpenEmpty
<1>3. ASSUME NEW s \in Stream, NEW p \in 0..MaxLength, SeekTo(s, p) PROVE MapInv'
  BY <1>3, MapAssumption DEF SeekTo, MapInv, TypeInv, InBounds, Bounded, Longest, ZeroTail
<1>4. ASSUME NEW s \in Stream, SeekEnd(s) PROVE MapInv'
  <2> DEFINE view == IF s = Writer THEN AsIs(s) ELSE Refreshed(s)
  <2>1. view \in [size : Nat, capacity : Nat] /\ (s \in opened => view.size <= view.capacity)
        /\ (s = Writer => view = AsIs(s)) /\ view.size <= Longest
    BY <1>4, LookAgain DEF AsIs, MapInv, TypeInv, InBounds, Bounded
  <2>2. Knows(s, view) /\ pos' = [pos EXCEPT ![s] = view.size] /\ UNCHANGED <<file, opened, length>>
    BY <1>4 DEF SeekEnd
  <2> HIDE DEF view
  <2>3. view.size \in 0..Longest
    BY <2>1, MapAssumption DEF Longest
  <2> QED
    BY <2>1, <2>2, <2>3, Learning
<1>5. ASSUME NEW s \in Stream, NEW n \in 1..MaxCall, Read(s, n) PROVE MapInv'
  <2> DEFINE view == View(s, pos[s] + n)
             avail == Larger(Smaller(n, view.size - pos[s]), 0)
             bytes == [i \in 1..avail |-> IF pos[s] + i <= Len(file) THEN file[pos[s] + i] ELSE -1]
  <2>1. pos[s] \in Nat /\ pos[s] + n \in Nat
    BY DEF MapInv, TypeInv
  <2>2. view \in [size : Nat, capacity : Nat] /\ (s \in opened => view.size <= view.capacity)
        /\ (s = Writer => view = AsIs(s)) /\ view.size <= Longest
    BY <2>1, Views
  <2>3. Knows(s, view) /\ pos' = [pos EXCEPT ![s] = @ + Len(bytes)]
        /\ UNCHANGED <<file, opened, length>>
    BY <1>5 DEF Read
  <2>4. avail \in Nat /\ (avail = 0 \/ pos[s] + avail <= view.size)
    BY <2>1, <2>2 DEF Larger, Smaller
  <2>5. Len(bytes) = avail
    BY <2>4
  <2> HIDE DEF view, avail, bytes
  <2>6. pos[s] + avail \in 0..Longest
    BY <2>1, <2>2, <2>4, MapAssumption DEF MapInv, Bounded, Longest
  <2>7. pos' = [pos EXCEPT ![s] = pos[s] + avail]
    BY <2>3, <2>5
  <2> QED
    BY <2>2, <2>3, <2>6, <2>7, Learning
<1>6. ASSUME NEW bytes \in Piece, Write(bytes) PROVE MapInv'
  BY <1>6, WriteKeeps
<1>7. CASE Sync
  <2>1. /\ Writer \in opened /\ file' = Cut /\ length' = Smaller(length, size[Writer])
        /\ UNCHANGED <<opened, capacity, size, pos>>
    BY <1>7 DEF Sync
  <2>2. file' \in Seq(Byte) /\ Len(file') = size[Writer] /\ size[Writer] \in Nat
        /\ Len(file) \in Nat /\ length = Len(file) /\ size[Writer] <= Len(file)
    BY <2>1, CuttingBack DEF MapInv, TypeInv, InBounds, Stream
  <2>3. length' = size[Writer]
    BY <2>1, <2>2 DEF Smaller
  <2> QED
    BY <2>1, <2>2, <2>3, MapAssumption DEF MapInv, TypeInv, InBounds, Bounded, ZeroTail
<1>8. ASSUME NEW s \in Stream, Close(s) PROVE MapInv'
  <2>1. /\ s \in opened /\ file' = (IF s = Writer THEN Cut ELSE file)
        /\ opened' = opened \ {s}
        /\ capacity' = [t \in Stream |-> IF t \in {s} THEN 0 ELSE capacity[t]]
        /\ size' = [t \in Stream |-> IF t \in {s} THEN 0 ELSE size[t]]
        /\ pos' = [t \in Stream |-> IF t \in {s} THEN 0 ELSE pos[t]]
        /\ length' = IF Writer \in {s} THEN 0 ELSE length
    BY <1>8 DEF Close, Unmap
  <2>2. (Cut \in Seq(Byte) /\ Len(Cut) <= Len(file)) \/ s # Writer
    BY <2>1, CuttingBack DEF MapInv, TypeInv, InBounds
  <2>3. TypeInv'
    BY <2>1, <2>2 DEF MapInv, TypeInv
  <2>4. InBounds'
    BY <2>1, <2>3 DEF MapInv, TypeInv, InBounds, Stream
  <2>5. Bounded'
    BY <2>1, <2>2, <2>3, MapAssumption DEF MapInv, TypeInv, Bounded, Longest
  <2>6. ZeroTail'
    BY <2>1 DEF MapInv, ZeroTail, Stream
  <2> QED
    BY <2>3, <2>4, <2>5, <2>6 DEF MapInv
<1>9. CASE Kill
  BY <1>9, MapAssumption DEF Kill, Unmap, MapInv, TypeInv, InBounds, Bounded, Longest, ZeroTail, Stream
<1>10. CASE UNCHANGED vars
  BY <1>10 DEF vars, MapInv, TypeInv, InBounds, Bounded, ZeroTail
<1> QED
  BY <1>1, <1>2, <1>3, <1>4, <1>5, <1>6, <1>7, <1>8, <1>9, <1>10 DEF Next, Call

LEMMA MapInvInit == Init => MapInv
BY MapAssumption DEF Init, MapInv, TypeInv, InBounds, Bounded, Longest, ZeroTail

\* No stream touches a byte beyond what it has mapped, and the file is never shorter
\* than what was written nor a whole CHUNK longer (xsputn, overflow, sync_to_disk).
THEOREM StreamsStayInBounds == Spec => []InBounds
<1>1. MapInv => InBounds
  BY DEF MapInv
<1> QED
  BY <1>1, MapInvInit, MapInvStep, PTL DEF Spec

-----------------------------------------------------------------------------
(* The streams are one plain file                                          *)

ContentFacts ==
    /\ Content \in Seq(Byte) /\ Len(Content) <= Len(file) /\ Len(Content) \in Nat
    /\ \A i \in 1..Len(Content) : Content[i] = file[i]
    /\ Writer \in opened => Len(Content) = size[Writer]
    /\ Writer \notin opened => Content = file

LEMMA Contents == MapInv => ContentFacts
<1> SUFFICES ASSUME MapInv PROVE ContentFacts
  OBVIOUS
<1>1. file \in Seq(Byte) /\ Len(file) \in Nat
  BY DEF MapInv, TypeInv
<1>2. CASE Writer \in opened
  <2>1. size[Writer] \in 0..Len(file)
    BY <1>2 DEF MapInv, TypeInv, InBounds, Stream
  <2>2. /\ SubSeq(file, 1, size[Writer]) \in Seq(Byte) /\ Len(SubSeq(file, 1, size[Writer])) = size[Writer]
        /\ \A i \in 1..size[Writer] : SubSeq(file, 1, size[Writer])[i] = file[i]
    BY <1>1, <2>1, Apart
  <2> QED
    BY <1>1, <1>2, <2>1, <2>2 DEF Content, ContentFacts
<1>3. CASE Writer \notin opened
  BY <1>1, <1>3 DEF Content, ContentFacts
<1> QED
  BY <1>2, <1>3

LEMMA ContentsNext == MapInv' => ContentFacts'
BY Contents, PTL

\* Two contents are the same when they are as long and agree with the files.
LEMMA SameContent ==
  ASSUME MapInv, MapInv', Len(Content') = Len(Content),
         \A i \in 1..Len(Content) : file'[i] = file[i]
  PROVE  Content' = Content
<1>1. Content \in Seq(Byte) /\ \A i \in 1..Len(Content) : Content[i] = file[i]
  BY Contents DEF ContentFacts
<1>2. Content' \in Seq(Byte) /\ \A i \in 1..Len(Content') : Content'[i] = file'[i]
  BY ContentsNext DEF ContentFacts
<1> QED
  BY <1>1, <1>2, SeqEqual

\* What a reader does leaves the content alone.
LEMMA ReaderKeepsContent ==
  ASSUME MapInv, MapInv', file' = file, Writer \in opened <=> Writer \in opened',
         size'[Writer] = size[Writer]
  PROVE  Content' = Content
BY DEF Content

LEMMA OpenRefines ==
  ASSUME MapInv, MapInv', NEW s \in Stream, Open(s)
  PROVE  Plain!Leave(s)
<1>1. /\ s \notin opened /\ opened' = opened \cup {s} /\ file' = file
      /\ size' = [size EXCEPT ![s] = Len(file)] /\ pos' = [pos EXCEPT ![s] = 0] /\ got' = << >>
  BY DEF Open, Opens, Knows
<1>2. Content' = Content
  <2>1. CASE s = Writer
    <3>1. Len(Content') = Len(file) /\ Content = file
      BY <1>1, <2>1, Contents, ContentsNext DEF MapInv, TypeInv, ContentFacts
    <3> QED
      BY <1>1, <3>1, SameContent
  <2>2. CASE s # Writer
    BY <1>1, <2>2, ReaderKeepsContent DEF MapInv, TypeInv, Stream
  <2> QED
    BY <2>1, <2>2
<1> QED
  BY <1>1, <1>2 DEF Plain!Leave

LEMMA OpenEmptyRefines ==
  ASSUME MapInv, MapInv', OpenEmpty
  PROVE  Plain!Empty(Writer)
<1>1. /\ Writer \in opened' /\ size' = [size EXCEPT ![Writer] = Len(<< >>)]
      /\ pos' = [pos EXCEPT ![Writer] = 0] /\ got' = << >>
  BY DEF OpenEmpty, Opens, Knows
<1>2. Len(Content') = 0
  BY <1>1, ContentsNext DEF MapInv, TypeInv, Stream, ContentFacts
<1>3. Content' = << >>
  BY <1>2, ContentsNext, EmptySeq DEF ContentFacts
<1> QED
  BY <1>1, <1>3 DEF Plain!Empty

LEMMA SeekRefines ==
  ASSUME MapInv, MapInv', NEW s \in Stream,
         (\E p \in 0..MaxLength : SeekTo(s, p)) \/ SeekEnd(s)
  PROVE  \E p \in Position : Plain!Seek(s, p)
<1>1. CASE \E p \in 0..MaxLength : SeekTo(s, p)
  <2>1. PICK p \in 0..MaxLength : SeekTo(s, p)
    BY <1>1
  <2>2. Content' = Content
    BY <2>1, ReaderKeepsContent DEF SeekTo
  <2>3. p \in Position
    BY MapAssumption DEF Position
  <2> QED
    BY <2>1, <2>2, <2>3 DEF SeekTo, Plain!Seek
<1>2. CASE SeekEnd(s)
  <2> DEFINE view == IF s = Writer THEN AsIs(s) ELSE Refreshed(s)
  <2>1. /\ size' = [size EXCEPT ![s] = view.size] /\ pos' = [pos EXCEPT ![s] = view.size]
        /\ got' = << >> /\ UNCHANGED <<file, opened, length>>
    BY <1>2 DEF SeekEnd, Knows
  <2>2. size'[Writer] = size[Writer]
    BY <2>1 DEF AsIs, MapInv, TypeInv, Stream
  <2>3. Content' = Content
    BY <2>1, <2>2, ReaderKeepsContent
  <2>4. view.size \in Position
    BY LookAgain, MapAssumption DEF AsIs, MapInv, TypeInv, Bounded, Longest, Position
  <2> QED
    BY <2>1, <2>3, <2>4 DEF Plain!Seek
<1> QED
  BY <1>1, <1>2

LEMMA WriteRefines ==
  ASSUME MapInv, MapInv', NEW bytes \in Piece, Write(bytes)
  PROVE  Plain!Write(Writer, bytes)
<1> DEFINE from == pos[Writer]
           end == from + Len(bytes)
           n == IF end > Len(Content) THEN end ELSE Len(Content)
           new == [i \in 1..n |-> CASE i \in from + 1..end -> bytes[i - from]
                                    [] i \notin from + 1..end /\ i <= Len(Content) -> Content[i]
                                    [] OTHER -> 0]
<1>1. Writer \in opened /\ opened' = opened /\ got' = << >> /\ pos' = [pos EXCEPT ![Writer] = end]
      /\ size' = [size EXCEPT ![Writer] = Larger(size[Writer], end)]
  BY DEF Write, Knows
<1>2. Content \in Seq(Byte) /\ Len(Content) = size[Writer] /\ Len(Content) \in Nat
      /\ Len(Content) <= Len(file) /\ \A i \in 1..Len(Content) : Content[i] = file[i]
  BY <1>1, Contents DEF ContentFacts
<1>3. Content' \in Seq(Byte) /\ Len(Content') = size'[Writer]
      /\ Len(Content') <= Len(file') /\ \A i \in 1..Len(Content') : Content'[i] = file'[i]
  BY <1>1, ContentsNext DEF ContentFacts
<1>4. from \in Nat /\ end \in Nat /\ Len(file) \in Nat /\ Len(file') \in Nat
      /\ \A i \in 1..Len(file') :
           file'[i] = IF i \in from + 1..end THEN bytes[i - from]
                      ELSE IF i <= Len(file) THEN file[i] ELSE 0
  BY WrittenFile DEF MapInv, TypeInv
<1>5. Len(Content') = n
  BY <1>1, <1>2, <1>3 DEF Larger, MapInv, TypeInv, Stream
<1>6. ASSUME NEW i \in 1..n PROVE new[i] = Content'[i]
  <2>1. Content'[i] = IF i \in from + 1..end THEN bytes[i - from]
                      ELSE IF i <= Len(file) THEN file[i] ELSE 0
    <3>1. n \in Nat /\ Len(file') \in Nat /\ n <= Len(file')
      BY <1>2, <1>3, <1>4, <1>5
    <3>2. i \in 1..Len(Content') /\ i \in 1..Len(file')
      BY <1>5, <3>1
    <3> HIDE DEF n
    <3> QED
      BY <1>3, <1>4, <3>2
  <2>2. CASE i \in from + 1..end
    BY <2>1, <2>2
  <2>3. CASE i \notin from + 1..end /\ i <= Len(Content)
    BY <1>2, <1>4, <2>1, <2>3
  <2>4. CASE i \notin from + 1..end /\ ~(i <= Len(Content))
    <3>1. i <= Len(file) => file[i] = 0
      BY <1>1, <1>2, <1>4, <2>4 DEF MapInv, ZeroTail
    <3>2. new[i] = 0
      BY <2>4
    <3> QED
      BY <2>1, <2>4, <3>1, <3>2
  <2> QED
    BY <2>2, <2>3, <2>4
<1>7. n \in Nat
  BY <1>2, <1>4
<1>8. new \in [1..n -> Byte]
  <2>1. \A i \in 1..n : Content'[i] \in Byte
    BY <1>3, <1>5, ElementOfSeq
  <2>2. DOMAIN new = 1..n /\ new = [i \in 1..n |-> new[i]]
    OBVIOUS
  <2> HIDE DEF new, n
  <2> QED
    BY <1>6, <2>1, <2>2
<1>9. new \in Seq(Byte) /\ Len(new) = n
  BY <1>7, <1>8, Built
<1>10. Content' = new
  BY <1>3, <1>5, <1>6, <1>9, SeqEqual
<1> QED
  BY <1>1, <1>10 DEF Plain!Write, Plain!Written

LEMMA ReadRefines ==
  ASSUME MapInv, MapInv', Addressed, NEW s \in Stream, NEW n \in 1..MaxCall, Read(s, n)
  PROVE  Plain!Read(s)
<1> DEFINE from == pos[s]
           view == View(s, from + n)
           avail == Larger(Smaller(n, view.size - from), 0)
           bytes == [i \in 1..avail |-> IF from + i <= Len(file) THEN file[from + i] ELSE -1]
           last == [stream |-> s, from |-> from, asked |-> n, bytes |-> bytes]
<1>1. /\ s \in opened /\ (s \in Reader => from + n <= Len(Content))
      /\ Knows(s, view) /\ got' = <<last>> /\ pos' = [pos EXCEPT ![s] = @ + Len(bytes)]
      /\ UNCHANGED <<file, opened, length>>
  BY DEF Read
<1>2. from \in Nat /\ from + n \in Nat /\ Len(file) \in Nat /\ n \in Nat
  BY DEF MapInv, TypeInv
<1>3. /\ view \in [size : Nat, capacity : Nat]
      /\ s = Writer => view.size = size[Writer]
      /\ s # Writer => from + n <= view.size \/ view.size = Len(file)
  <2>1. /\ view \in [size : Nat, capacity : Nat]
        /\ s = Writer => view = AsIs(s)
        /\ s # Writer => from + n <= view.size \/ view.size = Len(file)
    BY <1>2, Views
  <2>2. AsIs(s).size = size[s]
    BY DEF AsIs
  <2> HIDE DEF view
  <2> QED
    BY <2>1, <2>2
<1>4. ContentFacts
  BY Contents
<1>5. size'[Writer] = size[Writer]
  BY <1>1, <1>3 DEF Knows, MapInv, TypeInv, Stream
<1>6. Content' = Content
  BY <1>1, <1>5, ReaderKeepsContent
<1>7. /\ avail \in Nat
      /\ avail < n => from + avail >= Len(Content)
      /\ \A i \in 1..avail : from + i <= Len(Content) /\ from + i \in 1..Len(Content)
  <2> HIDE DEF view
  <2>1. CASE s = Writer
    <3>1. Len(Content) = view.size
      BY <1>1, <1>3, <1>4, <2>1 DEF ContentFacts
    <3> QED
      BY <1>2, <1>3, <1>4, <3>1 DEF ContentFacts, Larger, Smaller
  <2>2. CASE s # Writer
    <3>1. from + n <= Len(Content) /\ Len(Content) <= Len(file)
      BY <1>1, <1>4, <2>2 DEF Stream, ContentFacts
    <3>2. from + n <= view.size
      BY <1>2, <1>3, <1>4, <2>2, <3>1 DEF ContentFacts
    <3>3. avail = n
      BY <1>2, <1>3, <3>2 DEF Larger, Smaller
    <3> QED
      BY <1>2, <1>4, <3>1, <3>3 DEF ContentFacts
  <2> QED
    BY <2>1, <2>2
<1> HIDE DEF view, avail
<1>8. Len(bytes) = avail
  BY <1>7
<1>9. ASSUME NEW i \in 1..Len(bytes)
      PROVE  bytes[i] = IF from + i <= Len(Content) THEN Content[from + i] ELSE 0
  <2>1. from + i \in 1..Len(Content) /\ from + i <= Len(file) /\ Content[from + i] = file[from + i]
    BY <1>2, <1>4, <1>7, <1>8 DEF ContentFacts
  <2>2. bytes[i] = file[from + i]
    BY <1>8, <2>1
  <2> QED
    BY <2>1, <2>2
<1> HIDE DEF bytes
<1>10. Len(got') = 1 /\ got'[1] = last
  BY <1>1
<1>11. /\ got'[1].stream = s /\ got'[1].from = from /\ got'[1].asked = n /\ got'[1].bytes = bytes
  BY <1>10
<1>12. pos' = [pos EXCEPT ![s] = from + Len(bytes)]
  BY <1>1
<1>13. Len(bytes) < n => from + Len(bytes) >= Len(Content)
  BY <1>7, <1>8
<1> QED
  BY <1>6, <1>9, <1>10, <1>11, <1>12, <1>13 DEF Plain!Read

LEMMA SyncRefines ==
  ASSUME MapInv, MapInv', Sync
  PROVE  \E p \in Position : Plain!Seek(Writer, p)
<1>1. /\ Writer \in opened /\ file' = Cut /\ UNCHANGED <<opened, capacity, size, pos>> /\ got' = << >>
  BY DEF Sync
<1>2. \A i \in 1..size[Writer] : file'[i] = file[i]
  BY <1>1, CuttingBack
<1>3. Len(Content) = size[Writer] /\ Len(Content') = size[Writer]
  BY <1>1, Contents, ContentsNext DEF ContentFacts
<1>4. Content' = Content
  BY <1>2, <1>3, SameContent
<1>5. pos[Writer] \in Position /\ pos' = [pos EXCEPT ![Writer] = pos[Writer]]
  BY <1>1, MapAssumption DEF MapInv, TypeInv, Bounded, Longest, Position, Stream
<1> QED
  BY <1>1, <1>4, <1>5 DEF Plain!Seek

LEMMA CloseRefines ==
  ASSUME MapInv, MapInv', NEW s \in Stream, Close(s)
  PROVE  Plain!Leave(s)
<1>1. /\ s \in opened /\ file' = (IF s = Writer THEN Cut ELSE file) /\ opened' = opened \ {s}
      /\ size' = [t \in Stream |-> IF t \in {s} THEN 0 ELSE size[t]]
      /\ pos' = [t \in Stream |-> IF t \in {s} THEN 0 ELSE pos[t]]
      /\ got' = << >>
  BY DEF Close, Unmap
<1>2. Content' = Content
  <2>1. CASE s = Writer
    BY <1>1, <2>1, CuttingBack, ContentsNext DEF Content, ContentFacts
  <2>2. CASE s # Writer
    BY <1>1, <2>2, ReaderKeepsContent DEF Stream
  <2> QED
    BY <2>1, <2>2
<1>3. pos' = [pos EXCEPT ![s] = 0]
  BY <1>1 DEF MapInv, TypeInv
<1> QED
  BY <1>1, <1>2, <1>3 DEF Plain!Leave

LEMMA KillRefines ==
  ASSUME MapInv, MapInv', Kill
  PROVE  Plain!Drop
<1>1. /\ opened' = {} /\ file' = file /\ got' = << >> /\ pos' = [t \in Stream |-> 0]
  <2>1. opened' = opened \ Stream /\ pos' = [t \in Stream |-> IF t \in Stream THEN 0 ELSE pos[t]]
    BY DEF Kill, Unmap
  <2> QED
    BY <2>1 DEF Kill, Unmap, MapInv, TypeInv
<1>2. Content' = file /\ ContentFacts /\ file \in Seq(Byte) /\ Len(file) \in Nat
  BY <1>1, Contents, ContentsNext DEF ContentFacts, MapInv, TypeInv
<1> DEFINE k == Len(file) - Len(Content)
           zeros == [i \in 1..k |-> 0]
<1>3. k \in 0..CHUNK
  BY <1>2, MapAssumption DEF ContentFacts, MapInv, InBounds
<1>4. zeros \in Seq(Byte) /\ Len(zeros) = k
  <2>1. zeros \in [1..k -> Byte]
    BY MapAssumption
  <2> HIDE DEF zeros, k
  <2> QED
    BY <1>3, <2>1, Built
<1>5. /\ Content \o zeros \in Seq(Byte) /\ Len(Content \o zeros) = Len(file)
      /\ \A i \in 1..Len(file) :
           (Content \o zeros)[i] = IF i <= Len(Content) THEN Content[i] ELSE zeros[i - Len(Content)]
  <2>1. Len(Content) + k = Len(file)
    BY <1>2 DEF ContentFacts
  <2> HIDE DEF zeros, k
  <2> QED
    BY <1>2, <1>4, <2>1, ConcatProperties DEF ContentFacts
<1>6. ASSUME NEW i \in 1..Len(file) PROVE (Content \o zeros)[i] = file[i]
  <2>1. CASE i <= Len(Content)
    BY <1>2, <1>5, <2>1 DEF ContentFacts
  <2>2. CASE ~(i <= Len(Content))
    <3>1. i - Len(Content) \in 1..k
      BY <1>2, <2>2 DEF ContentFacts
    <3>2. (Content \o zeros)[i] = 0
      BY <1>5, <2>2, <3>1
    <3>3. file[i] = 0
      BY <1>2, <2>2 DEF ContentFacts, MapInv, ZeroTail
    <3> QED
      BY <3>2, <3>3
  <2> QED
    BY <2>1, <2>2
<1>7. Content' = Content \o zeros
  BY <1>2, <1>5, <1>6, SeqEqual
<1> QED
  BY <1>1, <1>3, <1>7 DEF Plain!Drop, Plain!Zeros

LEMMA StepRefines ==
  ASSUME MapInv, MapInv', Addressed, [Next]_vars
  PROVE  [Plain!Next]_(Plain!fileVars)
<1>1. Writer \in Stream
  BY DEF Stream
<1>2. ASSUME NEW s \in Stream, Open(s) \/ Close(s) PROVE Plain!Next
  BY <1>2, OpenRefines, CloseRefines DEF Plain!Next
<1>3. CASE OpenEmpty
  BY <1>1, <1>3, OpenEmptyRefines DEF Plain!Next
<1>4. ASSUME NEW s \in Stream, SeekEnd(s) \/ \E p \in 0..MaxLength : SeekTo(s, p) PROVE Plain!Next
  BY <1>4, SeekRefines DEF Plain!Next
<1>5. ASSUME NEW s \in Stream, NEW n \in 1..MaxCall, Read(s, n) PROVE Plain!Next
  BY <1>5, ReadRefines DEF Plain!Next
<1>6. ASSUME NEW bytes \in Piece, Write(bytes) PROVE Plain!Next
  BY <1>1, <1>6, WriteRefines DEF Plain!Next
<1>7. CASE Sync
  BY <1>1, <1>7, SyncRefines DEF Plain!Next
<1>8. CASE Kill
  BY <1>8, KillRefines DEF Plain!Next
<1>9. CASE UNCHANGED vars
  <2>1. Content' = Content
    BY <1>9 DEF vars, Content
  <2> QED
    BY <1>9, <2>1 DEF vars, Plain!fileVars
<1> QED
  BY <1>2, <1>3, <1>4, <1>5, <1>6, <1>7, <1>8, <1>9 DEF Next, Call

LEMMA InitRefines == Init => Plain!Init
<1> SUFFICES ASSUME Init PROVE Plain!Init
  OBVIOUS
<1>1. Content = << >>
  BY DEF Init, Content
<1> QED
  BY <1>1 DEF Init, Plain!Init

\* However the file is made longer, cut back, mapped again, closed or left by a process
\* that was killed, its streams read and write one plain file, provided readers read
\* what was written (mapbuf.cpp, all of it).
THEOREM StreamsAreOneFile == ASSUME Addressed PROVE Spec => KeepsFile
<1>1. Addressed
  OBVIOUS
<1> QED
  BY <1>1, InitRefines, StepRefines, MapInvInit, MapInvStep, PTL DEF Spec, KeepsFile, Plain!Spec

=============================================================================
