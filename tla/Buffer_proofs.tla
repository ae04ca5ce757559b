--------------------------- MODULE Buffer_proofs ---------------------------
(***************************************************************************)
(* Proofs about module Buffer, for any sizes and any bytes.                *)
(***************************************************************************)
EXTENDS Buffer, SequenceTheorems, DataLemmas

Buf == [data : Seq(Bytes), reader : Nat, writer : Nat]

(* TypeOK, of any buffer.                                                  *)
Sound(b) ==
  /\ b \in Buf
  /\ b.reader <= b.writer /\ b.writer <= Len(b.data)
  /\ CheapPrepend <= Len(b.data)

LEMMA ZeroIsByte == 0 \in Bytes
BY BufferAssumption DEF Bytes
-----------------------------------------------------------------------------
(* What lies in a piece of the memory, and what the content of a buffer is *)
(* byte by byte.                                                           *)
LEMMA TextFacts ==
  ASSUME NEW m \in Seq(Bytes), NEW at \in Nat, NEW n \in Nat, at + n <= Len(m)
  PROVE  /\ Text(m, Piece(at, n)) \in Seq(Bytes)
         /\ Len(Text(m, Piece(at, n))) = n
         /\ \A i \in 1 .. n : Text(m, Piece(at, n))[i] = m[at + i]
<1>1. \A i \in at + 1 .. at + n : m[i] \in Bytes
  OBVIOUS
<1>2. at + 1 \in Int /\ at + n \in Int /\ (at + n) - (at + 1) + 1 = n
  OBVIOUS
<1>3. /\ SubSeq(m, at + 1, at + n) \in Seq(Bytes)
      /\ Len(SubSeq(m, at + 1, at + n)) = IF at + 1 <= at + n THEN (at + n) - (at + 1) + 1 ELSE 0
      /\ \A i \in 1 .. (at + n) - (at + 1) + 1 :
           SubSeq(m, at + 1, at + n)[i] = m[(at + 1) + i - 1]
  BY <1>1, <1>2, SubSeqProperties
<1>4. \A i \in 1 .. n : (at + 1) + i - 1 = at + i
  OBVIOUS
<1>5. Text(m, Piece(at, n)) = SubSeq(m, at + 1, at + n)
  BY DEF Text, Piece
<1>. QED
  BY <1>2, <1>3, <1>4, <1>5

LEMMA ContentFacts ==
  ASSUME NEW b, Sound(b)
  PROVE  /\ Content(b) \in Seq(Bytes)
         /\ ReadableBytes(b) \in Nat /\ Len(Content(b)) = ReadableBytes(b)
         /\ \A i \in 1 .. ReadableBytes(b) : Content(b)[i] = b.data[b.reader + i]
<1>1. /\ b.data \in Seq(Bytes) /\ b.reader \in Nat /\ ReadableBytes(b) \in Nat
      /\ b.reader + ReadableBytes(b) <= Len(b.data)
  BY DEF Sound, Buf, ReadableBytes
<1>2. Content(b) = Text(b.data, Piece(b.reader, ReadableBytes(b)))
  BY DEF Content, ToStringPiece
<1>3. /\ Text(b.data, Piece(b.reader, ReadableBytes(b))) \in Seq(Bytes)
      /\ Len(Text(b.data, Piece(b.reader, ReadableBytes(b)))) = ReadableBytes(b)
      /\ \A i \in 1 .. ReadableBytes(b) :
           Text(b.data, Piece(b.reader, ReadableBytes(b)))[i] = b.data[b.reader + i]
  BY <1>1, TextFacts
<1>. QED
  BY <1>1, <1>2, <1>3

(* The content is known by its length and its bytes.                       *)
Lies(s, m, at) == \A i \in 1 .. Len(s) : s[i] = m[at + i]

LEMMA ContentIs ==
  ASSUME NEW b, Sound(b), NEW s \in Seq(Bytes), Len(s) = ReadableBytes(b),
         Lies(s, b.data, b.reader)
  PROVE  Content(b) = s
<1>1. /\ Content(b) \in Seq(Bytes) /\ Len(Content(b)) = Len(s)
      /\ \A i \in 1 .. Len(Content(b)) : Content(b)[i] = s[i]
  BY ContentFacts DEF Lies
<1>. QED
  BY <1>1, SeqEqual

LEMMA OverwrittenFacts ==
  ASSUME NEW s \in Seq(Bytes), NEW at \in Nat, NEW bs \in Seq(Bytes), at + Len(bs) <= Len(s)
  PROVE  /\ Overwritten(s, at, bs) \in Seq(Bytes)
         /\ Len(Overwritten(s, at, bs)) = Len(s)
         /\ \A i \in 1 .. Len(bs) : Overwritten(s, at, bs)[at + i] = bs[i]
         /\ \A i \in 1 .. Len(s) : i \notin at + 1 .. at + Len(bs) => Overwritten(s, at, bs)[i] = s[i]
<1>. DEFINE o == Overwritten(s, at, bs)
<1>1. /\ o = [i \in 1 .. Len(s) |-> IF i \in at + 1 .. at + Len(bs) THEN bs[i - at] ELSE s[i]]
      /\ Len(s) \in Nat /\ Len(bs) \in Nat
  BY DEF Overwritten
<1>2. \A i \in at + 1 .. at + Len(bs) : i - at \in 1 .. Len(bs)
  BY <1>1
<1>3. \A i \in 1 .. Len(s) : o[i] \in Bytes
  BY <1>1, <1>2
<1>4. o \in Seq(Bytes) /\ Len(o) = Len(s)
  BY <1>1, <1>3
<1>5. \A i \in 1 .. Len(bs) : at + i \in 1 .. Len(s) /\ at + i \in at + 1 .. at + Len(bs) /\ at + i - at = i
  BY <1>1
<1>. QED
  BY <1>1, <1>4, <1>5

LEMMA ResizedFacts ==
  ASSUME NEW s \in Seq(Bytes), NEW n \in Nat
  PROVE  /\ Resized(s, n) \in Seq(Bytes) /\ Len(Resized(s, n)) = n
         /\ \A i \in 1 .. n : i <= Len(s) => Resized(s, n)[i] = s[i]
BY ZeroIsByte DEF Resized
-----------------------------------------------------------------------------
(* Making space moves or extends the vector, not the content.              *)
SpaceMade(b, c, n) ==
  /\ Sound(c) /\ Content(c) = Content(b)
  /\ n <= WriteableBytes(c)
  /\ c.reader \in {b.reader, CheapPrepend}

LEMMA GrownFacts ==
  ASSUME NEW b, Sound(b), NEW n \in Nat, WriteableBytes(b) < n
  PROVE  SpaceMade(b, Grown(b, n), n)
<1>. DEFINE c == Grown(b, n)
<1>1. /\ b.data \in Seq(Bytes) /\ b.reader \in Nat /\ b.writer \in Nat /\ Len(b.data) \in Nat
      /\ b.reader <= b.writer /\ b.writer <= Len(b.data) /\ Len(b.data) < b.writer + n
      /\ CheapPrepend <= Len(b.data) /\ CheapPrepend \in Nat
  BY BufferAssumption DEF Sound, Buf, WriteableBytes
<1>2. /\ c \in Buf /\ c.reader = b.reader /\ c.writer = b.writer /\ Len(c.data) = b.writer + n
      /\ \A i \in 1 .. Len(b.data) : c.data[i] = b.data[i]
  <2>. DEFINE d == Resized(b.data, b.writer + n)
  <2>1. b.writer + n \in Nat /\ \A i \in 1 .. Len(b.data) : i \in 1 .. b.writer + n
    BY <1>1
  <2>2. /\ d \in Seq(Bytes) /\ Len(d) = b.writer + n
        /\ \A i \in 1 .. b.writer + n : i <= Len(b.data) => d[i] = b.data[i]
    BY <1>1, <2>1, ResizedFacts
  <2>3. c = [b EXCEPT !.data = d]
    BY DEF Grown
  <2>. HIDE DEF d, c
  <2>4. c \in Buf /\ c.data = d /\ c.reader = b.reader /\ c.writer = b.writer
    BY <2>2, <2>3 DEF Sound, Buf
  <2>. QED
    BY <1>1, <2>1, <2>2, <2>4
<1>3. Sound(c) /\ n <= WriteableBytes(c)
  BY <1>1, <1>2 DEF Sound, WriteableBytes
<1>. HIDE DEF c
<1>4. Content(c) = Content(b)
  <2>1. /\ Content(b) \in Seq(Bytes) /\ Len(Content(b)) = ReadableBytes(c)
        /\ \A i \in 1 .. Len(Content(b)) : Content(b)[i] = b.data[b.reader + i]
                                         /\ b.reader + i \in 1 .. Len(b.data)
    BY <1>1, <1>2, ContentFacts DEF ReadableBytes
  <2>2. \A i \in 1 .. Len(Content(b)) : Content(b)[i] = c.data[c.reader + i]
    BY <1>2, <2>1
  <2>. QED
    BY <1>3, <2>1, <2>2, ContentIs DEF Lies
<1>. QED
  BY <1>2, <1>3, <1>4 DEF SpaceMade, c

LEMMA MovedFacts ==
  ASSUME NEW b, Sound(b), NEW n \in Nat,
         WriteableBytes(b) + PrependableBytes(b) >= n + CheapPrepend
  PROVE  SpaceMade(b, Moved(b), n)
<1>. DEFINE c == Moved(b)
            s == Content(b)
<1>1. /\ b.data \in Seq(Bytes) /\ b.reader \in Nat /\ b.writer \in Nat /\ Len(b.data) \in Nat
      /\ b.reader <= b.writer /\ b.writer <= Len(b.data) /\ CheapPrepend \in Nat
      /\ CheapPrepend + (b.writer - b.reader) + n <= Len(b.data)
  BY BufferAssumption DEF Sound, Buf, WriteableBytes, PrependableBytes
<1>2. s \in Seq(Bytes) /\ Len(s) = b.writer - b.reader /\ CheapPrepend + Len(s) <= Len(b.data)
  BY <1>1, ContentFacts DEF ReadableBytes
<1>3. /\ c.data = Overwritten(b.data, CheapPrepend, s)
      /\ c.reader = CheapPrepend /\ c.writer = CheapPrepend + Len(s)
      /\ c = [data |-> c.data, reader |-> c.reader, writer |-> c.writer]
  BY <1>2 DEF Moved, ReadableBytes
<1>. HIDE DEF c, s
<1>4. /\ c.data \in Seq(Bytes) /\ Len(c.data) = Len(b.data)
      /\ \A i \in 1 .. Len(s) : c.data[CheapPrepend + i] = s[i]
  BY <1>1, <1>2, <1>3, OverwrittenFacts
<1>5. c \in Buf
  BY <1>1, <1>2, <1>3, <1>4 DEF Buf
<1>6. Sound(c) /\ n <= WriteableBytes(c) /\ ReadableBytes(c) = Len(s)
  BY <1>1, <1>2, <1>3, <1>4, <1>5 DEF Sound, WriteableBytes, ReadableBytes
<1>7. Content(c) = s
  BY <1>2, <1>3, <1>4, <1>6, ContentIs DEF Lies
<1>. QED
  BY <1>3, <1>6, <1>7 DEF SpaceMade, c, s

LEMMA WithSpaceFacts ==
  ASSUME NEW b, Sound(b), NEW n \in Nat
  PROVE  SpaceMade(b, WithSpace(b, n), n)
<1>1. WriteableBytes(b) \in Nat /\ PrependableBytes(b) \in Nat /\ CheapPrepend \in Nat
  BY BufferAssumption DEF Sound, Buf, WriteableBytes, PrependableBytes
<1>2. CASE WriteableBytes(b) < n
  <2>1. WithSpace(b, n) = MakeSpace(b, n)
    BY <1>2 DEF WithSpace
  <2>2. CASE WriteableBytes(b) + PrependableBytes(b) < n + CheapPrepend
    BY <1>2, <2>1, <2>2, GrownFacts DEF MakeSpace
  <2>3. CASE WriteableBytes(b) + PrependableBytes(b) >= n + CheapPrepend
    BY <1>1, <2>1, <2>3, MovedFacts DEF MakeSpace
  <2>. QED
    BY <1>1, <2>2, <2>3
<1>3. CASE WriteableBytes(b) >= n
  BY <1>1, <1>3 DEF WithSpace, SpaceMade
<1>. QED
  BY <1>1, <1>2, <1>3
-----------------------------------------------------------------------------
(* What the functions make of the content.                                 *)
LEMMA JoinedFacts ==
  ASSUME NEW m, NEW at \in Nat, NEW s \in Seq(Bytes), NEW t \in Seq(Bytes),
         Lies(s, m, at), Lies(t, m, at + Len(s))
  PROVE  /\ s \o t \in Seq(Bytes) /\ Len(s \o t) = Len(s) + Len(t)
         /\ Lies(s \o t, m, at)
<1>. USE DEF Lies
<1>1. /\ s \o t \in Seq(Bytes) /\ Len(s \o t) = Len(s) + Len(t)
      /\ \A i \in 1 .. Len(s) + Len(t) : (s \o t)[i] = IF i <= Len(s) THEN s[i] ELSE t[i - Len(s)]
  BY ConcatProperties
<1>2. Len(s) \in Nat /\ Len(t) \in Nat
  OBVIOUS
<1>3. ASSUME NEW i \in 1 .. Len(s) + Len(t)
      PROVE  (s \o t)[i] = m[at + i]
  <2>1. CASE i <= Len(s)
    BY <1>1, <1>2, <2>1
  <2>2. CASE ~(i <= Len(s))
    <3>1. i - Len(s) \in 1 .. Len(t) /\ (at + Len(s)) + (i - Len(s)) = at + i
      BY <1>2, <2>2
    <3>2. t[i - Len(s)] = m[(at + Len(s)) + (i - Len(s))]
      BY <3>1
    <3>3. (s \o t)[i] = t[i - Len(s)]
      BY <1>1, <2>2
    <3>. QED
      BY <3>1, <3>2, <3>3
  <2>. QED
    BY <2>1, <2>2
<1>. QED
  BY <1>1, <1>3

LEMMA WrittenFacts ==
  ASSUME NEW b, Sound(b), NEW bs \in Seq(Bytes), Len(bs) <= WriteableBytes(b)
  PROVE  /\ Sound(Written(b, bs)) /\ Written(b, bs).reader = b.reader
         /\ Content(Written(b, bs)) = Content(b) \o bs
<1>. DEFINE c == Written(b, bs)
            d == Overwritten(b.data, b.writer, bs)
            s == Content(b)
            k == ReadableBytes(b)
<1>1. /\ b.data \in Seq(Bytes) /\ b.reader \in Nat /\ b.writer \in Nat /\ Len(b.data) \in Nat
      /\ b.reader <= b.writer /\ b.writer + Len(bs) <= Len(b.data) /\ Len(bs) \in Nat
      /\ k = b.writer - b.reader /\ k \in Nat
  BY DEF Sound, Buf, WriteableBytes, ReadableBytes
<1>2. /\ d \in Seq(Bytes) /\ Len(d) = Len(b.data)
      /\ \A i \in 1 .. Len(bs) : d[b.writer + i] = bs[i]
      /\ \A i \in 1 .. Len(b.data) : i \notin b.writer + 1 .. b.writer + Len(bs) => d[i] = b.data[i]
  BY <1>1, OverwrittenFacts
<1>3. c = [b EXCEPT !.data = d, !.writer = @ + Len(bs)]
  BY DEF Written
<1>4. s \in Seq(Bytes) /\ Len(s) = k /\ \A i \in 1 .. k : s[i] = b.data[b.reader + i]
  BY ContentFacts
<1>. HIDE DEF c, d, s, k
<1>5. c \in Buf /\ c.data = d /\ c.reader = b.reader /\ c.writer = b.writer + Len(bs)
  <2>1. b \in Buf /\ b.writer + Len(bs) \in Nat
    BY <1>1 DEF Sound
  <2>. QED
    BY <1>2, <1>3, <2>1 DEF Buf
<1>6. Sound(c) /\ ReadableBytes(c) = k + Len(bs)
  BY <1>1, <1>2, <1>5 DEF Sound, ReadableBytes
<1>7. Lies(s, d, b.reader) /\ Lies(bs, d, b.reader + Len(s))
  <2>1. b.reader + Len(s) = b.writer
    BY <1>1, <1>4
  <2>2. ASSUME NEW i \in 1 .. Len(s)
        PROVE  s[i] = d[b.reader + i]
    <3>1. b.reader + i \in 1 .. Len(b.data) /\ b.reader + i \notin b.writer + 1 .. b.writer + Len(bs)
      BY <1>1, <1>4
    <3>. QED
      BY <1>2, <1>4, <3>1
  <2>. QED
    BY <1>2, <2>1, <2>2 DEF Lies
<1>8. /\ s \o bs \in Seq(Bytes) /\ Len(s \o bs) = Len(s) + Len(bs)
      /\ Lies(s \o bs, d, b.reader)
  BY <1>1, <1>4, <1>7, JoinedFacts
<1>9. Content(c) = s \o bs
  BY <1>4, <1>5, <1>6, <1>8, ContentIs
<1>. QED
  BY <1>5, <1>6, <1>9 DEF c, s

LEMMA AppendedFacts ==
  ASSUME NEW b, Sound(b), NEW bs \in Seq(Bytes)
  PROVE  /\ Sound(Appended(b, bs)) /\ Appended(b, bs).reader \in {b.reader, CheapPrepend}
         /\ Content(Appended(b, bs)) = Content(b) \o bs
<1>1. SpaceMade(b, WithSpace(b, Len(bs)), Len(bs))
  BY WithSpaceFacts
<1>. QED
  BY <1>1, WrittenFacts DEF Appended, SpaceMade

LEMMA PrependedFacts ==
  ASSUME NEW b, Sound(b), NEW bs \in Seq(Bytes), Len(bs) <= PrependableBytes(b)
  PROVE  Sound(Prepended(b, bs)) /\ Content(Prepended(b, bs)) = bs \o Content(b)
<1>. DEFINE c == Prepended(b, bs)
            at == b.reader - Len(bs)
            d == Overwritten(b.data, at, bs)
            s == Content(b)
            k == ReadableBytes(b)
<1>1. /\ b.data \in Seq(Bytes) /\ b.reader \in Nat /\ b.writer \in Nat /\ Len(b.data) \in Nat
      /\ b.reader <= b.writer /\ b.writer <= Len(b.data) /\ Len(bs) \in Nat
      /\ at \in Nat /\ at + Len(bs) = b.reader /\ k = b.writer - b.reader /\ k \in Nat
  BY DEF Sound, Buf, PrependableBytes, ReadableBytes
<1>. HIDE DEF at
<1>2. /\ d \in Seq(Bytes) /\ Len(d) = Len(b.data)
      /\ \A i \in 1 .. Len(bs) : d[at + i] = bs[i]
      /\ \A i \in 1 .. Len(b.data) : i \notin at + 1 .. at + Len(bs) => d[i] = b.data[i]
  <2>1. at + Len(bs) <= Len(b.data)
    BY <1>1
  <2>. QED
    BY <1>1, <2>1, OverwrittenFacts
<1>3. c = [b EXCEPT !.data = d, !.reader = at]
  BY DEF Prepended, at
<1>4. s \in Seq(Bytes) /\ Len(s) = k /\ \A i \in 1 .. k : s[i] = b.data[b.reader + i]
  BY ContentFacts
<1>. HIDE DEF c, d, s, k
<1>5. c \in Buf /\ c.data = d /\ c.reader = at /\ c.writer = b.writer
  BY <1>1, <1>2, <1>3 DEF Sound, Buf
<1>6. Sound(c) /\ ReadableBytes(c) = Len(bs) + k
  BY <1>1, <1>2, <1>5 DEF Sound, ReadableBytes
<1>7. Lies(bs, d, at) /\ Lies(s, d, at + Len(bs))
  <2>. SUFFICES ASSUME NEW i \in 1 .. Len(s)
                PROVE  s[i] = d[(at + Len(bs)) + i]
    BY <1>2 DEF Lies
  <2>1. b.reader + i \in 1 .. Len(b.data) /\ b.reader + i \notin at + 1 .. at + Len(bs)
    BY <1>1, <1>4
  <2>. QED
    BY <1>1, <1>2, <1>4, <2>1
<1>8. /\ bs \o s \in Seq(Bytes) /\ Len(bs \o s) = Len(bs) + Len(s)
      /\ Lies(bs \o s, d, at)
  BY <1>1, <1>2, <1>4, <1>7, JoinedFacts
<1>9. Content(c) = bs \o s
  BY <1>4, <1>5, <1>6, <1>8, ContentIs
<1>. QED
  BY <1>6, <1>9 DEF c, s

(* What is left of the content when bytes are taken off one of its ends.   *)
LEMMA DroppedFacts ==
  ASSUME NEW m, NEW at \in Nat, NEW s \in Seq(Bytes), Lies(s, m, at), NEW n \in 0 .. Len(s)
  PROVE  /\ SubSeq(s, n + 1, Len(s)) \in Seq(Bytes)
         /\ Len(SubSeq(s, n + 1, Len(s))) = Len(s) - n
         /\ Lies(SubSeq(s, n + 1, Len(s)), m, at + n)
<1>. DEFINE t == SubSeq(s, n + 1, Len(s))
<1>1. /\ n + 1 \in Int /\ Len(s) \in Int /\ Len(s) - (n + 1) + 1 = Len(s) - n
      /\ \A i \in n + 1 .. Len(s) : s[i] \in Bytes
  OBVIOUS
<1>2. /\ t \in Seq(Bytes) /\ Len(t) = IF n + 1 <= Len(s) THEN Len(s) - (n + 1) + 1 ELSE 0
      /\ \A i \in 1 .. Len(s) - (n + 1) + 1 : t[i] = s[(n + 1) + i - 1]
  BY <1>1, SubSeqProperties
<1>. HIDE DEF t
<1>3. Len(t) = Len(s) - n
  <2>1. Len(s) \in Nat /\ n \in Nat /\ n <= Len(s)
    OBVIOUS
  <2>2. CASE n + 1 <= Len(s)
    BY <1>1, <1>2, <2>2
  <2>3. CASE n = Len(s)
    BY <1>2, <2>1, <2>3
  <2>. QED
    BY <2>1, <2>2, <2>3
<1>4. ASSUME NEW i \in 1 .. Len(t)
      PROVE  t[i] = m[(at + n) + i]
  <2>1. /\ i \in 1 .. Len(s) - (n + 1) + 1
        /\ n + i \in 1 .. Len(s) /\ (n + 1) + i - 1 = n + i /\ at + (n + i) = (at + n) + i
    BY <1>1, <1>3
  <2>2. t[i] = s[n + i]
    BY <1>2, <2>1
  <2>3. s[n + i] = m[at + (n + i)]
    BY <2>1 DEF Lies
  <2>. QED
    BY <2>1, <2>2, <2>3
<1>. QED
  BY <1>2, <1>3, <1>4 DEF Lies, t

LEMMA TakenFacts ==
  ASSUME NEW m, NEW at \in Nat, NEW s \in Seq(Bytes), Lies(s, m, at), NEW n \in 0 .. Len(s)
  PROVE  /\ SubSeq(s, 1, n) \in Seq(Bytes) /\ Len(SubSeq(s, 1, n)) = n
         /\ Lies(SubSeq(s, 1, n), m, at)
<1>. DEFINE t == SubSeq(s, 1, n)
<1>1. /\ 1 \in Int /\ n \in Int /\ n - 1 + 1 = n /\ \A i \in 1 .. n : s[i] \in Bytes
  OBVIOUS
<1>2. /\ t \in Seq(Bytes) /\ Len(t) = IF 1 <= n THEN n - 1 + 1 ELSE 0
      /\ \A i \in 1 .. n - 1 + 1 : t[i] = s[1 + i - 1]
  BY <1>1, SubSeqProperties
<1>. HIDE DEF t
<1>3. Len(t) = n
  BY <1>1, <1>2
<1>4. ASSUME NEW i \in 1 .. n
      PROVE  t[i] = m[at + i]
  <2>1. i \in 1 .. Len(s) /\ i \in 1 .. n - 1 + 1 /\ 1 + i - 1 = i
    BY <1>1
  <2>. QED
    BY <1>2, <2>1 DEF Lies
<1>. QED
  BY <1>2, <1>3, <1>4 DEF Lies, t

LEMMA SoundFacts ==
  ASSUME NEW b, Sound(b)
  PROVE  /\ b.data \in Seq(Bytes) /\ Len(b.data) \in Nat /\ b.reader \in Nat /\ b.writer \in Nat
         /\ b.reader <= b.writer /\ b.writer <= Len(b.data)
         /\ CheapPrepend \in Nat /\ CheapPrepend <= Len(b.data)
         /\ ReadableBytes(b) = b.writer - b.reader /\ ReadableBytes(b) \in Nat
         /\ Content(b) \in Seq(Bytes) /\ Len(Content(b)) = ReadableBytes(b)
         /\ Lies(Content(b), b.data, b.reader)
<1>1. /\ b.data \in Seq(Bytes) /\ Len(b.data) \in Nat /\ b.reader \in Nat /\ b.writer \in Nat
      /\ b.reader <= b.writer /\ b.writer <= Len(b.data)
      /\ CheapPrepend \in Nat /\ CheapPrepend <= Len(b.data)
      /\ ReadableBytes(b) = b.writer - b.reader
  BY BufferAssumption DEF Sound, Buf, ReadableBytes
<1>2. /\ Content(b) \in Seq(Bytes) /\ Len(Content(b)) = ReadableBytes(b)
      /\ ReadableBytes(b) \in Nat /\ Lies(Content(b), b.data, b.reader)
  BY ContentFacts DEF Lies
<1>. QED
  BY <1>1, <1>2

LEMMA AllRetrievedFacts ==
  ASSUME NEW b, Sound(b)
  PROVE  /\ Sound(AllRetrieved(b)) /\ AllRetrieved(b).reader = CheapPrepend
         /\ Content(AllRetrieved(b)) = <<>>
<1>. DEFINE c == AllRetrieved(b)
<1>1. c = [b EXCEPT !.reader = CheapPrepend, !.writer = CheapPrepend]
  BY DEF AllRetrieved
<1>. HIDE DEF c
<1>2. c \in Buf /\ c.data = b.data /\ c.reader = CheapPrepend /\ c.writer = CheapPrepend
  BY <1>1, SoundFacts DEF Sound, Buf
<1>3. Sound(c) /\ ReadableBytes(c) = 0
  BY <1>2, SoundFacts DEF Sound, ReadableBytes
<1>4. Content(c) = <<>>
  BY <1>3, SoundFacts, EmptySeq
<1>. QED
  BY <1>2, <1>3, <1>4 DEF c

LEMMA RetrievedFacts ==
  ASSUME NEW b, Sound(b), NEW n \in 0 .. ReadableBytes(b)
  PROVE  /\ Sound(Retrieved(b, n))
         /\ Retrieved(b, n).reader >= b.reader \/ Retrieved(b, n).reader = CheapPrepend
         /\ Content(Retrieved(b, n)) = SubSeq(Content(b), n + 1, Len(Content(b)))
<1>. DEFINE c == Retrieved(b, n)
            s == Content(b)
            t == SubSeq(s, n + 1, Len(s))
<1>1. n \in Nat /\ n <= Len(s) /\ Len(s) \in Nat
  BY SoundFacts
<1>2. t \in Seq(Bytes) /\ Len(t) = Len(s) - n /\ Lies(t, b.data, b.reader + n)
  <2>1. s \in Seq(Bytes) /\ b.reader \in Nat /\ Lies(s, b.data, b.reader) /\ n \in 0 .. Len(s)
    BY <1>1, SoundFacts
  <2>. HIDE DEF s
  <2>. QED
    BY <2>1, DroppedFacts
<1>3. CASE n < ReadableBytes(b)
  <2>1. c = [b EXCEPT !.reader = @ + n]
    BY <1>3 DEF Retrieved
  <2>. HIDE DEF c, s, t
  <2>2. c \in Buf /\ c.data = b.data /\ c.reader = b.reader + n /\ c.writer = b.writer
    BY <1>1, <2>1, SoundFacts DEF Sound, Buf
  <2>3. Sound(c) /\ ReadableBytes(c) = ReadableBytes(b) - n
    BY <1>1, <1>3, <2>2, SoundFacts DEF Sound, ReadableBytes
  <2>4. Len(t) = ReadableBytes(c)
    BY <1>2, <2>3, SoundFacts DEF s
  <2>5. Content(c) = t
    BY <1>2, <2>2, <2>3, <2>4, ContentIs
  <2>. QED
    BY <1>1, <2>2, <2>3, <2>5, SoundFacts DEF c, s, t
<1>4. CASE n = ReadableBytes(b)
  <2>1. c = AllRetrieved(b)
    BY <1>4, SoundFacts DEF Retrieved
  <2>2. t = <<>>
    BY <1>2, <1>4, SoundFacts, EmptySeq
  <2>. QED
    BY <2>1, <2>2, AllRetrievedFacts
<1>. QED
  BY <1>3, <1>4, SoundFacts

LEMMA UnWrittenFacts ==
  ASSUME NEW b, Sound(b), NEW n \in 0 .. ReadableBytes(b)
  PROVE  /\ Sound(UnWritten(b, n)) /\ UnWritten(b, n).reader = b.reader
         /\ Content(UnWritten(b, n)) = SubSeq(Content(b), 1, Len(Content(b)) - n)
<1>. DEFINE c == UnWritten(b, n)
            s == Content(b)
            t == SubSeq(s, 1, Len(s) - n)
<1>1. n \in Nat /\ n <= Len(s) /\ Len(s) \in Nat /\ Len(s) - n \in Nat
  BY SoundFacts
<1>2. t \in Seq(Bytes) /\ Len(t) = Len(s) - n /\ Lies(t, b.data, b.reader)
  <2>1. PICK k \in 0 .. Len(s) : k = Len(s) - n
    BY <1>1
  <2>2. s \in Seq(Bytes) /\ b.reader \in Nat /\ Lies(s, b.data, b.reader)
    BY SoundFacts
  <2>. HIDE DEF s
  <2>3. SubSeq(s, 1, k) \in Seq(Bytes) /\ Len(SubSeq(s, 1, k)) = k /\ Lies(SubSeq(s, 1, k), b.data, b.reader)
    BY <2>2, TakenFacts
  <2>. QED
    BY <2>1, <2>3
<1>3. c = [b EXCEPT !.writer = @ - n]
  BY DEF UnWritten
<1>. HIDE DEF c, s, t
<1>4. b.writer - n \in Nat /\ b.reader <= b.writer - n
  BY <1>1, SoundFacts
<1>5. c \in Buf /\ c.data = b.data /\ c.reader = b.reader /\ c.writer = b.writer - n
  BY <1>3, <1>4, SoundFacts DEF Sound, Buf
<1>6. Sound(c) /\ ReadableBytes(c) = ReadableBytes(b) - n
  BY <1>1, <1>4, <1>5, SoundFacts DEF Sound, ReadableBytes
<1>7. Len(t) = ReadableBytes(c)
  BY <1>2, <1>6, SoundFacts DEF s
<1>8. Content(c) = t
  BY <1>2, <1>5, <1>6, <1>7, ContentIs
<1>. QED
  BY <1>5, <1>6, <1>8 DEF c, s, t
-----------------------------------------------------------------------------
(* A new buffer, and the one that Shrink swaps in.                         *)
LEMMA ConstructedFacts ==
  ASSUME NEW size \in Nat
  PROVE  /\ Sound(Constructed(size)) /\ Constructed(size).reader = CheapPrepend
         /\ Content(Constructed(size)) = <<>>
<1>. DEFINE c == Constructed(size)
            d == Resized(<<>>, CheapPrepend + size)
<1>1. CheapPrepend \in Nat /\ CheapPrepend + size \in Nat /\ CheapPrepend <= CheapPrepend + size
  BY BufferAssumption
<1>2. d \in Seq(Bytes) /\ Len(d) = CheapPrepend + size
  <2>1. <<>> \in Seq(Bytes)
    OBVIOUS
  <2>. QED
    BY <1>1, <2>1, ResizedFacts
<1>3. c = [data |-> d, reader |-> CheapPrepend, writer |-> CheapPrepend]
  BY DEF Constructed
<1>. HIDE DEF c, d
<1>4. c \in Buf /\ c.data = d /\ c.reader = CheapPrepend /\ c.writer = CheapPrepend
  BY <1>1, <1>2, <1>3 DEF Buf
<1>5. Sound(c) /\ ReadableBytes(c) = 0
  BY <1>1, <1>2, <1>4 DEF Sound, ReadableBytes
<1>6. Content(c) = <<>>
  BY <1>5, SoundFacts, EmptySeq
<1>. QED
  BY <1>4, <1>5, <1>6 DEF c

LEMMA ShrunkFacts ==
  ASSUME NEW b, Sound(b), NEW reserve \in Nat
  PROVE  /\ Sound(Shrunk(b, reserve)) /\ Shrunk(b, reserve).reader = CheapPrepend
         /\ Content(Shrunk(b, reserve)) = Content(b)
<1>. DEFINE new == Constructed(InitialSize)
            room == WithSpace(new, ReadableBytes(b) + reserve)
<1>1. Sound(new) /\ new.reader = CheapPrepend /\ Content(new) = <<>>
  BY ConstructedFacts, BufferAssumption
<1>. HIDE DEF new
<1>2. ReadableBytes(b) + reserve \in Nat
  BY SoundFacts
<1>3. Sound(room) /\ room.reader = CheapPrepend /\ Content(room) = <<>>
  BY <1>1, <1>2, WithSpaceFacts DEF SpaceMade
<1>4. Shrunk(b, reserve) = Appended(room, Content(b))
  BY DEF Shrunk, AppendedPiece, Content, new
<1>. HIDE DEF room
<1>5. Content(b) \in Seq(Bytes) /\ <<>> \o Content(b) = Content(b)
  BY SoundFacts, ConcatEmptySeq
<1>6. /\ Sound(Appended(room, Content(b)))
      /\ Appended(room, Content(b)).reader \in {room.reader, CheapPrepend}
      /\ Content(Appended(room, Content(b))) = Content(room) \o Content(b)
  BY <1>3, <1>5, AppendedFacts
<1>. QED
  BY <1>3, <1>4, <1>5, <1>6

(* What FindEOL and FindCRLF find is a readable byte.                      *)
LEMMA FirstFacts ==
  ASSUME NEW S \in SUBSET Nat, First(S) # -1
  PROVE  First(S) \in S
<1>1. S # {}
  BY DEF First
<1>2. \E i \in S : \A j \in S : i <= j
  BY <1>1, Least
<1>. QED
  BY <1>1, <1>2 DEF First

LEMMA FoundFacts ==
  ASSUME NEW b, Sound(b)
  PROVE  /\ \A start \in b.reader .. b.writer :
              FindEOL(b, start) # -1 => FindEOL(b, start) \in b.reader .. b.writer - 1
         /\ FindCRLF(b) # -1 => FindCRLF(b) \in b.reader .. b.writer - 1
<1>1. b.reader \in Nat /\ b.writer \in Nat /\ b.reader <= b.writer
  BY SoundFacts
<1>2. ASSUME NEW start \in b.reader .. b.writer, FindEOL(b, start) # -1
      PROVE  FindEOL(b, start) \in b.reader .. b.writer - 1
  <2>. DEFINE S == {i \in b.reader .. b.reader + (b.writer - start) - 1 : b.data[i + 1] = LF}
  <2>1. S \in SUBSET Nat /\ S \subseteq b.reader .. b.writer - 1
    BY <1>1
  <2>2. FindEOL(b, start) = First(S)
    BY DEF FindEOL
  <2>. HIDE DEF S
  <2>. QED
    BY <1>2, <2>1, <2>2, FirstFacts
<1>3. ASSUME FindCRLF(b) # -1
      PROVE  FindCRLF(b) \in b.reader .. b.writer - 1
  <2>. DEFINE S == {i \in b.reader .. b.writer - 2 : b.data[i + 1] = LF /\ b.data[i + 2] = CR}
  <2>1. S \in SUBSET Nat /\ S \subseteq b.reader .. b.writer - 1
    BY <1>1
  <2>2. FindCRLF(b) = First(S)
    BY DEF FindCRLF
  <2>. HIDE DEF S
  <2>. QED
    BY <1>3, <2>1, <2>2, FirstFacts
<1>. QED
  BY <1>2, <1>3
-----------------------------------------------------------------------------
(* The powers of the base, by recursion.                                   *)
LEMMA PowerFacts ==
  /\ Power \in [Nat -> Nat \ {0}]
  /\ Power[0] = 1
  /\ \A n \in Nat : Power[n + 1] = Base * Power[n]
<1>. DEFINE S == Nat \ {0}
            F == [k \in Nat \ {0} |-> [x \in S |-> Base * x]]
<1>1. \A x \in S : Base * x \in S
  BY BufferAssumption
<1>2. F \in [Nat \ {0} -> [S -> S]] /\ 1 \in S
  BY <1>1
<1>. HIDE DEF F
<1>3. EndlessRuns(S, 1, F) # {}
  <2>. HIDE DEF S
  <2>. QED
    BY <1>2, EndlessRecursion
<1>4. PICK f : f \in [Nat -> S] /\ f[0] = 1 /\ \A k \in Nat \ {0} : f[k] = F[k][f[k - 1]]
  BY <1>3 DEF EndlessRuns
<1>5. f = [n \in Nat |-> IF n = 0 THEN 1 ELSE Base * f[n - 1]]
  <2>1. ASSUME NEW n \in Nat
        PROVE  f[n] = IF n = 0 THEN 1 ELSE Base * f[n - 1]
    <3>1. CASE n = 0
      BY <1>4, <3>1
    <3>2. CASE n # 0
      <4>1. n \in Nat \ {0} /\ n - 1 \in Nat
        BY <3>2
      <4>2. f[n - 1] \in S /\ f[n] = F[n][f[n - 1]]
        BY <1>4, <4>1
      <4>3. F[n][f[n - 1]] = Base * f[n - 1]
        BY <4>1, <4>2 DEF F
      <4>. QED
        BY <3>2, <4>2, <4>3
    <3>. QED
      BY <3>1, <3>2
  <2>2. f = [n \in Nat |-> f[n]]
    BY <1>4
  <2>. QED
    BY <2>1, <2>2
<1>6. Power = [n \in Nat |-> IF n = 0 THEN 1 ELSE Base * Power[n - 1]]
  BY <1>5 DEF Power
<1>7. DOMAIN Power = Nat /\ Power[0] = 1 /\ \A n \in Nat : n # 0 => Power[n] = Base * Power[n - 1]
  BY <1>6
<1>8. \A n \in Nat : Power[n] \in S
  <2>. DEFINE Bad == {n \in Nat : Power[n] \notin S}
  <2>1. ASSUME Bad # {} PROVE FALSE
    <3>1. PICK n \in Bad : \A m \in Bad : n <= m
      <4>1. Bad \in SUBSET Nat
        OBVIOUS
      <4>. HIDE DEF Bad
      <4>. QED
        BY <2>1, <4>1, Least
    <3>2. n \in Nat \ {0} /\ n - 1 \in Nat /\ ~(n <= n - 1)
      BY <1>7
    <3>3. Power[n - 1] \in S
      BY <3>1, <3>2
    <3>. QED
      BY <1>1, <1>7, <3>2, <3>3
  <2>. QED
    BY <2>1
<1>9. \A n \in Nat : Power[n + 1] = Base * Power[n]
  <2>1. \A n \in Nat : n + 1 \in Nat /\ n + 1 # 0 /\ (n + 1) - 1 = n
    OBVIOUS
  <2>. HIDE DEF S
  <2>. QED
    BY <1>7, <2>1
<1>10. Power = [n \in Nat |-> Power[n]]
  BY <1>6
<1>. QED
  BY <1>7, <1>8, <1>9, <1>10

(* What Unsigned sums up, by any function that obeys its recursion.        *)
Sums(bs) ==
  {f \in [0 .. Len(bs) -> Int] : f[0] = 0 /\ \A k \in 1 .. Len(bs) : f[k] = Base * f[k - 1] + bs[k]}

LEMMA UnsignedIs ==
  ASSUME NEW bs, Len(bs) \in Nat, NEW f \in Sums(bs)
  PROVE  Unsigned(bs) = f[Len(bs)]
<1>. DEFINE Is(g) == g = [k \in 0 .. Len(bs) |-> IF k = 0 THEN 0 ELSE Base * g[k - 1] + bs[k]]
            u == CHOOSE g : Is(g)
<1>1. Unsigned(bs) = u[Len(bs)]
  BY DEF Unsigned
<1>2. f \in [0 .. Len(bs) -> Int] /\ f[0] = 0 /\ \A k \in 1 .. Len(bs) : f[k] = Base * f[k - 1] + bs[k]
  BY DEF Sums
<1>3. Is(f)
  <2>1. \A k \in 0 .. Len(bs) : f[k] = IF k = 0 THEN 0 ELSE Base * f[k - 1] + bs[k]
    BY <1>2
  <2>2. f = [k \in 0 .. Len(bs) |-> f[k]]
    BY <1>2
  <2>. QED
    BY <2>1, <2>2
<1>4. Is(u)
  <2>. HIDE DEF Is
  <2>. QED
    BY <1>3
<1>. HIDE DEF u
<1>5. u[0] = 0 /\ \A k \in 1 .. Len(bs) : u[k] = Base * u[k - 1] + bs[k]
  BY <1>4
<1>6. \A k \in 0 .. Len(bs) : u[k] = f[k]
  <2>. DEFINE Bad == {k \in 0 .. Len(bs) : u[k] # f[k]}
  <2>1. ASSUME Bad # {} PROVE FALSE
    <3>1. PICK k \in Bad : \A l \in Bad : k <= l
      <4>1. Bad \in SUBSET Nat
        OBVIOUS
      <4>. HIDE DEF Bad
      <4>. QED
        BY <2>1, <4>1, Least
    <3>2. k \in 1 .. Len(bs) /\ k - 1 \in 0 .. Len(bs) /\ ~(k <= k - 1)
      BY <1>2, <1>5, <3>1
    <3>3. u[k - 1] = f[k - 1]
      BY <3>1, <3>2
    <3>4. u[k] = f[k]
      BY <1>2, <1>5, <3>2, <3>3
    <3>. QED
      BY <3>1, <3>4
  <2>. QED
    BY <2>1
<1>. QED
  BY <1>1, <1>6

LEMMA SumStep ==
  ASSUME NEW b \in Int, NEW c \in Int, NEW d \in Int, NEW e \in Int, NEW p \in Int, NEW z \in Int,
         d = b * c + e
  PROVE  d - z * (b * p) = b * (c - z * p) + e
OBVIOUS

(* NetworkToHost undoes HostToNetwork.  With q[k] the integer without its  *)
(* last n - k bytes, the first k bytes sum up to q[k] - q[0] * Power[k].   *)
LEMMA IntsFacts ==
  ASSUME NEW n \in Nat, NEW x \in Ints(n)
  PROVE  NetworkToHost(HostToNetwork(x, n)) = x
<1>. DEFINE bs == HostToNetwork(x, n)
            q == [k \in 0 .. n |-> x \div Power[n - k]]
            f == [k \in 0 .. n |-> q[k] - q[0] * Power[k]]
<1>1. x \in Int /\ Len(bs) = n /\ \A k \in 1 .. n : bs[k] = q[k] % Base
  BY DEF Ints, HostToNetwork
<1>. HIDE DEF bs
<1>2. ASSUME NEW k \in 0 .. n
      PROVE  Power[k] \in Nat \ {0} /\ Power[n - k] \in Nat \ {0} /\ q[k] \in Int /\ q[k] = x \div Power[n - k]
  <2>1. n - k \in Nat /\ k \in Nat
    OBVIOUS
  <2>2. Power[n - k] \in Nat \ {0} /\ Power[k] \in Nat \ {0}
    BY <2>1, PowerFacts
  <2>3. q[k] = x \div Power[n - k]
    OBVIOUS
  <2>. HIDE DEF q
  <2>. QED
    BY <1>1, <2>2, <2>3, QuotientFacts
<1>3. ASSUME NEW k \in 1 .. n
      PROVE  q[k] = Base * q[k - 1] + bs[k] /\ Power[k] = Base * Power[k - 1]
  <2>1. /\ k - 1 \in 0 .. n /\ k \in 0 .. n /\ n - k \in Nat /\ n - (k - 1) = (n - k) + 1
        /\ k - 1 \in Nat /\ (k - 1) + 1 = k
    OBVIOUS
  <2>2. PICK p \in Nat \ {0} : p = Power[n - k]
    BY <2>1, PowerFacts
  <2>3. Power[n - (k - 1)] = Base * p /\ Power[k] = Base * Power[k - 1]
    BY <2>1, <2>2, PowerFacts
  <2>4. q[k] = x \div p /\ q[k - 1] = x \div (Base * p)
    BY <1>2, <2>1, <2>2, <2>3
  <2>. HIDE DEF q, f
  <2>5. Base \in Nat \ {0}
    BY BufferAssumption
  <2>6. q[k - 1] = q[k] \div Base
    BY <1>1, <2>2, <2>4, <2>5, QuotientTwice
  <2>7. q[k] \in Int
    BY <1>2, <2>1
  <2>8. q[k] = Base * (q[k] \div Base) + (q[k] % Base)
    BY <2>5, <2>7, QuotientFacts
  <2>. QED
    BY <1>1, <2>3, <2>6, <2>8
<1>4. f \in Sums(bs)
  <2>1. \A k \in 0 .. n : f[k] = q[k] - q[0] * Power[k] /\ f[k] \in Int /\ 0 \in 0 .. n
    BY <1>2
  <2>2. f[0] = 0
    BY <1>2, <2>1, PowerFacts
  <2>3. f \in [0 .. n -> Int]
    BY <2>1
  <2>. HIDE DEF f, q
  <2>4. ASSUME NEW k \in 1 .. n
        PROVE  f[k] = Base * f[k - 1] + bs[k]
    <3>1. k - 1 \in 0 .. n /\ k \in 0 .. n
      OBVIOUS
    <3>2. /\ q[k - 1] \in Int /\ q[k] \in Int /\ q[0] \in Int /\ Power[k - 1] \in Int
          /\ Base \in Int
      BY <1>2, <2>1, <3>1, BufferAssumption
    <3>3. bs[k] \in Int
      BY <1>1, <3>2, BufferAssumption
    <3>4. q[k] = Base * q[k - 1] + bs[k] /\ Power[k] = Base * Power[k - 1]
      BY <1>3
    <3>5. q[k] - q[0] * (Base * Power[k - 1]) = Base * (q[k - 1] - q[0] * Power[k - 1]) + bs[k]
      BY <3>2, <3>3, <3>4, SumStep
    <3>. QED
      BY <2>1, <3>1, <3>4, <3>5
  <2>. QED
    BY <1>1, <2>2, <2>3, <2>4 DEF Sums
<1>5. Unsigned(bs) = q[n] - q[0] * Power[n]
  <2>1. Unsigned(bs) = f[n]
    <3>. HIDE DEF f
    <3>. QED
      BY <1>1, <1>4, UnsignedIs
  <2>. QED
    BY <2>1
<1>6. PICK P \in Nat \ {0}, h \in Nat : P = Power[n] /\ h = P \div 2 /\ 2 * h <= P
  <2>1. Power[n] \in Nat \ {0}
    BY PowerFacts
  <2>. QED
    BY <2>1
<1>7. x \in -h .. h - 1
  BY <1>6 DEF Ints
<1>8. q[n] = x
  <2>1. n \in 0 .. n /\ n - n = 0
    OBVIOUS
  <2>2. q[n] = x \div 1
    BY <2>1, PowerFacts
  <2>. QED
    BY <1>1, <2>2
<1>9. q[0] = IF x < 0 THEN -1 ELSE 0
  <2>1. 0 \in 0 .. n /\ n - 0 = n
    OBVIOUS
  <2>2. q[0] = x \div P
    BY <1>6, <2>1
  <2>3. CASE x < 0
    <3>1. PICK r \in 0 .. P - 1 : r = x + P
      BY <1>6, <1>7, <2>3
    <3>2. x = P * (-1) + r
      BY <1>1, <3>1
    <3>3. x \div P = -1
      BY <1>1, <3>2, QuotientIs
    <3>. QED
      BY <2>2, <2>3, <3>3
  <2>4. CASE x >= 0
    <3>1. x \in 0 .. P - 1 /\ x = P * 0 + x
      BY <1>6, <1>7, <2>4
    <3>2. x \div P = 0
      BY <1>1, <3>1, QuotientIs
    <3>. QED
      BY <1>1, <2>2, <2>4, <3>2
  <2>. QED
    BY <1>1, <2>3, <2>4
<1>. HIDE DEF q, f
<1>10. Unsigned(bs) = IF x < 0 THEN x + P ELSE x
  BY <1>1, <1>5, <1>6, <1>8, <1>9
<1>11. NetworkToHost(bs) = IF Unsigned(bs) < h THEN Unsigned(bs) ELSE Unsigned(bs) - P
  BY <1>1, <1>6 DEF NetworkToHost
<1>. QED
  BY <1>6, <1>7, <1>10, <1>11 DEF bs
-----------------------------------------------------------------------------
(* What a step keeps: the type, the promise and the room in front.         *)
RoomKept == call'[1] = "prepend" \/ buf'.reader >= buf.reader \/ buf'.reader >= CheapPrepend

Keeps == Sound(buf') /\ [Q!Next]_<<Content(buf), call>> /\ RoomKept

LEMMA ChunkFacts ==
  /\ \A bs \in Chunks : bs \in Seq(Bytes) /\ Len(bs) \in Nat
  /\ \A n \in Widths : \A x \in Ints(n) : HostToNetwork(x, n) \in Chunks
<1>1. \A bs \in Chunks : bs \in Seq(Bytes) /\ Len(bs) \in Nat
  BY BufferAssumption
<1>2. ASSUME NEW n \in Widths, NEW x \in Ints(n)
      PROVE  HostToNetwork(x, n) \in Chunks
  <2>1. n \in Nat /\ x \in Int
    BY BufferAssumption DEF Ints
  <2>2. ASSUME NEW i \in 1 .. n
        PROVE  (x \div Power[n - i]) % Base \in Bytes
    <3>1. n - i \in Nat
      BY <2>1
    <3>2. PICK p \in Nat \ {0} : p = Power[n - i]
      BY <3>1, PowerFacts
    <3>3. PICK q \in Int : q = x \div p
      BY <2>1
    <3>4. q % Base \in Bytes
      BY BufferAssumption DEF Bytes
    <3>. QED
      BY <3>2, <3>3, <3>4
  <2>3. HostToNetwork(x, n) \in [1 .. n -> Bytes]
    BY <2>2 DEF HostToNetwork
  <2>. QED
    BY <2>3, BufferAssumption
<1>. QED
  BY <1>1, <1>2

LEMMA AppendStep ==
  ASSUME Sound(buf), NEW bs \in Chunks, AppendBytes(bs)
  PROVE  Keeps
<1>1. bs \in Seq(Bytes)
  BY ChunkFacts
<1>2. buf' = Appended(buf, bs) /\ call' = <<"append", bs>>
  BY DEF AppendBytes
<1>3. /\ Sound(buf') /\ buf'.reader \in {buf.reader, CheapPrepend}
      /\ Content(buf') = Content(buf) \o bs
  BY <1>1, <1>2, AppendedFacts
<1>4. Q!Next
  BY <1>2, <1>3 DEF Q!Next, Q!Write
<1>. QED
  BY <1>3, <1>4, SoundFacts DEF Keeps, RoomKept

LEMMA WriteInPlaceStep ==
  ASSUME Sound(buf), NEW bs \in Chunks, WriteInPlace(bs)
  PROVE  Keeps
<1>1. bs \in Seq(Bytes)
  BY ChunkFacts
<1>2. buf' = Written(buf, bs) /\ call' = <<"append", bs>> /\ Len(bs) <= WriteableBytes(buf)
  BY DEF WriteInPlace
<1>3. Sound(buf') /\ buf'.reader = buf.reader /\ Content(buf') = Content(buf) \o bs
  BY <1>1, <1>2, WrittenFacts
<1>4. Q!Next
  BY <1>2, <1>3 DEF Q!Next, Q!Write
<1>. QED
  BY <1>3, <1>4, SoundFacts DEF Keeps, RoomKept

LEMMA PrependStep ==
  ASSUME Sound(buf), NEW bs \in Chunks, Prepend(bs)
  PROVE  Keeps
<1>1. bs \in Seq(Bytes)
  BY ChunkFacts
<1>2. buf' = Prepended(buf, bs) /\ call' = <<"prepend", bs>> /\ Len(bs) <= PrependableBytes(buf)
  BY DEF Prepend
<1>3. Sound(buf') /\ Content(buf') = bs \o Content(buf)
  BY <1>1, <1>2, PrependedFacts
<1>4. Q!Next
  BY <1>2, <1>3 DEF Q!Next, Q!Prepend
<1>. QED
  BY <1>2, <1>3, <1>4 DEF Keeps, RoomKept

(* Every call of Retrieve, whatever the client gets of it.                 *)
LEMMA RetrievedStep ==
  ASSUME Sound(buf), NEW n \in 0 .. ReadableBytes(buf), buf' = Retrieved(buf, n),
         call' \in {<<"retrieve", n>>, <<"string", SubSeq(Content(buf), 1, n)>>}
  PROVE  Keeps
<1>1. /\ Sound(buf')
      /\ buf'.reader >= buf.reader \/ buf'.reader = CheapPrepend
      /\ Content(buf') = SubSeq(Content(buf), n + 1, Len(Content(buf)))
  BY RetrievedFacts
<1>2. n \in 0 .. Len(Content(buf)) /\ n <= Len(Content(buf))
  BY SoundFacts
<1>3. Q!Next
  BY <1>1, <1>2 DEF Q!Next, Q!Retrieve, Q!RetrieveAsString
<1>. QED
  BY <1>1, <1>3, SoundFacts DEF Keeps, RoomKept

LEMMA RetrieveStep ==
  ASSUME Sound(buf), NEW n \in Nat, Retrieve(n)
  PROVE  Keeps
BY RetrievedStep, SoundFacts DEF Retrieve

LEMMA RetrieveAsStringStep ==
  ASSUME Sound(buf), NEW n \in Nat, RetrieveAsString(n)
  PROVE  Keeps
<1>. DEFINE s == Content(buf)
            t == Text(buf.data, Piece(buf.reader, n))
            u == SubSeq(s, 1, n)
<1>1. /\ n \in 0 .. ReadableBytes(buf) /\ n \in 0 .. Len(s)
      /\ buf.data \in Seq(Bytes) /\ buf.reader \in Nat /\ buf.reader + n <= Len(buf.data)
      /\ s \in Seq(Bytes) /\ Lies(s, buf.data, buf.reader)
  BY SoundFacts DEF RetrieveAsString
<1>2. t = u
  <2>. HIDE DEF s, u
  <2>1. t \in Seq(Bytes) /\ Len(t) = n /\ \A i \in 1 .. n : t[i] = buf.data[buf.reader + i]
    BY <1>1, TextFacts
  <2>. USE DEF u
  <2>2. u \in Seq(Bytes) /\ Len(u) = n /\ Lies(u, buf.data, buf.reader)
    BY <1>1, TakenFacts
  <2>. HIDE DEF t, u
  <2>. QED
    BY <2>1, <2>2, SeqEqual DEF Lies
<1>. QED
  BY <1>1, <1>2, RetrievedStep DEF RetrieveAsString

LEMMA RetrieveAllStep ==
  ASSUME Sound(buf), RetrieveAll
  PROVE  Keeps
<1>1. PICK n \in 0 .. ReadableBytes(buf) : n = ReadableBytes(buf)
  BY SoundFacts
<1>2. buf' = Retrieved(buf, n) /\ call' = <<"retrieve", n>>
  BY <1>1, SoundFacts DEF RetrieveAll, Retrieved
<1>. QED
  BY <1>2, RetrievedStep

LEMMA RetrieveLineStep ==
  ASSUME Sound(buf), RetrieveLine
  PROVE  Keeps
<1>1. PICK found : found \in buf.reader .. buf.writer - 1 /\ RetrieveFound(found)
  <2>1. CASE RetrieveFound(FindCRLF(buf))
    BY <2>1, FoundFacts DEF RetrieveFound
  <2>2. CASE \E start \in buf.reader .. buf.writer : RetrieveFound(FindEOL(buf, start))
    BY <2>2, FoundFacts DEF RetrieveFound
  <2>. QED
    BY <2>1, <2>2 DEF RetrieveLine
<1>2. PICK end \in {found, found + 1} :
        buf' = Retrieved(buf, end - buf.reader) /\ call' = <<"retrieve", end - buf.reader>>
  BY <1>1 DEF RetrieveFound
<1>3. PICK n \in 0 .. ReadableBytes(buf) : n = end - buf.reader
  BY <1>1, SoundFacts
<1>. QED
  BY <1>2, <1>3, RetrievedStep

LEMMA UnWriteStep ==
  ASSUME Sound(buf), NEW n \in Nat, UnWrite(n)
  PROVE  Keeps
<1>1. /\ n \in 0 .. ReadableBytes(buf) /\ n \in 0 .. Len(Content(buf))
      /\ buf' = UnWritten(buf, n) /\ call' = <<"unwrite", n>>
  BY SoundFacts DEF UnWrite
<1>2. /\ Sound(buf') /\ buf'.reader = buf.reader
      /\ Content(buf') = SubSeq(Content(buf), 1, Len(Content(buf)) - n)
  BY <1>1, UnWrittenFacts
<1>3. Q!Next
  BY <1>1, <1>2 DEF Q!Next, Q!UnWrite
<1>. QED
  BY <1>2, <1>3, SoundFacts DEF Keeps, RoomKept

LEMMA ReserveStep ==
  ASSUME Sound(buf), NEW n \in Nat, EnsureWriteableBytes(n) \/ Shrink(n)
  PROVE  Keeps
<1>1. /\ Sound(buf') /\ buf'.reader \in {buf.reader, CheapPrepend}
      /\ Content(buf') = Content(buf) /\ call' = <<"reserve">>
  <2>1. CASE EnsureWriteableBytes(n)
    BY <2>1, WithSpaceFacts DEF EnsureWriteableBytes, SpaceMade
  <2>2. CASE Shrink(n)
    BY <2>2, ShrunkFacts DEF Shrink, Swap
  <2>. QED
    BY <2>1, <2>2
<1>2. Q!Next
  BY <1>1 DEF Q!Next, Q!Reserve
<1>. QED
  BY <1>1, <1>2, SoundFacts DEF Keeps, RoomKept

LEMMA BufferStep ==
  ASSUME Sound(buf), [Next]_vars
  PROVE  Sound(buf') /\ [Q!Next]_<<Content(buf), call>> /\ [RoomKept]_vars
<1>1. ASSUME NEW bs \in Chunks, AppendBytes(bs) \/ WriteInPlace(bs) \/ Prepend(bs)
      PROVE  Keeps
  BY <1>1, AppendStep, WriteInPlaceStep, PrependStep
<1>2. ASSUME NEW n \in 0 .. MaxSize,
             Retrieve(n) \/ RetrieveAsString(n) \/ UnWrite(n) \/ EnsureWriteableBytes(n) \/ Shrink(n)
      PROVE  Keeps
  <2>1. n \in Nat
    OBVIOUS
  <2>. QED
    BY <1>2, <2>1, RetrieveStep, RetrieveAsStringStep, UnWriteStep, ReserveStep
<1>3. ASSUME RetrieveAll \/ RetrieveLine
      PROVE  Keeps
  BY <1>3, RetrieveAllStep, RetrieveLineStep
<1>4. ASSUME NEW n \in Widths, ReadInt(n)
      PROVE  Keeps
  <2>1. n \in Nat
    BY BufferAssumption
  <2>. QED
    BY <1>4, <2>1, RetrieveStep DEF ReadInt, RetrieveInt
<1>5. ASSUME NEW n \in Widths, NEW x \in Ints(n), AppendInt(n, x) \/ PrependInt(n, x)
      PROVE  Keeps
  <2>1. HostToNetwork(x, n) \in Chunks
    BY ChunkFacts
  <2>. QED
    BY <1>5, <2>1, AppendStep, PrependStep DEF AppendInt, PrependInt
<1>6. CASE Next
  BY <1>1, <1>2, <1>3, <1>4, <1>5, <1>6 DEF Next, Keeps
<1>7. CASE UNCHANGED vars
  BY <1>7 DEF vars
<1>. QED
  BY <1>6, <1>7
-----------------------------------------------------------------------------
(* The indices of a buffer stay in order and inside the vector, and the    *)
(* vector never becomes shorter than kCheapPrepend.                        *)
THEOREM BufferTypeCorrect == Spec => []TypeOK
<1>1. TypeOK <=> Sound(buf)
  BY DEF TypeOK, IndicesOrdered, Sound, Buf
<1>2. Init => Sound(buf)
  BY ConstructedFacts, BufferAssumption DEF Init
<1>3. Sound(buf) /\ [Next]_vars => Sound(buf)'
  BY BufferStep
<1>. QED
  BY <1>1, <1>2, <1>3, PTL DEF Spec

(* A Buffer is a byte queue: no move, growth, shrinking or reset of the    *)
(* indices is visible in its content.                                      *)
THEOREM BufferIsByteQueue == Spec => ImplementsByteQueue
<1>1. Init => Sound(buf) /\ Q!Init
  BY ConstructedFacts, BufferAssumption DEF Init, Q!Init
<1>2. Sound(buf) /\ [Next]_vars => Sound(buf)' /\ [Q!Next]_<<Content(buf), call>>
  BY BufferStep
<1>. QED
  BY <1>1, <1>2, PTL DEF Spec, ImplementsByteQueue, Q!Spec

(* Only Prepend uses up the room in front of the content.                  *)
THEOREM RoomKeptForPrepend == Spec => PrependRoomKept
<1>1. Init => Sound(buf)
  BY ConstructedFacts, BufferAssumption DEF Init
<1>2. Sound(buf) /\ [Next]_vars => Sound(buf)' /\ [RoomKept]_vars
  BY BufferStep
<1>. QED
  BY <1>1, <1>2, PTL DEF Spec, PrependRoomKept, RoomKept
-----------------------------------------------------------------------------
(* What memcmp says of two stretches of memory: where they first differ.   *)
Same(m, a, b, n) == \A i \in 1 .. n : m[a + i] = m[b + i]

FirstDifference(m, a, b, n, i) ==
  /\ i \in 1 .. n /\ m[a + i] # m[b + i]
  /\ \A j \in 1 .. n : j < i => m[a + j] = m[b + j]

LEMMA MemcmpFacts ==
  ASSUME NEW m, NEW a, NEW b, NEW n \in Nat
  PROVE  \/ Same(m, a, b, n) /\ Memcmp(m, a, b, n) = 0
         \/ \E i : /\ FirstDifference(m, a, b, n, i)
                   /\ Memcmp(m, a, b, n) = IF m[a + i] < m[b + i] THEN -1 ELSE 1
<1>. DEFINE D == {i \in 1 .. n : m[a + i] # m[b + i]}
            first == CHOOSE i \in D : \A j \in D : i <= j
<1>1. CASE D = {}
  <2>1. Memcmp(m, a, b, n) = 0
    BY <1>1 DEF Memcmp
  <2>. QED
    BY <1>1, <2>1 DEF Same
<1>2. CASE D # {}
  <2>1. first \in D /\ \A j \in D : first <= j
    <3>1. D \in SUBSET Nat
      OBVIOUS
    <3>. HIDE DEF D
    <3>2. \E i \in D : \A j \in D : i <= j
      BY <1>2, <3>1, Least
    <3>. QED
      BY <3>2
  <2>2. Memcmp(m, a, b, n) = IF m[a + first] < m[b + first] THEN -1 ELSE 1
    BY <1>2 DEF Memcmp
  <2>. HIDE DEF first
  <2>3. \A j \in 1 .. n : j < first => j \notin D
    BY <2>1
  <2>4. FirstDifference(m, a, b, n, first)
    BY <2>1, <2>3 DEF FirstDifference
  <2>. QED
    BY <2>2, <2>4
<1>. QED
  BY <1>1, <1>2

(* A piece inside the memory, and its text.                                *)
Inside(m, p) ==
  /\ p = Piece(p.ptr, p.length) /\ p.ptr \in Nat /\ p.length \in Nat
  /\ p.ptr + p.length <= Len(m)

LEMMA InsideFacts ==
  ASSUME NEW m \in Seq(Bytes), NEW p, Inside(m, p)
  PROVE  /\ Text(m, p) \in Seq(Bytes) /\ Len(Text(m, p)) = p.length
         /\ \A i \in 1 .. p.length : Text(m, p)[i] = m[p.ptr + i] /\ Text(m, p)[i] \in Int
<1>1. PICK at \in Nat, n \in Nat : at = p.ptr /\ n = p.length
  BY DEF Inside
<1>2. p = Piece(at, n) /\ at + n <= Len(m)
  BY <1>1 DEF Inside
<1>3. /\ Text(m, Piece(at, n)) \in Seq(Bytes) /\ Len(Text(m, Piece(at, n))) = n
      /\ \A i \in 1 .. n : Text(m, Piece(at, n))[i] = m[at + i]
  BY <1>2, TextFacts
<1>4. \A i \in 1 .. n : Text(m, Piece(at, n))[i] \in Int
  <2>1. \A i \in 1 .. n : Text(m, Piece(at, n))[i] \in Bytes
    BY <1>3
  <2>2. Bytes \subseteq Int
    BY DEF Bytes
  <2>. QED
    BY <2>1, <2>2
<1>. QED
  BY <1>1, <1>2, <1>3, <1>4

LEMMA PiecesInside ==
  ASSUME Sound(buf), NEW p \in Pieces
  PROVE  Inside(buf.data, p)
<1>. DEFINE m == buf.data
<1>1. /\ Len(m) \in Nat /\ buf.reader \in Nat /\ ReadableBytes(buf) \in Nat
      /\ buf.reader + ReadableBytes(buf) <= Len(m)
  BY SoundFacts
<1>. HIDE DEF m
<1>2. ASSUME NEW at \in 0 .. Len(m) - 1, HasNul(m, at), p = OfCString(m, at)
      PROVE  Inside(m, p)
  <2>. DEFINE N == {i \in at + 1 .. Len(m) : m[i] = 0}
              L(n) == m[at + n + 1] = 0 /\ \A i \in at + 1 .. at + n : m[i] # 0
              len == CHOOSE n \in 0 .. Len(m) - at - 1 : L(n)
  <2>1. PICK i \in N : \A j \in N : i <= j
    <3>1. N \in SUBSET Nat /\ N # {}
      BY <1>1, <1>2 DEF HasNul
    <3>. HIDE DEF N
    <3>. QED
      BY <3>1, Least
  <2>2. i - at - 1 \in 0 .. Len(m) - at - 1 /\ L(i - at - 1)
    <3>1. i - at - 1 \in 0 .. Len(m) - at - 1 /\ at + (i - at - 1) + 1 = i /\ at + (i - at - 1) = i - 1
      BY <1>1, <2>1
    <3>2. \A j \in at + 1 .. i - 1 : m[j] # 0
      BY <1>1, <2>1
    <3>. QED
      BY <2>1, <3>1, <3>2
  <2>3. len \in 0 .. Len(m) - at - 1
    <3>. HIDE DEF L
    <3>. QED
      BY <2>2
  <2>4. p = Piece(at, len)
    BY <1>2 DEF OfCString
  <2>. HIDE DEF len
  <2>. QED
    BY <1>1, <2>3, <2>4 DEF Inside, Piece
<1>3. ASSUME NEW i \in 0 .. ReadableBytes(buf), NEW j \in 0 .. ReadableBytes(buf) - i,
             p = WithoutSuffix(WithoutPrefix(ToStringPiece(buf), i), j)
      PROVE  Inside(m, p)
  <2>1. p = Piece(buf.reader + i, ReadableBytes(buf) - i - j)
    BY <1>3 DEF WithoutSuffix, WithoutPrefix, ToStringPiece, Piece
  <2>. QED
    BY <1>1, <2>1 DEF Inside, Piece
<1>. QED
  BY <1>2, <1>3 DEF Pieces, m

(* Compare, == and StartWith of two pieces, by their texts.                *)
OrderedAsText(m, p, q) ==
  LET s == Text(m, p)
      t == Text(m, q)
  IN  /\ Compare(m, p, q) = IF Precedes(s, t) THEN -1 ELSE IF s = t THEN 0 ELSE 1
      /\ Equal(m, p, q) <=> s = t
      /\ StartWith(m, p, q) <=> q.length <= p.length /\ SubSeq(s, 1, q.length) = t

(* The order of two texts that agree as far as both reach, and of two that *)
(* first differ at i.                                                      *)
LEMMA AgreeingTexts ==
  ASSUME NEW s, NEW t, Len(s) \in Nat, Len(t) \in Nat,
         \A i \in 1 .. Len(s) : s[i] \in Int, \A i \in 1 .. Len(t) : t[i] \in Int,
         \A i \in 1 .. Len(s) : i <= Len(t) => s[i] = t[i]
  PROVE  Precedes(s, t) <=> Len(s) < Len(t)
<1>1. ASSUME Len(s) < Len(t) PROVE Precedes(s, t)
  BY <1>1 DEF Precedes
<1>2. ASSUME Precedes(s, t), ~(Len(s) < Len(t)) PROVE FALSE
  <2>1. PICK k \in 0 .. Len(s) :
          k < Len(t) /\ (\A i \in 1 .. k : s[i] = t[i]) /\ (k = Len(s) \/ s[k + 1] < t[k + 1])
    BY <1>2 DEF Precedes
  <2>2. k + 1 \in 1 .. Len(s) /\ k + 1 <= Len(t) /\ s[k + 1] < t[k + 1]
    BY <1>2, <2>1
  <2>3. s[k + 1] = t[k + 1] /\ s[k + 1] \in Int
    BY <2>2
  <2>. QED
    BY <2>2, <2>3
<1>. QED
  BY <1>1, <1>2

LEMMA DifferingTexts ==
  ASSUME NEW s, NEW t, Len(s) \in Nat, Len(t) \in Nat,
         \A i \in 1 .. Len(s) : s[i] \in Int, \A i \in 1 .. Len(t) : t[i] \in Int,
         NEW d \in 1 .. Len(s), d <= Len(t), s[d] # t[d], \A i \in 1 .. d - 1 : s[i] = t[i]
  PROVE  Precedes(s, t) <=> s[d] < t[d]
<1>1. ASSUME s[d] < t[d] PROVE Precedes(s, t)
  <2>1. PICK k \in 0 .. Len(s) : k = d - 1 /\ k < Len(t) /\ k + 1 = d
    OBVIOUS
  <2>. QED
    BY <1>1, <2>1 DEF Precedes
<1>2. ASSUME Precedes(s, t), ~(s[d] < t[d]) PROVE FALSE
  <2>1. PICK k \in 0 .. Len(s) :
          k < Len(t) /\ (\A i \in 1 .. k : s[i] = t[i]) /\ (k = Len(s) \/ s[k + 1] < t[k + 1])
    BY <1>2 DEF Precedes
  <2>2. k < d
    <3>1. CASE d <= k
      BY <2>1, <3>1
    <3>. QED
      BY <3>1
  <2>3. k + 1 \in 1 .. Len(s) /\ k # Len(s) /\ k + 1 <= d
    BY <2>2
  <2>4. s[k + 1] < t[k + 1] /\ s[k + 1] \in Int /\ t[k + 1] \in Int
    BY <2>1, <2>3
  <2>5. CASE k + 1 = d
    BY <1>2, <2>4, <2>5
  <2>6. CASE k + 1 < d
    BY <2>3, <2>4, <2>6
  <2>. QED
    BY <2>3, <2>5, <2>6
<1>. QED
  BY <1>1, <1>2

LEMMA PieceOrder ==
  ASSUME NEW m \in Seq(Bytes), NEW p, NEW q, Inside(m, p), Inside(m, q)
  PROVE  OrderedAsText(m, p, q)
<1>. DEFINE s == Text(m, p)
            t == Text(m, q)
            a == p.ptr
            b == q.ptr
            low == IF p.length < q.length THEN p.length ELSE q.length
<1>1. /\ s \in Seq(Bytes) /\ Len(s) = p.length /\ Len(s) \in Nat
      /\ t \in Seq(Bytes) /\ Len(t) = q.length /\ Len(t) \in Nat
      /\ \A i \in 1 .. Len(s) : s[i] = m[a + i] /\ s[i] \in Int
      /\ \A i \in 1 .. Len(t) : t[i] = m[b + i] /\ t[i] \in Int
  BY InsideFacts DEF Inside
<1>2. low \in Nat /\ low <= Len(s) /\ low <= Len(t) /\ (low = Len(s) \/ low = Len(t))
  BY <1>1
<1>. HIDE DEF s, t
<1>3. Compare(m, p, q) = IF Precedes(s, t) THEN -1 ELSE IF s = t THEN 0 ELSE 1
  <2>. DEFINE r == Memcmp(m, a, b, low)
  <2>1. Compare(m, p, q) = IF r # 0 THEN r ELSE IF Len(s) < Len(t) THEN -1 ELSE IF Len(s) > Len(t) THEN 1 ELSE 0
    BY <1>1 DEF Compare
  <2>2. \/ Same(m, a, b, low) /\ r = 0
        \/ \E i : /\ FirstDifference(m, a, b, low, i)
                  /\ r = IF m[a + i] < m[b + i] THEN -1 ELSE 1
    BY <1>2, MemcmpFacts
  <2>. HIDE DEF r, low, a, b
  <2>3. CASE Same(m, a, b, low) /\ r = 0
    <3>1. \A i \in 1 .. Len(s) : i <= Len(t) => s[i] = t[i]
      BY <1>1, <1>2, <2>3 DEF Same
    <3>2. Precedes(s, t) <=> Len(s) < Len(t)
      BY <1>1, <3>1, AgreeingTexts
    <3>3. s = t <=> Len(s) = Len(t)
      BY <1>1, <3>1, SeqEqual
    <3>. QED
      BY <1>1, <2>1, <2>3, <3>2, <3>3
  <2>4. ASSUME NEW i, FirstDifference(m, a, b, low, i),
               r = IF m[a + i] < m[b + i] THEN -1 ELSE 1
        PROVE  Compare(m, p, q) = IF Precedes(s, t) THEN -1 ELSE IF s = t THEN 0 ELSE 1
    <3>1. /\ i \in 1 .. Len(s) /\ i <= Len(t) /\ i \in 1 .. Len(t)
          /\ s[i] = m[a + i] /\ t[i] = m[b + i] /\ s[i] # t[i]
      BY <1>1, <1>2, <2>4 DEF FirstDifference
    <3>2. \A j \in 1 .. i - 1 : s[j] = t[j]
      BY <1>1, <1>2, <2>4 DEF FirstDifference
    <3>3. Precedes(s, t) <=> s[i] < t[i]
      BY <1>1, <3>1, <3>2, DifferingTexts
    <3>. QED
      BY <2>1, <2>4, <3>1, <3>3
  <2>. QED
    BY <2>2, <2>3, <2>4
<1>4. Equal(m, p, q) <=> s = t
  <2>1. \/ Same(m, a, b, Len(s)) /\ Memcmp(m, a, b, Len(s)) = 0
        \/ \E i : /\ FirstDifference(m, a, b, Len(s), i)
                  /\ Memcmp(m, a, b, Len(s)) = IF m[a + i] < m[b + i] THEN -1 ELSE 1
    BY <1>1, MemcmpFacts
  <2>2. Equal(m, p, q) <=> Len(s) = Len(t) /\ Memcmp(m, a, b, Len(s)) = 0
    BY <1>1 DEF Equal
  <2>. HIDE DEF a, b
  <2>3. Memcmp(m, a, b, Len(s)) = 0 <=> Same(m, a, b, Len(s))
    BY <2>1 DEF Same, FirstDifference
  <2>4. ASSUME Len(s) = Len(t)
        PROVE  Same(m, a, b, Len(s)) <=> s = t
    BY <1>1, <2>4, SeqEqual DEF Same
  <2>. QED
    BY <2>2, <2>3, <2>4
<1>5. StartWith(m, p, q) <=> q.length <= p.length /\ SubSeq(s, 1, q.length) = t
  <2>. DEFINE n == Len(t)
              u == SubSeq(s, 1, n)
  <2>1. StartWith(m, p, q) <=> n <= Len(s) /\ Memcmp(m, a, b, n) = 0
    BY <1>1 DEF StartWith
  <2>2. ASSUME n <= Len(s)
        PROVE  Memcmp(m, a, b, n) = 0 <=> u = t
    <3>1. \/ Same(m, a, b, n) /\ Memcmp(m, a, b, n) = 0
          \/ \E i : /\ FirstDifference(m, a, b, n, i)
                    /\ Memcmp(m, a, b, n) = IF m[a + i] < m[b + i] THEN -1 ELSE 1
      BY <1>1, MemcmpFacts
    <3>2. n \in 0 .. Len(s) /\ a \in Nat /\ Lies(s, m, a)
      BY <1>1, <2>2 DEF Inside, Lies
    <3>. HIDE DEF a, b, n
    <3>3. Memcmp(m, a, b, n) = 0 <=> Same(m, a, b, n)
      BY <3>1 DEF Same, FirstDifference
    <3>4. u \in Seq(Bytes) /\ Len(u) = n /\ Lies(u, m, a)
      BY <1>1, <3>2, TakenFacts
    <3>. HIDE DEF u
    <3>5. Same(m, a, b, n) <=> u = t
      BY <1>1, <3>4, SeqEqual DEF Same, Lies, n
    <3>. QED
      BY <3>3, <3>5
  <2>. QED
    BY <1>1, <2>1, <2>2
<1>. QED
  BY <1>3, <1>4, <1>5 DEF OrderedAsText, s, t

(* Compare, == and StartWith of what a client parses say what std::string  *)
(* says, wherever the pieces are in the vector and however they overlap.   *)
THEOREM PiecesCompareAsText == Spec => []PiecesOrderedAsText
<1>1. Sound(buf) => PiecesOrderedAsText
  <2>. SUFFICES ASSUME Sound(buf), NEW p \in Pieces, NEW q \in Pieces
                PROVE  OrderedAsText(buf.data, p, q)
    BY DEF PiecesOrderedAsText, OrderedAsText
  <2>. QED
    BY PiecesInside, PieceOrder, SoundFacts
<1>2. TypeOK => Sound(buf)
  BY DEF TypeOK, IndicesOrdered, Sound, Buf
<1>. QED
  BY <1>1, <1>2, BufferTypeCorrect, PTL
-----------------------------------------------------------------------------
(* What is in front of the content of the next state is what PeekInt reads *)
(* there.                                                                  *)
LEMMA PeekFacts ==
  ASSUME NEW b, Sound(b), NEW n \in Nat, NEW bs \in Seq(Bytes), Len(bs) = n,
         NEW s \in Seq(Bytes), Content(b) = bs \o s
  PROVE  PeekInt(b, n) = NetworkToHost(bs)
<1>. DEFINE t == Text(b.data, Piece(b.reader, n))
<1>1. /\ b.data \in Seq(Bytes) /\ b.reader \in Nat /\ b.reader + n <= Len(b.data)
      /\ n <= Len(Content(b)) /\ Lies(Content(b), b.data, b.reader)
  <2>1. bs \o s \in Seq(Bytes) /\ Len(bs \o s) = Len(bs) + Len(s)
    BY ConcatProperties
  <2>2. n <= Len(Content(b))
    <3>1. Len(s) \in Nat
      OBVIOUS
    <3>. QED
      BY <2>1, <3>1
  <2>3. b.reader + n <= Len(b.data)
    BY <2>2, SoundFacts
  <2>. QED
    BY <2>2, <2>3, SoundFacts
<1>2. t \in Seq(Bytes) /\ Len(t) = n /\ \A i \in 1 .. n : t[i] = b.data[b.reader + i]
  BY <1>1, TextFacts
<1>3. \A i \in 1 .. n : Content(b)[i] = b.data[b.reader + i] /\ Content(b)[i] = bs[i]
  <2>1. \A i \in 1 .. n : Content(b)[i] = b.data[b.reader + i]
    BY <1>1, SoundFacts DEF Lies
  <2>2. \A i \in 1 .. n : (bs \o s)[i] = bs[i]
    BY ConcatProperties
  <2>. QED
    BY <2>1, <2>2
<1>. HIDE DEF t
<1>4. t = bs
  BY <1>2, <1>3, SeqEqual
<1>5. t = SubSeq(b.data, b.reader + 1, b.reader + n)
  BY DEF t, Text, Piece
<1>. QED
  BY <1>4, <1>5 DEF PeekInt

(* An integer that is prepended, or appended to an empty buffer, is the    *)
(* one that is read.                                                       *)
THEOREM IntsAreReadBack == Spec => IntsSurvive
<1>. DEFINE Wrote(n, x) == PrependInt(n, x) \/ (ReadableBytes(buf) = 0 /\ AppendInt(n, x))
<1>1. Init => Sound(buf)
  BY ConstructedFacts, BufferAssumption DEF Init
<1>2. Sound(buf) /\ [Next]_vars => Sound(buf)'
  BY BufferStep
<1>3. ASSUME Sound(buf), Sound(buf'), NEW n \in Widths, NEW x \in Ints(n), Wrote(n, x)
      PROVE  PeekInt(buf', n) = x
  <2>. DEFINE bs == HostToNetwork(x, n)
  <2>1. /\ n \in Nat /\ bs \in Chunks /\ bs \in Seq(Bytes) /\ Len(bs) = n
        /\ NetworkToHost(bs) = x
    BY BufferAssumption, ChunkFacts, IntsFacts DEF HostToNetwork
  <2>. HIDE DEF bs
  <2>2. Content(buf) \in Seq(Bytes) /\ <<>> \in Seq(Bytes)
    BY <1>3, SoundFacts
  <2>3. CASE PrependInt(n, x)
    <3>1. buf' = Prepended(buf, bs) /\ Len(bs) <= PrependableBytes(buf)
      BY <2>3 DEF PrependInt, Prepend, bs
    <3>2. Content(buf') = bs \o Content(buf)
      BY <1>3, <2>1, <3>1, PrependedFacts
    <3>. QED
      BY <1>3, <2>1, <2>2, <3>2, PeekFacts
  <2>4. CASE ReadableBytes(buf) = 0 /\ AppendInt(n, x)
    <3>1. buf' = Appended(buf, bs)
      BY <2>4 DEF AppendInt, AppendBytes, bs
    <3>2. Content(buf') = Content(buf) \o bs
      BY <1>3, <2>1, <3>1, AppendedFacts
    <3>3. Content(buf) = <<>>
      BY <1>3, <2>2, <2>4, SoundFacts, EmptySeq
    <3>4. Content(buf') = bs \o <<>>
      BY <2>1, <3>2, <3>3, ConcatEmptySeq
    <3>. QED
      BY <1>3, <2>1, <2>2, <3>4, PeekFacts
  <2>. QED
    BY <1>3, <2>3, <2>4
<1>4. ASSUME NEW n \in Widths, NEW x \in Ints(n)
      PROVE  PeekInt(buf, n)' = PeekInt(buf', n)
  BY DEF PeekInt
<1>5. Sound(buf) /\ Sound(buf)' => \A n \in Widths : \A x \in Ints(n) : Wrote(n, x) => PeekInt(buf, n)' = x
  BY <1>3, <1>4
<1>. QED
  BY <1>1, <1>2, <1>5, PTL DEF Spec, IntsSurvive
=============================================================================
