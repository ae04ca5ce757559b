------------------------------- MODULE Buffer -------------------------------
(***************************************************************************)
(* qingyi::net::Buffer (src/qingyi/net/buffer_.h), without ReadFd, which   *)
(* is in module BufferReadFd.                                              *)
(*                                                                         *)
(* A buffer is a record of buffer_, reader_index_ and writer_index_; byte  *)
(* i of the vector is data[i + 1].  The first half of the module says what *)
(* the functions return or make of a buffer, the second which of them a    *)
(* client may call: what the assertions demand of it are the guards.  The  *)
(* indices stay in order (TypeOK), so that no difference of two sizes      *)
(* wraps around.                                                           *)
(***************************************************************************)
EXTENDS StringPiece

CONSTANTS
  Base,           \* the number of values of a byte, an even number
  CheapPrepend,   \* kCheapPrepend
  InitialSize,    \* kInitialSize
  Chunks,         \* the sequences of bytes a client writes
  Widths,         \* the sizes of integers
  MaxSize,        \* bound: no call makes the vector longer
  LF, CR          \* the bytes '\n' and '\r'

Bytes == 0 .. Base - 1

ASSUME BufferAssumption ==
  /\ Base \in Nat \ {0} /\ CheapPrepend \in Nat /\ InitialSize \in Nat
  /\ MaxSize \in Nat
  /\ Widths \subseteq Nat
  /\ Chunks \subseteq Seq(Bytes)
  /\ \A n \in Widths : [1 .. n -> Bytes] \subseteq Chunks

VARIABLES
  buf,        \* the buffer
  call        \* history: the last call, with its argument

vars == <<buf, call>>
-----------------------------------------------------------------------------
ReadableBytes(b) == b.writer - b.reader
WriteableBytes(b) == Len(b.data) - b.writer
PrependableBytes(b) == b.reader

ToStringPiece(b) == Piece(b.reader, ReadableBytes(b))
Content(b) == Text(b.data, ToStringPiece(b))

(* std::copy to the bytes from at on, and vector::resize. *)
Overwritten(s, at, bs) ==
  [i \in 1 .. Len(s) |-> IF i \in at + 1 .. at + Len(bs) THEN bs[i - at] ELSE s[i]]
Resized(s, n) == [i \in 1 .. n |-> IF i <= Len(s) THEN s[i] ELSE 0]

Constructed(size) ==
  [data |-> Resized(<<>>, CheapPrepend + size), reader |-> CheapPrepend, writer |-> CheapPrepend]

AllRetrieved(b) == [b EXCEPT !.reader = CheapPrepend, !.writer = CheapPrepend]

Retrieved(b, n) ==
  IF n < ReadableBytes(b) THEN [b EXCEPT !.reader = @ + n] ELSE AllRetrieved(b)

UnWritten(b, n) == [b EXCEPT !.writer = @ - n]

Grown(b, n) == [b EXCEPT !.data = Resized(@, b.writer + n)]

Moved(b) ==
  [data |-> Overwritten(b.data, CheapPrepend, Content(b)),
   reader |-> CheapPrepend,
   writer |-> CheapPrepend + ReadableBytes(b)]

(* Faulty variants: the room in front counts in full as room for writing;  *)
(* the content is moved to the front of the vector.                        *)
MakeSpaceTight(b, n) ==
  IF WriteableBytes(b) + PrependableBytes(b) < n THEN Grown(b, n) ELSE Moved(b)

MakeSpaceInFront(b, n) ==
  IF WriteableBytes(b) + PrependableBytes(b) < n + CheapPrepend THEN Grown(b, n)
  ELSE [data |-> Overwritten(b.data, 0, Content(b)),
        reader |-> 0, writer |-> ReadableBytes(b)]

MakeSpace(b, n) ==
  IF WriteableBytes(b) + PrependableBytes(b) < n + CheapPrepend THEN Grown(b, n) ELSE Moved(b)

WithSpace(b, n) == IF WriteableBytes(b) < n THEN MakeSpace(b, n) ELSE b

(* BeginWrite, std::copy and HasWritten. *)
Written(b, bs) ==
  [b EXCEPT !.data = Overwritten(@, b.writer, bs), !.writer = @ + Len(bs)]

Appended(b, bs) == Written(WithSpace(b, Len(bs)), bs)

(* A faulty variant: the bytes are copied before reader_index_ is moved. *)
PrependedLate(b, bs) ==
  [b EXCEPT !.data = Overwritten(@, b.reader, bs), !.reader = @ - Len(bs)]

Prepended(b, bs) ==
  LET at == b.reader - Len(bs) IN
    [b EXCEPT !.data = Overwritten(@, at, bs), !.reader = at]

(* Append of a piece of the memory m, which is not that of b. *)
AppendedPiece(b, m, p) == Appended(b, Text(m, p))

(* The buffer that Shrink swaps in. *)
Shrunk(b, reserve) ==
  AppendedPiece(WithSpace(Constructed(InitialSize), ReadableBytes(b) + reserve),
                b.data, ToStringPiece(b))

(* memchr for '\n' in the first n readable bytes, std::search for kCRLF,   *)
(* which is "\n\r": the index of the first, or -1.  FindEOL(start) looks   *)
(* at as many bytes as there are after start, FindCRLF(start) at all.      *)
First(S) == IF S = {} THEN -1 ELSE CHOOSE i \in S : \A j \in S : i <= j

FindEOL(b, start) ==
  First({i \in b.reader .. b.reader + (b.writer - start) - 1 : b.data[i + 1] = LF})

FindCRLF(b) ==
  First({i \in b.reader .. b.writer - 2 : b.data[i + 1] = LF /\ b.data[i + 2] = CR})
-----------------------------------------------------------------------------
(* Integers of n bytes, in two's complement, the most significant byte     *)
(* first.                                                                  *)
Power[n \in Nat] == IF n = 0 THEN 1 ELSE Base * Power[n - 1]

Ints(n) == -(Power[n] \div 2) .. (Power[n] \div 2) - 1

HostToNetwork(x, n) == [i \in 1 .. n |-> (x \div Power[n - i]) % Base]

Unsigned(bs) ==
  LET upTo[k \in 0 .. Len(bs)] == IF k = 0 THEN 0 ELSE Base * upTo[k - 1] + bs[k]
  IN  upTo[Len(bs)]

(* A faulty variant: the bytes are taken in the order of the host. *)
NetworkToHostReversed(bs) ==
  LET n == Len(bs)
      x == Unsigned([i \in 1 .. n |-> bs[n + 1 - i]])
  IN  IF x < Power[n] \div 2 THEN x ELSE x - Power[n]

NetworkToHost(bs) ==
  LET n == Len(bs)
      x == Unsigned(bs)
  IN  IF x < Power[n] \div 2 THEN x ELSE x - Power[n]

PeekInt(b, n) == NetworkToHost(SubSeq(b.data, b.reader + 1, b.reader + n))
-----------------------------------------------------------------------------
Init == buf = Constructed(InitialSize) /\ call = <<"construct">>

(* A client writes no more than makes the vector MaxSize bytes long. *)
Fits(b, n) == b.writer + n <= MaxSize

AppendBytes(bs) ==
  /\ Fits(buf, Len(bs))
  /\ buf' = Appended(buf, bs)
  /\ call' = <<"append", bs>>

(* The client writes behind BeginWrite itself and calls HasWritten. *)
WriteInPlace(bs) ==
  /\ Len(bs) <= WriteableBytes(buf)
  /\ buf' = Written(buf, bs)
  /\ call' = <<"append", bs>>

Prepend(bs) ==
  /\ Len(bs) <= PrependableBytes(buf)
  /\ buf' = Prepended(buf, bs)
  /\ call' = <<"prepend", bs>>

Retrieve(n) ==
  /\ n <= ReadableBytes(buf)
  /\ buf' = Retrieved(buf, n)
  /\ call' = <<"retrieve", n>>

RetrieveAsString(n) ==
  /\ n <= ReadableBytes(buf)
  /\ call' = <<"string", Text(buf.data, Piece(buf.reader, n))>>
  /\ buf' = Retrieved(buf, n)

RetrieveAll ==
  /\ buf' = AllRetrieved(buf)
  /\ call' = <<"retrieve", ReadableBytes(buf)>>

(* RetrieveUntil the byte that was found, or the one behind it. *)
RetrieveFound(found) ==
  /\ found # -1
  /\ \E end \in {found, found + 1} :
       /\ buf' = Retrieved(buf, end - buf.reader)
       /\ call' = <<"retrieve", end - buf.reader>>

RetrieveLine ==
  \/ \E start \in buf.reader .. buf.writer : RetrieveFound(FindEOL(buf, start))
  \/ RetrieveFound(FindCRLF(buf))

UnWrite(n) ==
  /\ n <= ReadableBytes(buf)
  /\ buf' = UnWritten(buf, n)
  /\ call' = <<"unwrite", n>>

EnsureWriteableBytes(n) ==
  /\ Fits(buf, n)
  /\ buf' = WithSpace(buf, n)
  /\ call' = <<"reserve">>

Swap(rhs) == buf' = rhs

Shrink(reserve) ==
  /\ CheapPrepend + ReadableBytes(buf) + reserve <= MaxSize
  /\ Swap(Shrunk(buf, reserve))
  /\ call' = <<"reserve">>

AppendInt(n, x) == AppendBytes(HostToNetwork(x, n))
PrependInt(n, x) == Prepend(HostToNetwork(x, n))

RetrieveInt(n) == Retrieve(n)

(* PeekInt and RetrieveInt. *)
ReadInt(n) == RetrieveInt(n)

Next ==
  \/ \E bs \in Chunks : AppendBytes(bs) \/ WriteInPlace(bs) \/ Prepend(bs)
  \/ \E n \in 0 .. MaxSize :
       Retrieve(n) \/ RetrieveAsString(n) \/ UnWrite(n) \/ EnsureWriteableBytes(n) \/ Shrink(n)
  \/ RetrieveAll \/ RetrieveLine
  \/ \E n \in Widths : ReadInt(n) \/ \E x \in Ints(n) : AppendInt(n, x) \/ PrependInt(n, x)

Spec == Init /\ [][Next]_vars
-----------------------------------------------------------------------------
(* The picture of buffer_.h:28:                                            *)
(*   0 <= readerIndex <= writerIndex <= size                               *)
IndicesOrdered ==
  0 <= buf.reader /\ buf.reader <= buf.writer /\ buf.writer <= Len(buf.data)

(* The buffer has its type, its indices are in order, so that no access    *)
(* leaves the vector, and there is always room for kCheapPrepend.          *)
TypeOK ==
  /\ buf \in [data : Seq(Bytes), reader : Nat, writer : Nat]
  /\ IndicesOrdered
  /\ CheapPrepend <= Len(buf.data)

(* Growing, moving, shrinking and the reset of both indices in Retrieve    *)
(* are invisible: the content is what the calls make of it.                *)
Q == INSTANCE ByteQueue WITH content <- Content(buf)
ImplementsByteQueue == Q!Spec

(* Only Prepend uses up the kCheapPrepend bytes in front of the content:   *)
(* whatever else is called, a client that has not used them can prepend    *)
(* them.                                                                   *)
PrependRoomKept ==
  [][call'[1] = "prepend" \/ buf'.reader >= buf.reader \/ buf'.reader >= CheapPrepend]_vars

(* An integer that is prepended, or appended to an empty buffer, is the    *)
(* one that is read, whatever the storage does.                            *)
IntsSurvive ==
  [][\A n \in Widths : \A x \in Ints(n) :
       PrependInt(n, x) \/ (ReadableBytes(buf) = 0 /\ AppendInt(n, x)) => PeekInt(buf, n)' = x]_vars

(* What a client parses: the C strings in the vector, and the content less *)
(* what remove_prefix and remove_suffix have taken off it.                 *)
Pieces ==
  {OfCString(buf.data, i) : i \in {k \in 0 .. Len(buf.data) - 1 : HasNul(buf.data, k)}}
    \cup UNION {{WithoutSuffix(WithoutPrefix(ToStringPiece(buf), i), j) :
                   j \in 0 .. ReadableBytes(buf) - i} : i \in 0 .. ReadableBytes(buf)}

(* Compare, == and StartWith say of two pieces what std::string says of    *)
(* their texts, wherever they are and however they overlap.                *)
PiecesOrderedAsText ==
  \A p \in Pieces, q \in Pieces :
    LET s == Text(buf.data, p)
        t == Text(buf.data, q)
    IN  /\ Compare(buf.data, p, q) = IF Precedes(s, t) THEN -1 ELSE IF s = t THEN 0 ELSE 1
        /\ Equal(buf.data, p, q) <=> s = t
        /\ StartWith(buf.data, p, q) <=>
             q.length <= p.length /\ SubSeq(s, 1, q.length) = t
=============================================================================
