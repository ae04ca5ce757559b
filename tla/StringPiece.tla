----------------------------- MODULE StringPiece -----------------------------
(***************************************************************************)
(* qingyi::StringPiece (src/qingyi/util/stringpiece_.h): a pointer and a   *)
(* length, into memory that belongs to somebody else.  Here the memory m   *)
(* is a sequence of bytes, and ptr_ says how many of them are in front of  *)
(* the piece.  A length fits into an int.                                  *)
(***************************************************************************)
EXTENDS Integers, Sequences

Piece(offset, len) == [ptr |-> offset, length |-> len]

(* StringPiece(const char* ), whose length is the strlen of what is there. *)
HasNul(m, at) == \E i \in at + 1 .. Len(m) : m[i] = 0

OfCString(m, at) ==
  Piece(at, CHOOSE n \in 0 .. Len(m) - at - 1 :
              m[at + n + 1] = 0 /\ \A i \in at + 1 .. at + n : m[i] # 0)

WithoutPrefix(p, n) == [ptr |-> p.ptr + n, length |-> p.length - n]
WithoutSuffix(p, n) == [p EXCEPT !.length = @ - n]

(* AsString, CopyToString *)
Text(m, p) == SubSeq(m, p.ptr + 1, p.ptr + p.length)

(* The sign of what memcmp returns for n bytes at a and at b. *)
Memcmp(m, a, b, n) ==
  LET different == {i \in 1 .. n : m[a + i] # m[b + i]} IN
    IF different = {} THEN 0
    ELSE LET i == CHOOSE i \in different : \A j \in different : i <= j IN
           IF m[a + i] < m[b + i] THEN -1 ELSE 1

Equal(m, p, q) == p.length = q.length /\ Memcmp(m, p.ptr, q.ptr, p.length) = 0

StartWith(m, p, q) == p.length >= q.length /\ Memcmp(m, p.ptr, q.ptr, q.length) = 0

(* A faulty variant: the lengths do not count. *)
CompareBytes(m, p, q) ==
  Memcmp(m, p.ptr, q.ptr, IF p.length < q.length THEN p.length ELSE q.length)

Compare(m, p, q) ==
  LET r == Memcmp(m, p.ptr, q.ptr, IF p.length < q.length THEN p.length ELSE q.length) IN
    IF r # 0 THEN r
    ELSE IF p.length < q.length THEN -1
    ELSE IF p.length > q.length THEN 1
    ELSE 0
-----------------------------------------------------------------------------
(* The order of std::string, for the texts s and t. *)
Precedes(s, t) ==
  \E k \in 0 .. Len(s) :
    /\ k < Len(t)
    /\ \A i \in 1 .. k : s[i] = t[i]
    /\ k = Len(s) \/ s[k + 1] < t[k + 1]
=============================================================================
