---------------------------- MODULE BufferReadFd ----------------------------
(***************************************************************************)
(* Buffer::ReadFd (src/qingyi/net/buffer_.cc) among the other calls.       *)
(*                                                                         *)
(* The second assignment to vec[0] replaces the free bytes of the buffer   *)
(* by extrabuf, and vec[1] is not initialised: what readv does with it is  *)
(* up to whatever is on the stack.  It may fail, read into extrabuf only,  *)
(* or read more bytes to some other place.  In no case are bytes read into *)
(* the free part of the vector.                                            *)
(***************************************************************************)
EXTENDS Buffer

CONSTANTS
  ExtraSize,  \* sizeof(extrabuf)
  MaxRead     \* the most readv may return with the two vectors

(* The values readv may return. *)
Readv(writeable) == -1 .. IF writeable < ExtraSize THEN MaxRead ELSE ExtraSize

(* When n exceeds the free bytes, writer_index_ moves by the size of the   *)
(* vector, beyond its end.  The difference in WriteableBytes wraps around, *)
(* so that Append makes no space, and writes behind the vector.            *)
ReadFd(n) ==
  /\ n \in Readv(WriteableBytes(buf))
  /\ \/ n < 0 /\ UNCHANGED buf
     \/ n >= 0 /\ n <= WriteableBytes(buf) /\ buf' = [buf EXCEPT !.writer = @ + n]
     \/ n > WriteableBytes(buf)
          /\ buf' = [buf EXCEPT !.writer = @ + Len(buf.data) + (n - WriteableBytes(buf))]
  /\ call' = <<"readfd", n>>

ReadFdNext == (IndicesOrdered /\ Next) \/ \E n \in -1 .. MaxRead : IndicesOrdered /\ ReadFd(n)

ReadFdSpec == Init /\ [][ReadFdNext]_vars
=============================================================================
