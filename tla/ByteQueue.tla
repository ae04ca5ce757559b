----------------------------- MODULE ByteQueue -----------------------------
(***************************************************************************)
(* What a Buffer promises its client: a sequence of bytes that is extended *)
(* at both ends and consumed from both ends, and that no change of the     *)
(* storage behind it touches.                                              *)
(***************************************************************************)
EXTENDS Naturals, Sequences

CONSTANT Chunks   \* the sequences of bytes a client writes

VARIABLES
  content,    \* the readable bytes
  call        \* the last call, with its argument

Init == content = <<>> /\ call = <<"construct">>

Write(bs) ==
  /\ call' = <<"append", bs>>
  /\ content' = content \o bs

Prepend(bs) ==
  /\ call' = <<"prepend", bs>>
  /\ content' = bs \o content

Retrieve(n) ==
  /\ n <= Len(content)
  /\ call' = <<"retrieve", n>>
  /\ content' = SubSeq(content, n + 1, Len(content))

RetrieveAsString(n) ==
  /\ n <= Len(content)
  /\ call' = <<"string", SubSeq(content, 1, n)>>
  /\ content' = SubSeq(content, n + 1, Len(content))

UnWrite(n) ==
  /\ n <= Len(content)
  /\ call' = <<"unwrite", n>>
  /\ content' = SubSeq(content, 1, Len(content) - n)

(* EnsureWriteableBytes and Shrink are about storage only. *)
Reserve ==
  /\ call' = <<"reserve">>
  /\ UNCHANGED content

Next ==
  \/ \E bs \in Chunks : Write(bs) \/ Prepend(bs)
  \/ \E n \in 0 .. Len(content) : Retrieve(n) \/ RetrieveAsString(n) \/ UnWrite(n)
  \/ Reserve

Spec == Init /\ [][Next]_<<content, call>>
=============================================================================
