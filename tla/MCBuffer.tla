------------------------------ MODULE MCBuffer ------------------------------
(* Bits for bytes and small sizes: chunks of up to two of them, a vector   *)
(* that starts with three and grows to six, so that a call may write in    *)
(* place, move the content with and without overlap, or grow.              *)
EXTENDS BufferReadFd, SequencesExt

MCChunks == BoundedSeq(Bytes, 2)
=============================================================================
