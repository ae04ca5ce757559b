------------------------------- MODULE Fifo -------------------------------
(***************************************************************************)
(* What a queue of the library promises its clients: the items come out in *)
(* the order they went in, each once, and at most MaxSize of them are in   *)
(* between.                                                                *)
(***************************************************************************)
EXTENDS Naturals, Sequences

CONSTANTS
  Items,      \* what is put into the queue
  MaxSize     \* how many items it holds at most

VARIABLES
  sent,       \* every item put so far, in order
  received    \* every item taken so far, in order

vars == <<sent, received>>

Init == sent = <<>> /\ received = <<>>

Put(x) ==
  /\ Len(sent) - Len(received) < MaxSize
  /\ sent' = Append(sent, x)
  /\ UNCHANGED received

Take ==
  /\ Len(received) < Len(sent)
  /\ received' = Append(received, sent[Len(received) + 1])
  /\ UNCHANGED sent

Next == Take \/ \E x \in Items : Put(x)

Spec == Init /\ [][Next]_vars
=============================================================================
