------------------------ MODULE MCBlockingQueueTest ------------------------
(* Three workers and as many messages: a worker may take several of them,  *)
(* or none, and all may sleep at the same time.                            *)
EXTENDS BlockingQueueTest

CONSTANTS m1, m2, m3

MCMessages == <<m1, m2, m3>>
=============================================================================
