----------------------- MODULE MCBoundedBlockingQueue -----------------------
(* Two producers and two consumers around a buffer of two slots: threads   *)
(* of both kinds sleep, are woken and race for the mutex, also while it    *)
(* holds one item.                                                         *)
EXTENDS BoundedBlockingQueue
=============================================================================
