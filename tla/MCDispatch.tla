----------------------------- MODULE MCDispatch -----------------------------
(* Two channels, one of them a member of its object.  Its descriptor hangs *)
(* up, with and without something left to read; the other has errors while *)
(* it is writable, so that two callbacks follow each other.                *)
EXTENDS Dispatch, TLC

CONSTANTS c1, c2

MCFd == (c1 :> 0) @@ (c2 :> 1)

MCConditions == (0 :> {"in", "hup"}) @@ (1 :> {"err", "out"})
=============================================================================
