------------------------------- MODULE MCDate -------------------------------
(* From 1 January 1900, a Monday, to the end of the years that date_.h     *)
(* names for a Date.                                                       *)
EXTENDS Date

MCFirstTm == [year |-> 0, mon |-> 0, mday |-> 1, wday |-> 1]
=============================================================================
