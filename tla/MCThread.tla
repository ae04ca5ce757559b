------------------------------ MODULE MCThread ------------------------------
(* One Thread object: its owner and its child take every order of steps,   *)
(* with three calls each to two singletons (one with no_destroy), a        *)
(* ThreadLocal and the constructor of Thread, whose counter has four       *)
(* values.                                                                 *)
EXTENDS ThreadProgram
=============================================================================
