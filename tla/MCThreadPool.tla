---------------------------- MODULE MCThreadPool ----------------------------
(* Small instances of the pool.  The tasks x and y pass z and v to Run     *)
(* themselves, so that workers block in Run as well as in Take.  A queue   *)
(* of one place and four tasks that callers submit are the least that let  *)
(* two workers clog the pool while a caller waits as well.                 *)
EXTENDS ThreadPool

CONSTANTS x, y, z, v

MCChild == [i \in Tasks |-> CASE i = x -> z [] i = y -> v [] OTHER -> NoTask]
=============================================================================
