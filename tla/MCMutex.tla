------------------------------ MODULE MCMutex ------------------------------
(* Three threads, one more than can be in Lock and in Wait at a time, so   *)
(* that the third one observes every step of the other two, and a clock    *)
(* that counts two nanoseconds to the second.                              *)
EXTENDS TimedWait

MCDurations == {-3, 1, 2}
=============================================================================
