------------------------------ MODULE AtomicInt ------------------------------
(***************************************************************************)
(* qingyi::AtomicInt32 (src/qingyi/util/atomicint_.h): an integer in two's *)
(* complement, from -MaxInt - 1 to MaxInt.  The builtins of the compiler   *)
(* are atomic, what follows them in a function is not.                     *)
(***************************************************************************)
EXTENDS Integers

CONSTANTS Threads, MaxInt

VARIABLES
  value_,
  fetched     \* what the last builtin of each thread has returned

atomicVars == <<value_, fetched>>

NumInts == 2 * (MaxInt + 1)

(* The sum n of two such integers, as one.                                 *)
Wrap(n) ==
  CASE n > MaxInt -> n - NumInts
    [] n < -MaxInt - 1 -> n + NumInts
    [] OTHER -> n

InitAtomic(n) ==
  /\ value_ = n
  /\ fetched = [t \in Threads |-> 0]

(* __sync_fetch_and_add(&value_, x) *)
GetAndAdd(t, x) ==
  /\ value_' = Wrap(value_ + x)
  /\ fetched' = [fetched EXCEPT ![t] = value_]

(* A faulty variant: value_ is read again for the sum. *)
SumOfValue(t, x) == value_

(* What AddAndGet(x) returns after its GetAndAdd(x).  The language leaves  *)
(* an overflow undefined; the addition it is compiled to wraps.            *)
Sum(t, x) == Wrap(fetched[t] + x)
=============================================================================
