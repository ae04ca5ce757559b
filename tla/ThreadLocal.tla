----------------------------- MODULE ThreadLocal -----------------------------
(***************************************************************************)
(* qingyi::ThreadLocal<T> (src/qingyi/util/threadlocal_.h): one object and *)
(* the value that each thread has under its key.  Of POSIX it needs that   *)
(* the destructor of a key is called for a thread that exits with a value, *)
(* and that a deleted key has neither a destructor nor values.             *)
(***************************************************************************)
EXTENDS Naturals

CONSTANT Threads

VARIABLES
  pkey_,      \* "created" or "deleted"
  specific,   \* whether each thread has a value under the key
  values      \* how many values of each thread are not deleted

threadLocalVars == <<pkey_, specific, values>>

InitThreadLocal ==
  /\ pkey_ = "created"
  /\ specific = [t \in Threads |-> FALSE]
  /\ values = [t \in Threads |-> 0]

HasValue(t) == pkey_ = "created" /\ specific[t]

FindValue(t) == HasValue(t) /\ UNCHANGED threadLocalVars

(* A faulty variant: the new value is not stored under the key. *)
NewValueUnset(t) ==
  /\ ~HasValue(t)
  /\ values' = [values EXCEPT ![t] = @ + 1]
  /\ UNCHANGED <<pkey_, specific>>

NewValue(t) ==
  /\ ~HasValue(t)
  /\ values' = [values EXCEPT ![t] = @ + 1]
  /\ specific' = [specific EXCEPT ![t] = pkey_ = "created"]
  /\ UNCHANGED pkey_

Value(t) == FindValue(t) \/ NewValue(t)

(* destructor, when the thread exits. *)
ExitThread(t) ==
  /\ values' = [values EXCEPT ![t] = IF HasValue(t) THEN @ - 1 ELSE @]
  /\ specific' = [specific EXCEPT ![t] = FALSE]
  /\ UNCHANGED pkey_

(* ~ThreadLocal *)
DeleteKey ==
  /\ pkey_' = "deleted"
  /\ UNCHANGED <<specific, values>>
=============================================================================
