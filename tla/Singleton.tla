------------------------------ MODULE Singleton ------------------------------
(***************************************************************************)
(* qingyi::Singleton<T> (src/qingyi/util/singleton_.h) for each type T in  *)
(* Types: pthread_once around Init, the pointer value_, and the handler    *)
(* Destroy that Init registers with atexit.  An instance is a number; the  *)
(* number 0 is NULL.                                                       *)
(***************************************************************************)
EXTENDS Naturals, Sequences

CONSTANTS
  Threads,
  Types,
  NoDestroy    \* the types with a member no_destroy

VARIABLES
  ponce_, value_,   \* of each type
  getting,          \* where each thread is in GetInstance, and for which type
  made,             \* made[T]: how many instances were constructed
  alive,            \* alive[T]: the instances that are not deleted
  handlers          \* atexit: the types to Destroy, the last one first

statics == <<ponce_, value_, made, alive, handlers>>
singletonVars == <<statics, getting>>

NULL == 0
Idle == [at |-> "idle"]

InitSingleton ==
  /\ ponce_ = [T \in Types |-> "init"]
  /\ value_ = [T \in Types |-> NULL]
  /\ getting = [t \in Threads |-> Idle]
  /\ made = [T \in Types |-> 0]
  /\ alive = [T \in Types |-> {}]
  /\ handlers = <<>>

At(t, step, T) == getting[t].at = step /\ getting[t].type = T

Go(t, step, T) == getting' = [getting EXCEPT ![t] = [at |-> step, type |-> T]]
-----------------------------------------------------------------------------
CallGetInstance(t, T) ==
  /\ getting[t] = Idle
  /\ Go(t, "once", T)
  /\ UNCHANGED statics

(* A faulty variant: Init is called when value_ is NULL. *)
BeginInitIfNull(t, T) ==
  /\ At(t, "once", T) /\ value_[T] = NULL
  /\ ponce_' = [ponce_ EXCEPT ![T] = "running"]
  /\ Go(t, "Init", T)
  /\ UNCHANGED <<value_, made, alive, handlers>>

(* pthread_once: the first thread to come runs Init, the others wait. *)
BeginInit(t, T) ==
  /\ At(t, "once", T) /\ ponce_[T] = "init"
  /\ ponce_' = [ponce_ EXCEPT ![T] = "running"]
  /\ Go(t, "Init", T)
  /\ UNCHANGED <<value_, made, alive, handlers>>

New(t, T) ==
  /\ At(t, "Init", T)
  /\ made' = [made EXCEPT ![T] = @ + 1]
  /\ value_' = [value_ EXCEPT ![T] = made'[T]]
  /\ alive' = [alive EXCEPT ![T] = @ \cup {made'[T]}]
  /\ Go(t, "atexit", T)
  /\ UNCHANGED <<ponce_, handlers>>

FinishInit(t, T) ==
  /\ At(t, "atexit", T)
  /\ handlers' = IF T \in NoDestroy THEN handlers ELSE <<T>> \o handlers
  /\ ponce_' = [ponce_ EXCEPT ![T] = "done"]
  /\ Go(t, "assert", T)
  /\ UNCHANGED <<value_, made, alive>>

LeaveOnce(t, T) ==
  /\ At(t, "once", T) /\ ponce_[T] = "done"
  /\ Go(t, "assert", T)
  /\ UNCHANGED statics

(* The assertion, and the return of a reference. *)
Return(t, T) ==
  /\ At(t, "assert", T) /\ value_[T] # NULL
  /\ getting' = [getting EXCEPT ![t] = [at |-> "using", type |-> T, ref |-> value_[T]]]
  /\ UNCHANGED statics

AssertFails(t, T) == At(t, "assert", T) /\ value_[T] = NULL /\ UNCHANGED singletonVars

(* What the caller does with the reference, and whether it is still one. *)
Uses(t, T) == At(t, "using", T)
Dangles(t, T) == Uses(t, T) /\ getting[t].ref \notin alive[T]

FinishUse(t, T) ==
  /\ Uses(t, T)
  /\ getting' = [getting EXCEPT ![t] = Idle]
  /\ UNCHANGED statics

GetInstance(t, T) ==
  BeginInit(t, T) \/ New(t, T) \/ FinishInit(t, T) \/ LeaveOnce(t, T) \/ Return(t, T)
-----------------------------------------------------------------------------
(* Destroy: delete value_, and then value_ = NULL. *)
Delete ==
  /\ handlers # <<>>
  /\ LET T == Head(handlers) IN
       /\ value_[T] \in alive[T]
       /\ alive' = [alive EXCEPT ![T] = @ \ {value_[T]}]
  /\ UNCHANGED <<ponce_, value_, made, handlers, getting>>

FinishDestroy ==
  /\ handlers # <<>>
  /\ LET T == Head(handlers) IN
       /\ value_[T] \notin alive[T]
       /\ value_' = [value_ EXCEPT ![T] = NULL]
  /\ handlers' = Tail(handlers)
  /\ UNCHANGED <<ponce_, made, alive, getting>>

Destroy == Delete \/ FinishDestroy
=============================================================================
