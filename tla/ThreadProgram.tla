---------------------------- MODULE ThreadProgram ----------------------------
(***************************************************************************)
(* A program of one Thread in which the owner, which is the main thread,   *)
(* and the child call Singleton<T>::GetInstance and ThreadLocal::Value and *)
(* construct further Thread objects, at any time their own code runs, as   *)
(* the programs in src/test/singleton and src/test/threadlocal do; and how *)
(* the process ends: main returns, or leaves with pthread_exit as the test *)
(* of ThreadLocal does.                                                    *)
(***************************************************************************)
EXTENDS Thread, Sequences, FiniteSets, Functions

CONSTANTS
  Types, NoDestroy,   \* the singletons, and those with no_destroy
  MaxInt,             \* the greatest value of num_created_
  MaxCalls            \* bound: calls of each thread

ASSUME ProgramAssumption ==
  NoDestroy \subseteq Types /\ MaxInt \in Nat \ {0} /\ MaxCalls \in Nat

VARIABLES
  process,    \* "main", "main exited", "exiting", "ended" or "aborted"
  returned,   \* history: main returned and did not call pthread_exit
  calls,      \* how many calls each thread has made
  naming,     \* the threads in set_default_name of a further Thread
  numbers,    \* history: the numbers that Thread objects got
  ponce_, value_, getting, made, alive, handlers,
  pkey_, specific, values,
  num_created_, fetched

Threads == {Owner, Child}

S == INSTANCE Singleton
V == INSTANCE ThreadLocal
N == INSTANCE AtomicInt WITH value_ <- num_created_

exitVars == <<process, returned>>
nameVars == <<naming, numbers, num_created_, fetched>>
singletonVars == <<ponce_, value_, made, alive, handlers, getting>>
valueVars == <<pkey_, specific, values>>
programVars == <<vars, exitVars, calls, nameVars, singletonVars, valueVars>>

(* The Thread of the owner has its number already. *)
ProgramInit ==
  /\ Init
  /\ S!InitSingleton /\ V!InitThreadLocal /\ N!InitAtomic(1)
  /\ process = "main" /\ returned = FALSE
  /\ calls = [t \in Threads |-> 0]
  /\ naming = {}
  /\ numbers = <<1>>

Alive == process \notin {"ended", "aborted"}
ChildLeft == childAt \in {"none", "exited"}

(* A thread is between two calls of its own code. *)
Free(t) == getting[t] = S!Idle /\ t \notin naming

OwnCode(t) ==
  /\ Free(t)
  /\ \/ t = Owner /\ process = "main"
        /\ ownerAt \in {"constructed", "started", "joined", "destroyed"}
     \/ t = Child /\ Alive /\ childAt = "func"

Call(t) ==
  /\ OwnCode(t)
  /\ calls[t] < MaxCalls
  /\ calls' = [calls EXCEPT ![t] = @ + 1]
  /\ UNCHANGED <<vars, exitVars>>
-----------------------------------------------------------------------------
CallGetInstance(t, T) ==
  /\ Call(t)
  /\ S!CallGetInstance(t, T)
  /\ UNCHANGED <<nameVars, valueVars>>

GetInstance(t) ==
  /\ Alive
  /\ \E T \in Types : S!GetInstance(t, T) \/ S!FinishUse(t, T)
  /\ UNCHANGED <<vars, exitVars, calls, nameVars, valueVars>>

AssertFails(t) ==
  /\ Alive
  /\ \E T \in Types : S!AssertFails(t, T)
  /\ process' = "aborted"
  /\ UNCHANGED <<vars, returned, calls, nameVars, singletonVars, valueVars>>

Value(t) ==
  /\ Call(t)
  /\ V!Value(t)
  /\ UNCHANGED <<nameVars, singletonVars>>

(* set_default_name: IncrementAndGet, whose two steps are apart. *)
BeginConstruct(t) ==
  /\ Call(t)
  /\ N!GetAndAdd(t, 1)
  /\ naming' = naming \cup {t}
  /\ UNCHANGED <<numbers, singletonVars, valueVars>>

FinishConstruct(t) ==
  /\ Alive /\ t \in naming
  /\ numbers' = Append(numbers, N!Sum(t, 1))
  /\ naming' = naming \ {t}
  /\ UNCHANGED <<vars, exitVars, calls, num_created_, fetched, singletonVars, valueVars>>

FinishCall(t) == GetInstance(t) \/ AssertFails(t) \/ FinishConstruct(t)
-----------------------------------------------------------------------------
(* The steps of Thread; its functions are called from the owner's own      *)
(* code, and the values of the child go with it.                           *)
OwnerCalls ==
  /\ Alive /\ Free(Owner)
  /\ Start \/ CallJoin \/ Destroy
  /\ UNCHANGED <<exitVars, calls, nameVars, singletonVars, valueVars>>

OwnerGoesOn ==
  /\ Alive
  /\ OwnerStep
  /\ UNCHANGED <<exitVars, calls, nameVars, singletonVars, valueVars>>

ChildGoesOn ==
  /\ Alive /\ Free(Child)
  /\ ChildStep
  /\ IF childAt = "deleted" THEN V!ExitThread(Child) ELSE UNCHANGED valueVars
  /\ UNCHANGED <<exitVars, calls, nameVars, singletonVars>>

SpuriousWake ==
  /\ Alive
  /\ SpuriousWakeUp
  /\ UNCHANGED <<exitVars, calls, nameVars, singletonVars, valueVars>>
-----------------------------------------------------------------------------
(* main returns, and with it the main thread calls exit. *)
ReturnFromMain ==
  /\ OwnCode(Owner) /\ ownerAt = "destroyed"
  /\ process' = "exiting" /\ returned' = TRUE
  /\ UNCHANGED <<vars, calls, nameVars, singletonVars, valueVars>>

(* main calls pthread_exit; the last thread calls exit. *)
ExitMain ==
  /\ OwnCode(Owner) /\ ownerAt = "destroyed"
  /\ V!ExitThread(Owner)
  /\ process' = "main exited"
  /\ UNCHANGED <<vars, returned, calls, nameVars, singletonVars>>

ExitLast ==
  /\ process = "main exited" /\ ChildLeft
  /\ process' = "exiting"
  /\ UNCHANGED <<vars, returned, calls, nameVars, singletonVars, valueVars>>

(* exit: the handlers, the last one first; the destructor of a ThreadLocal *)
(* that was constructed before main; the end of every thread.              *)
RunHandler ==
  /\ process = "exiting"
  /\ S!Destroy
  /\ UNCHANGED <<vars, exitVars, calls, nameVars, valueVars>>

DestroyThreadLocal ==
  /\ process = "exiting" /\ handlers = <<>> /\ pkey_ = "created"
  /\ V!DeleteKey
  /\ UNCHANGED <<vars, exitVars, calls, nameVars, singletonVars>>

End ==
  /\ process = "exiting" /\ handlers = <<>> /\ pkey_ = "deleted"
  /\ process' = "ended"
  /\ UNCHANGED <<vars, returned, calls, nameVars, singletonVars, valueVars>>

ProgramNext ==
  \/ OwnerCalls \/ OwnerGoesOn \/ ChildGoesOn \/ SpuriousWake
  \/ \E t \in Threads :
       \/ \E T \in Types : CallGetInstance(t, T)
       \/ Value(t) \/ BeginConstruct(t) \/ FinishCall(t)
  \/ ReturnFromMain \/ ExitMain \/ ExitLast
  \/ RunHandler \/ DestroyThreadLocal \/ End

ProgramSpec == ProgramInit /\ [][ProgramNext]_programVars

(* As FairSpec of Thread; a call that was begun goes on as well. *)
FairProgramSpec ==
  /\ ProgramSpec
  /\ WF_programVars(OwnerGoesOn \/ FinishCall(Owner))
  /\ WF_programVars(ChildGoesOn \/ FinishCall(Child))
  /\ <>[][~SpuriousWake]_programVars
-----------------------------------------------------------------------------
(* Init of a Singleton runs once, whatever the number of threads that call *)
(* GetInstance first, and nobody returns from it before its end.           *)
OneInstance ==
  \A T \in Types :
    /\ made[T] <= 1
    /\ \A t \in Threads : S!Uses(t, T) => ponce_[T] = "done"

(* No exit runs beside a child that was detached: the Thread was joined,   *)
(* or main has left with pthread_exit.                                     *)
Orderly == childAt = "none" \/ joined_ \/ ~returned

(* The handler that deletes an instance (Destroy) comes after its last     *)
(* user, and assert(value_ != NULL) holds, unless a Thread was destroyed   *)
(* and not joined when main returns.  An instance with no_destroy is never *)
(* deleted.                                                                *)
InstanceOutlivesUsers ==
  /\ Orderly => process # "aborted" /\ \A t \in Threads, T \in Types : ~S!Dangles(t, T)
  /\ \A T \in NoDestroy : alive[T] = 1 .. made[T]

(* Every thread has at most one value, which is deleted when the thread    *)
(* exits: the child, and the main thread by pthread_exit.                  *)
ValuesReclaimed ==
  Orderly =>
    /\ \A t \in Threads : values[t] <= 1
    /\ childAt = "exited" => values[Child] = 0
    /\ process # "main" /\ ~returned => values[Owner] = 0

(* Threads that are constructed at the same time get different numbers,    *)
(* and so different default names, as long as num_created_ has any left.   *)
NumbersDiffer ==
  Len(numbers) + Cardinality(naming) <= N!NumInts => IsInjective(numbers)
=============================================================================
