------------------------------- MODULE Mutex -------------------------------
(***************************************************************************)
(* qingyi::Mutex, MutexLockGuard and Condition (src/qingyi/util/mutex_.h,  *)
(* condition_.h, condition_.cc), one step for each pthread call and each   *)
(* write of holder_.                                                       *)
(*                                                                         *)
(* The threads use them as the classes of the library do: Lock, any number *)
(* of Wait, WaitForSeconds, Notify and NotifyAll, UnLock, for ever.  A     *)
(* pthread mutex excludes, pthread_cond_wait releases it and falls asleep  *)
(* in one step and holds it again when it returns.  The times of           *)
(* WaitForSeconds are in module TimedWait.                                 *)
(***************************************************************************)
CONSTANTS
  Threads,    \* the threads
  Conds,      \* the conditions built over the mutex
  NoThread    \* holder_ = 0, and a pthread mutex that nobody owns

ASSUME MutexAssumption == NoThread \notin Threads

VARIABLES
  pc,         \* where each thread is
  cond,       \* the condition the thread waited on last
  mutex_,     \* the owner of the pthread mutex
  holder_,    \* holder_
  asleep      \* asleep[c]: the threads blocked on the pthread condition of c

vars == <<pc, cond, mutex_, holder_, asleep>>

Init ==
  /\ pc = [t \in Threads |-> "out"]
  /\ cond \in [Threads -> Conds]
  /\ mutex_ = NoThread
  /\ holder_ = NoThread
  /\ asleep = [c \in Conds |-> {}]

Go(t, from, to) == pc[t] = from /\ pc' = [pc EXCEPT ![t] = to]

AssignHolder(t) == holder_' = t

UnAssignHolder == holder_' = NoThread
-----------------------------------------------------------------------------
(* Mutex::Lock: pthread_mutex_lock, then AssignHolder. *)
LockMutex(t) ==
  /\ mutex_ = NoThread
  /\ Go(t, "out", "locked")
  /\ mutex_' = t
  /\ UNCHANGED <<cond, holder_, asleep>>

FinishLock(t) ==
  /\ Go(t, "locked", "in")
  /\ AssignHolder(t)
  /\ UNCHANGED <<cond, mutex_, asleep>>

(* A faulty variant: UnLock releases the pthread mutex first. *)
BeginUnLockWithMutex(t) ==
  /\ Go(t, "in", "unlocking")
  /\ mutex_' = NoThread
  /\ UNCHANGED <<cond, holder_, asleep>>

(* Mutex::UnLock: UnAssignHolder, then pthread_mutex_unlock. *)
BeginUnLock(t) ==
  /\ Go(t, "in", "unlocking")
  /\ UnAssignHolder
  /\ UNCHANGED <<cond, mutex_, asleep>>

UnLockMutex(t) ==
  /\ Go(t, "unlocking", "out")
  /\ mutex_' = NoThread
  /\ UNCHANGED <<cond, holder_, asleep>>
-----------------------------------------------------------------------------
(* A faulty variant: Wait has no UnGuard. *)
BeginWaitUnguarded(t, c) ==
  /\ Go(t, "in", "wait")
  /\ cond' = [cond EXCEPT ![t] = c]
  /\ UNCHANGED <<mutex_, holder_, asleep>>

(* Condition::Wait and WaitForSeconds: the constructor of UnGuard. *)
BeginWait(t, c) ==
  /\ Go(t, "in", "wait")
  /\ cond' = [cond EXCEPT ![t] = c]
  /\ UnAssignHolder
  /\ UNCHANGED <<mutex_, asleep>>

(* pthread_cond_wait and pthread_cond_timedwait, before and after sleeping. *)
CondWait(t) ==
  /\ Go(t, "wait", "asleep")
  /\ asleep' = [asleep EXCEPT ![cond[t]] = @ \cup {t}]
  /\ mutex_' = NoThread
  /\ UNCHANGED <<cond, holder_>>

(* pthread_cond_timedwait refuses a time that is none (EINVAL) and returns *)
(* without having let the mutex go.                                        *)
CondRefuse(t) ==
  /\ Go(t, "wait", "awake")
  /\ UNCHANGED <<cond, mutex_, holder_, asleep>>

CondReturn(t) ==
  /\ \A c \in Conds : t \notin asleep[c]
  /\ mutex_ = NoThread
  /\ Go(t, "asleep", "awake")
  /\ mutex_' = t
  /\ UNCHANGED <<cond, holder_, asleep>>

(* The destructor of UnGuard. *)
FinishWait(t) ==
  /\ Go(t, "awake", "in")
  /\ AssignHolder(t)
  /\ UNCHANGED <<cond, mutex_, asleep>>

(* The timeout of pthread_cond_timedwait, or a spurious wakeup. *)
WakeUp(t) ==
  /\ \E c \in Conds : t \in asleep[c] /\ asleep' = [asleep EXCEPT ![c] = @ \ {t}]
  /\ UNCHANGED <<pc, cond, mutex_, holder_>>

Notify(t, c) ==
  /\ pc[t] = "in"
  /\ \E u \in asleep[c] : asleep' = [asleep EXCEPT ![c] = @ \ {u}]
  /\ UNCHANGED <<pc, cond, mutex_, holder_>>

NotifyAll(t, c) ==
  /\ pc[t] = "in"
  /\ asleep' = [asleep EXCEPT ![c] = {}]
  /\ UNCHANGED <<pc, cond, mutex_, holder_>>
-----------------------------------------------------------------------------
Next == \E t \in Threads :
  \/ LockMutex(t) \/ FinishLock(t) \/ BeginUnLock(t) \/ UnLockMutex(t)
  \/ CondWait(t) \/ CondRefuse(t) \/ CondReturn(t) \/ FinishWait(t) \/ WakeUp(t)
  \/ \E c \in Conds : BeginWait(t, c) \/ Notify(t, c) \/ NotifyAll(t, c)

Spec == Init /\ [][Next]_vars
-----------------------------------------------------------------------------
(* Every variable has its type. *)
TypeOK ==
  /\ pc \in [Threads -> {"out", "locked", "in", "unlocking", "wait", "asleep", "awake"}]
  /\ cond \in [Threads -> Conds]
  /\ mutex_ \in Threads \cup {NoThread}
  /\ holder_ \in Threads \cup {NoThread}
  /\ asleep \in [Conds -> SUBSET Threads]

(* No thread sees its own id in holder_ after it let the mutex go, and     *)
(* holder_ is 0 whenever nobody owns the mutex (the comments of Lock and   *)
(* UnLock at lines 34 and 39, the assertion of ~Mutex at line 21).         *)
HolderOwnsMutex == holder_ # NoThread => mutex_ = holder_

(* AssertLocked holds wherever code between Lock and UnLock may call it,   *)
(* after a Wait as well (ThreadPool::IsFull, thread_pool_.cc:88).          *)
AssertLockedHolds == \A t \in Threads : pc[t] = "in" => holder_ = t

(* IsLockedByThisThread, read by any thread without a lock, is true inside *)
(* a critical section and true only for the owner of the pthread mutex.    *)
IsLockedByThisThreadIsRight == HolderOwnsMutex /\ AssertLockedHolds

(* The steps of holder_ and of the sleeping threads are those of a monitor *)
(* whose Wait is atomic: no notification falls between the release of the  *)
(* mutex and the sleep, although Wait writes holder_ before it sleeps.     *)
waiting == [c \in Conds |-> asleep[c] \cup {t \in Threads : pc[t] = "wait" /\ cond[t] = c}]

Mon == INSTANCE Monitor WITH holder <- holder_

ImplementsMonitor == Mon!Spec
=============================================================================
