--------------------------- MODULE CountDownLatch ---------------------------
(***************************************************************************)
(* qingyi::CountDownLatch (src/qingyi/util/countdown_latch_.h and .cc)     *)
(* over a Mutex and one Condition, with every step of the mutex.  "in_" is *)
(* the function of the latch a thread is in, or how far its body has come. *)
(* The calls are the client's: see modules Thread and BlockingQueueTest.   *)
(***************************************************************************)
EXTENDS Integers

CONSTANTS
  Threads,    \* the threads that use the latch
  NoThread    \* holder_ = 0

VARIABLES
  in_,                                  \* the function each thread is in
  count_,                               \* count_
  pc, cond, mutex_, holder_, asleep     \* mutex_ and condition_

M == INSTANCE Mutex WITH Conds <- {"condition_"}

mutexVars == <<pc, cond, mutex_, holder_, asleep>>

InitLatch(count) ==
  /\ M!Init
  /\ in_ = [t \in Threads |-> "none"]
  /\ count_ = count

CallWait(t) ==
  /\ in_[t] = "none"
  /\ in_' = [in_ EXCEPT ![t] = "Wait"]
  /\ UNCHANGED <<count_, mutexVars>>

CallCountDown(t) ==
  /\ in_[t] = "none"
  /\ in_' = [in_ EXCEPT ![t] = "CountDown"]
  /\ UNCHANGED <<count_, mutexVars>>

(* The constructor and the destructor of MutexLockGuard. *)
Lock(t) ==
  /\ in_[t] \in {"Wait", "CountDown"}
  /\ M!LockMutex(t) \/ M!FinishLock(t)
  /\ UNCHANGED <<in_, count_>>

UnLock(t) ==
  /\ in_[t] = "return"
  /\ \/ M!BeginUnLock(t) /\ UNCHANGED in_
     \/ M!UnLockMutex(t) /\ in_' = [in_ EXCEPT ![t] = "none"]
  /\ UNCHANGED count_

(* The loop of Wait. *)
Sleep(t) ==
  /\ in_[t] = "Wait"
  /\ \/ count_ > 0 /\ M!BeginWait(t, "condition_")
     \/ M!CondWait(t) \/ M!CondReturn(t) \/ M!FinishWait(t)
  /\ UNCHANGED <<in_, count_>>

(* A faulty variant: Wait leaves without a test of count_. *)
LeaveWaitUntested(t) ==
  /\ in_[t] = "Wait" /\ pc[t] = "in"
  /\ in_' = [in_ EXCEPT ![t] = "return"]
  /\ UNCHANGED <<count_, mutexVars>>

LeaveWait(t) ==
  /\ in_[t] = "Wait" /\ pc[t] = "in"
  /\ count_ <= 0
  /\ in_' = [in_ EXCEPT ![t] = "return"]
  /\ UNCHANGED <<count_, mutexVars>>

(* A faulty variant: CountDown tests count_ before it decrements it. *)
DecrementAfterTest(t) ==
  /\ in_[t] = "CountDown" /\ pc[t] = "in"
  /\ count_' = count_ - 1
  /\ in_' = [in_ EXCEPT ![t] = IF count_ = 0 THEN "notify" ELSE "return"]
  /\ UNCHANGED mutexVars

Decrement(t) ==
  /\ in_[t] = "CountDown" /\ pc[t] = "in"
  /\ count_' = count_ - 1
  /\ in_' = [in_ EXCEPT ![t] = IF count_' = 0 THEN "notify" ELSE "return"]
  /\ UNCHANGED mutexVars

NotifyAll(t) ==
  /\ in_[t] = "notify"
  /\ M!NotifyAll(t, "condition_")
  /\ in_' = [in_ EXCEPT ![t] = "return"]
  /\ UNCHANGED count_

Wait(t) == Sleep(t) \/ LeaveWait(t)

CountDown(t) == Decrement(t) \/ NotifyAll(t)

Step(t) == Lock(t) \/ Wait(t) \/ CountDown(t) \/ UnLock(t)

WakeUp(t) == M!WakeUp(t) /\ UNCHANGED <<in_, count_>>
=============================================================================
