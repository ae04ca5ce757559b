-------------------- MODULE BoundedBlockingQueue_proofs --------------------
(***************************************************************************)
(* Proofs about module BoundedBlockingQueue, for any finite sets of        *)
(* threads, any items and any capacity.                                    *)
(*                                                                         *)
(* The invariant has three parts.  Base: types, mutual exclusion, and that *)
(* a sleeping thread is at the Wait of its condition.  The two statements  *)
(* that no wakeup is lost, inductive given Base.  InOrder: the buffer is   *)
(* what was sent and not yet received.                                     *)
(***************************************************************************)
EXTENDS BoundedBlockingQueue, DataLemmas

Exclusion == \A t \in Threads : holder = t <=> pc[t] \in {"putting", "taking"}

Sleepers ==
  /\ \A t \in waiting["not_empty"] : pc[t] = "take"
  /\ \A t \in waiting["not_full"] : pc[t] = "put"

Base == TypeOK /\ Exclusion /\ Sleepers

InOrder ==
  /\ Len(sent) = Len(received) + Len(queue)
  /\ \A i \in 1 .. Len(queue) : queue[i] = sent[Len(received) + i]

IInv == Base /\ NoLostWakeUpOfTakers /\ NoLostWakeUpOfPutters /\ InOrder
-----------------------------------------------------------------------------
(* Base *)

LEMMA InitBase == Init => Base
BY QueueAssumption DEF Init, Mon!Init, Base, TypeOK, Exclusion, Sleepers, Threads

LEMMA NextBase == Base /\ [Next]_vars => Base'
<1> SUFFICES ASSUME Base, [Next]_vars
             PROVE  Base'
  OBVIOUS
<1> USE QueueAssumption DEF Base, TypeOK, Exclusion, Sleepers
<1>0. Threads = Putters \cup Takers
  BY DEF Threads
<1>1. CASE UNCHANGED vars
  BY <1>1 DEF vars
<1>2. ASSUME NEW t \in Putters, NEW x \in Items, CallPut(t, x)
      PROVE  Base'
  BY <1>0, <1>2 DEF CallPut, Go
<1>3. ASSUME NEW t \in Putters, LockPut(t)
      PROVE  Base'
  BY <1>0, <1>3 DEF LockPut, Go, Mon!Lock, Mon!Awake
<1>4. ASSUME NEW t \in Putters, WaitNotFull(t)
      PROVE  Base'
  BY <1>0, <1>4 DEF WaitNotFull, Go, Mon!Wait, Mon!UnLock
<1>5. ASSUME NEW t \in Putters, PushBack(t)
      PROVE  Base'
  BY <1>0, <1>5 DEF PushBack, PushItem, Full, Go, Mon!Notify, Mon!UnLock
<1>6. ASSUME NEW t \in Takers, CallTake(t)
      PROVE  Base'
  BY <1>0, <1>6 DEF CallTake, Go
<1>7. ASSUME NEW t \in Takers, LockTake(t)
      PROVE  Base'
  BY <1>0, <1>7 DEF LockTake, Go, Mon!Lock, Mon!Awake
<1>8. ASSUME NEW t \in Takers, WaitNotEmpty(t)
      PROVE  Base'
  BY <1>0, <1>8 DEF WaitNotEmpty, Go, Mon!Wait, Mon!UnLock
<1>9. ASSUME NEW t \in Takers, PopFront(t)
      PROVE  Base'
  BY <1>0, <1>9 DEF PopFront, PopItem, Go, Mon!Notify, Mon!UnLock
<1>10. ASSUME NEW t \in Threads, SpuriousWakeUp(t)
       PROVE  Base'
  BY <1>10 DEF SpuriousWakeUp, Mon!WakeUp
<1>11. QED
  BY <1>1, <1>2, <1>3, <1>4, <1>5, <1>6, <1>7, <1>8, <1>9, <1>10
  DEF Next, Put, Take
-----------------------------------------------------------------------------
(* No lost wakeup *)

(* A set of threads is finite. *)
LEMMA FiniteThreads ==
  \A S \in SUBSET Threads : IsFiniteSet(S) /\ Cardinality(S) \in Nat
<1>1. IsFiniteSet(Threads)
  BY QueueAssumption, FS_Union DEF Threads
<1>2. QED
  BY <1>1, FS_Subset, FS_CardinalityType

LEMMA NextTakers ==
  Base /\ NoLostWakeUpOfTakers /\ [Next]_vars => NoLostWakeUpOfTakers'
<1> SUFFICES ASSUME Base, NoLostWakeUpOfTakers, [Next]_vars,
                    waiting'["not_empty"] # {}
             PROVE  Len(queue') <= Cardinality(AwakeTakers')
  BY DEF NoLostWakeUpOfTakers
<1> USE QueueAssumption DEF Base, TypeOK, Exclusion, Sleepers
<1>a. Threads = Putters \cup Takers
  BY DEF Threads
<1>b. /\ IsFiniteSet(AwakeTakers) /\ Cardinality(AwakeTakers) \in Nat
      /\ IsFiniteSet(AwakeTakers') /\ Cardinality(AwakeTakers') \in Nat
  BY FiniteThreads DEF AwakeTakers
<1>c. ASSUME waiting["not_empty"] # {}, AwakeTakers \subseteq AwakeTakers', queue' = queue
      PROVE  Len(queue') <= Cardinality(AwakeTakers')
  BY <1>b, <1>c, Arrive DEF NoLostWakeUpOfTakers
<1>1. CASE UNCHANGED vars
  BY <1>1, <1>c DEF vars, AwakeTakers
<1>2. ASSUME NEW t \in Putters, NEW x \in Items, CallPut(t, x)
      PROVE  Len(queue') <= Cardinality(AwakeTakers')
  BY <1>a, <1>c, <1>2 DEF CallPut, Go, AwakeTakers
<1>3. ASSUME NEW t \in Putters, LockPut(t)
      PROVE  Len(queue') <= Cardinality(AwakeTakers')
  BY <1>a, <1>c, <1>3 DEF LockPut, Go, AwakeTakers
<1>4. ASSUME NEW t \in Putters, WaitNotFull(t)
      PROVE  Len(queue') <= Cardinality(AwakeTakers')
  BY <1>a, <1>c, <1>4 DEF WaitNotFull, Go, Mon!Wait, AwakeTakers
<1>5. ASSUME NEW t \in Putters, PushBack(t)
      PROVE  Len(queue') <= Cardinality(AwakeTakers')
  <2>1. PICK u \in waiting["not_empty"] :
          waiting' = [waiting EXCEPT !["not_empty"] = @ \ {u}]
    BY <1>5 DEF PushBack, Mon!Notify
  <2>2. /\ AwakeTakers \subseteq AwakeTakers'
        /\ u \in AwakeTakers' \ AwakeTakers
    BY <1>a, <1>5, <2>1 DEF PushBack, PushItem, Go, AwakeTakers
  <2>3. Cardinality(AwakeTakers) + 1 <= Cardinality(AwakeTakers')
    BY <1>b, <2>2, Arrive
  <2>4. Len(queue') = Len(queue) + 1 /\ Len(queue) \in Nat
    BY <1>5, <1>a DEF PushBack, PushItem, Go
  <2>5. QED
    BY <1>b, <2>1, <2>3, <2>4 DEF NoLostWakeUpOfTakers
<1>6. ASSUME NEW t \in Takers, CallTake(t)
      PROVE  Len(queue') <= Cardinality(AwakeTakers')
  BY <1>a, <1>c, <1>6 DEF CallTake, Go, AwakeTakers
<1>7. ASSUME NEW t \in Takers, LockTake(t)
      PROVE  Len(queue') <= Cardinality(AwakeTakers')
  BY <1>a, <1>c, <1>7 DEF LockTake, Go, AwakeTakers
<1>8. ASSUME NEW t \in Takers, WaitNotEmpty(t)
      PROVE  Len(queue') <= Cardinality(AwakeTakers')
  <2>1. Len(queue') = 0
    BY <1>8 DEF WaitNotEmpty
  <2>2. QED
    BY <1>b, <2>1
<1>9. ASSUME NEW t \in Takers, PopFront(t)
      PROVE  Len(queue') <= Cardinality(AwakeTakers')
  <2>1. AwakeTakers \ {t} \subseteq AwakeTakers' /\ waiting'["not_empty"] = waiting["not_empty"]
    BY <1>a, <1>9 DEF PopFront, PopItem, Go, Mon!Notify, AwakeTakers
  <2>2. Cardinality(AwakeTakers) - 1 <= Cardinality(AwakeTakers')
    BY <1>b, <2>1, Leave
  <2>3. Len(queue') = Len(queue) - 1 /\ Len(queue) \in Nat
    BY <1>9 DEF PopFront, PopItem
  <2>4. QED
    BY <1>b, <2>1, <2>2, <2>3 DEF NoLostWakeUpOfTakers
<1>10. ASSUME NEW t \in Threads, SpuriousWakeUp(t)
       PROVE  Len(queue') <= Cardinality(AwakeTakers')
  BY <1>c, <1>10 DEF SpuriousWakeUp, Mon!WakeUp, AwakeTakers
<1>11. QED
  BY <1>1, <1>2, <1>3, <1>4, <1>5, <1>6, <1>7, <1>8, <1>9, <1>10
  DEF Next, Put, Take

LEMMA NextPutters ==
  Base /\ NoLostWakeUpOfPutters /\ [Next]_vars => NoLostWakeUpOfPutters'
<1> SUFFICES ASSUME Base, NoLostWakeUpOfPutters, [Next]_vars,
                    waiting'["not_full"] # {}
             PROVE  MaxSize - Len(queue') <= Cardinality(AwakePutters')
  BY DEF NoLostWakeUpOfPutters
<1> USE QueueAssumption DEF Base, TypeOK, Exclusion, Sleepers
<1>a. Threads = Putters \cup Takers
  BY DEF Threads
<1>b. /\ IsFiniteSet(AwakePutters) /\ Cardinality(AwakePutters) \in Nat
      /\ IsFiniteSet(AwakePutters') /\ Cardinality(AwakePutters') \in Nat
  BY FiniteThreads DEF AwakePutters
<1>c. ASSUME waiting["not_full"] # {}, AwakePutters \subseteq AwakePutters', queue' = queue
      PROVE  MaxSize - Len(queue') <= Cardinality(AwakePutters')
  BY <1>b, <1>c, Arrive DEF NoLostWakeUpOfPutters
<1>1. CASE UNCHANGED vars
  BY <1>1, <1>c DEF vars, AwakePutters
<1>2. ASSUME NEW t \in Putters, NEW x \in Items, CallPut(t, x)
      PROVE  MaxSize - Len(queue') <= Cardinality(AwakePutters')
  BY <1>a, <1>c, <1>2 DEF CallPut, Go, AwakePutters
<1>3. ASSUME NEW t \in Putters, LockPut(t)
      PROVE  MaxSize - Len(queue') <= Cardinality(AwakePutters')
  BY <1>a, <1>c, <1>3 DEF LockPut, Go, AwakePutters
<1>4. ASSUME NEW t \in Putters, WaitNotFull(t)
      PROVE  MaxSize - Len(queue') <= Cardinality(AwakePutters')
  <2>1. MaxSize - Len(queue') = 0
    BY <1>4 DEF WaitNotFull, Full
  <2>2. QED
    BY <1>b, <2>1
<1>5. ASSUME NEW t \in Putters, PushBack(t)
      PROVE  MaxSize - Len(queue') <= Cardinality(AwakePutters')
  <2>1. AwakePutters \ {t} \subseteq AwakePutters' /\ waiting'["not_full"] = waiting["not_full"]
    BY <1>a, <1>5 DEF PushBack, PushItem, Go, Mon!Notify, AwakePutters
  <2>2. Cardinality(AwakePutters) - 1 <= Cardinality(AwakePutters')
    BY <1>b, <2>1, Leave
  <2>3. Len(queue') = Len(queue) + 1 /\ Len(queue) \in Nat
    BY <1>a, <1>5 DEF PushBack, PushItem, Go
  <2>4. QED
    BY <1>b, <2>1, <2>2, <2>3 DEF NoLostWakeUpOfPutters
<1>6. ASSUME NEW t \in Takers, CallTake(t)
      PROVE  MaxSize - Len(queue') <= Cardinality(AwakePutters')
  BY <1>a, <1>c, <1>6 DEF CallTake, Go, AwakePutters
<1>7. ASSUME NEW t \in Takers, LockTake(t)
      PROVE  MaxSize - Len(queue') <= Cardinality(AwakePutters')
  BY <1>a, <1>c, <1>7 DEF LockTake, Go, AwakePutters
<1>8. ASSUME NEW t \in Takers, WaitNotEmpty(t)
      PROVE  MaxSize - Len(queue') <= Cardinality(AwakePutters')
  BY <1>a, <1>c, <1>8 DEF WaitNotEmpty, Go, Mon!Wait, AwakePutters
<1>9. ASSUME NEW t \in Takers, PopFront(t)
      PROVE  MaxSize - Len(queue') <= Cardinality(AwakePutters')
  <2>1. PICK u \in waiting["not_full"] :
          waiting' = [waiting EXCEPT !["not_full"] = @ \ {u}]
    BY <1>9 DEF PopFront, Mon!Notify
  <2>2. /\ AwakePutters \subseteq AwakePutters'
        /\ u \in AwakePutters' \ AwakePutters
    BY <1>a, <1>9, <2>1 DEF PopFront, PopItem, Go, AwakePutters
  <2>3. Cardinality(AwakePutters) + 1 <= Cardinality(AwakePutters')
    BY <1>b, <2>2, Arrive
  <2>4. Len(queue') = Len(queue) - 1 /\ Len(queue) \in Nat
    BY <1>9 DEF PopFront, PopItem
  <2>5. QED
    BY <1>b, <2>1, <2>3, <2>4 DEF NoLostWakeUpOfPutters
<1>10. ASSUME NEW t \in Threads, SpuriousWakeUp(t)
       PROVE  MaxSize - Len(queue') <= Cardinality(AwakePutters')
  BY <1>c, <1>10 DEF SpuriousWakeUp, Mon!WakeUp, AwakePutters
<1>11. QED
  BY <1>1, <1>2, <1>3, <1>4, <1>5, <1>6, <1>7, <1>8, <1>9, <1>10
  DEF Next, Put, Take
-----------------------------------------------------------------------------
(* The buffer in relation to what was sent and received *)

LEMMA Lengths ==
  ASSUME Base, InOrder
  PROVE  /\ Len(sent) \in Nat /\ Len(received) \in Nat /\ Len(queue) \in Nat
         /\ Len(sent) = Len(received) + Len(queue)
         /\ Len(queue) <= MaxSize
BY DEF Base, TypeOK, InOrder

(* A Put appends its item to the buffer and to what was sent. *)
LEMMA PushBackInOrder ==
  ASSUME Base, InOrder, NEW t \in Putters, PushBack(t)
  PROVE  InOrder' /\ F!Put(item[t])
<1>1. /\ item[t] \in Items /\ Len(queue) # MaxSize
      /\ queue' = Append(queue, item[t])
      /\ sent' = Append(sent, item[t])
      /\ received' = received
  BY DEF PushBack, PushItem, Full, Go, Threads, Base, TypeOK
<1>2. /\ Len(queue') = Len(queue) + 1
      /\ Len(sent') = Len(sent) + 1
      /\ \A i \in 1 .. Len(queue) + 1 :
           queue'[i] = IF i <= Len(queue) THEN queue[i] ELSE item[t]
      /\ \A i \in 1 .. Len(sent) + 1 :
           sent'[i] = IF i <= Len(sent) THEN sent[i] ELSE item[t]
  BY <1>1 DEF Base, TypeOK
<1>3. ASSUME NEW i \in 1 .. Len(queue')
      PROVE  queue'[i] = sent'[Len(received') + i]
  <2>1. /\ i \in 1 .. Len(queue) + 1
        /\ Len(received) + i \in 1 .. Len(sent) + 1
        /\ Len(received) + i <= Len(sent) <=> i <= Len(queue)
    BY <1>2, Lengths
  <2>2. CASE i <= Len(queue)
    <3>1. queue[i] = sent[Len(received) + i]
      BY <2>2, Lengths DEF InOrder
    <3>2. QED
      BY <1>1, <1>2, <2>1, <2>2, <3>1
  <2>3. CASE ~(i <= Len(queue))
    BY <1>1, <1>2, <2>1, <2>3
  <2>4. QED
    BY <2>2, <2>3
<1>4. /\ Len(sent') = Len(received') + Len(queue')
      /\ Len(sent) - Len(received) < MaxSize
  BY <1>1, <1>2, Lengths, QueueAssumption
<1>5. QED
  BY <1>1, <1>3, <1>4 DEF F!Put, InOrder

(* A Take removes what was sent first among what was not received. *)
LEMMA PopFrontInOrder ==
  ASSUME Base, InOrder, NEW t \in Takers, PopFront(t)
  PROVE  InOrder' /\ F!Take
<1>1. /\ queue # <<>>
      /\ received' = Append(received, Head(queue))
      /\ queue' = Tail(queue)
      /\ sent' = sent
  BY DEF PopFront, PopItem
<1>2. /\ Len(queue) >= 1
      /\ Head(queue) = queue[1]
      /\ Len(queue') = Len(queue) - 1
      /\ Len(received') = Len(received) + 1
      /\ \A i \in 1 .. Len(queue) - 1 : queue'[i] = queue[i + 1]
  BY <1>1 DEF Base, TypeOK
<1>3. queue[1] = sent[Len(received) + 1]
  BY <1>2, Lengths DEF InOrder
<1>4. ASSUME NEW i \in 1 .. Len(queue')
      PROVE  queue'[i] = sent'[Len(received') + i]
  <2>1. /\ i \in 1 .. Len(queue) - 1
        /\ i + 1 \in 1 .. Len(queue)
        /\ Len(received) + (i + 1) = Len(received') + i
    BY <1>2, Lengths
  <2>2. queue[i + 1] = sent[Len(received) + (i + 1)]
    BY <2>1 DEF InOrder
  <2>3. QED
    BY <1>1, <1>2, <2>1, <2>2
<1>5. Len(sent') = Len(received') + Len(queue') /\ Len(received) < Len(sent)
  BY <1>1, <1>2, Lengths
<1>6. QED
  BY <1>1, <1>2, <1>3, <1>4, <1>5 DEF F!Take, InOrder

(* The other steps change neither the buffer nor the histories. *)
LEMMA OtherStep ==
  ASSUME [Next]_vars,
         \A t \in Putters : ~PushBack(t),
         \A t \in Takers : ~PopFront(t)
  PROVE  UNCHANGED <<queue, sent, received>>
BY DEF Next, Put, Take, vars, CallPut, LockPut, WaitNotFull, CallTake, LockTake,
       WaitNotEmpty, SpuriousWakeUp

LEMMA InitInOrder == Init => InOrder
BY DEF Init, InOrder

LEMMA NextInOrder ==
  ASSUME Base, InOrder, [Next]_vars
  PROVE  InOrder' /\ [F!Next]_<<sent, received>>
<1>1. CASE \E t \in Putters : PushBack(t)
  <2>1. PICK t \in Putters : PushBack(t)
    BY <1>1
  <2>2. item[t] \in Items
    BY <2>1 DEF PushBack, PushItem, Go, Base, TypeOK, Threads
  <2>3. QED
    BY <2>1, <2>2, PushBackInOrder DEF F!Next
<1>2. CASE \E t \in Takers : PopFront(t)
  BY <1>2, PopFrontInOrder DEF F!Next
<1>3. CASE /\ \A t \in Putters : ~PushBack(t)
           /\ \A t \in Takers : ~PopFront(t)
  BY <1>3, OtherStep DEF InOrder
<1>4. QED
  BY <1>1, <1>2, <1>3
-----------------------------------------------------------------------------
(* The invariant holds initially and is preserved. *)
LEMMA InitIInv == Init => IInv
<1>1. Init => NoLostWakeUpOfTakers /\ NoLostWakeUpOfPutters
  BY DEF Init, Mon!Init, NoLostWakeUpOfTakers, NoLostWakeUpOfPutters
<1>2. QED
  BY <1>1, InitBase, InitInOrder DEF IInv

LEMMA NextIInv == IInv /\ [Next]_vars => IInv'
BY NextBase, NextTakers, NextPutters, NextInOrder DEF IInv

(* Put and Take keep the invariant: the thread with the mutex is the one   *)
(* its pc names, sleepers are woken, and the items stay in order.          *)
THEOREM QueueInvariant == Spec => []IInv
BY InitIInv, NextIInv, PTL DEF Spec

(* The variables keep their types and the buffer its capacity. *)
THEOREM TypeCorrect == Spec => []TypeOK
<1>1. IInv => TypeOK
  BY DEF IInv, Base
<1>2. QED
  BY <1>1, QueueInvariant, PTL

(* No item is left in the buffer, and no slot left free, by a lost        *)
(* notification.                                                          *)
THEOREM SleepersAreWoken == Spec => []NoLostWakeUp
<1>1. IInv => NoLostWakeUp
  BY DEF IInv, NoLostWakeUp
<1>2. QED
  BY <1>1, QueueInvariant, PTL

(* The queue is a bounded FIFO: each step of it is a Put or a Take of the  *)
(* abstract one, or changes neither history.                               *)
THEOREM QueueImplementsFifo == Spec => ImplementsFifo
<1>1. Init => F!Init
  BY DEF Init, F!Init
<1>2. IInv /\ [Next]_vars => [F!Next]_(F!vars)
  BY NextInOrder DEF IInv, F!vars
<1>3. QED
  BY <1>1, <1>2, QueueInvariant, PTL DEF Spec, ImplementsFifo, F!Spec
=============================================================================
