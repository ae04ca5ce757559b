------------------------ MODULE BoundedBlockingQueue ------------------------
(***************************************************************************)
(* qingyi::BoundedBlockingQueue<T>                                         *)
(* (src/qingyi/util/bounded_blocking_queue_.h): a circular buffer of       *)
(* MaxSize slots under one mutex, with the conditions not_full_ and        *)
(* not_empty_.                                                             *)
(*                                                                         *)
(* A thread in Put or Take is first outside the mutex ("put", "take"),     *)
(* where it also is after a Wait, and then at the head of the while loop   *)
(* that tests the buffer, with the mutex held ("putting", "taking").  One  *)
(* step then does the rest of the critical section: it waits, or it moves  *)
(* an item, notifies and unlocks.                                          *)
(***************************************************************************)
EXTENDS Naturals, Sequences, FiniteSets

CONSTANTS
  Putters,    \* threads that call Put
  Takers,     \* threads that call Take
  Items,      \* values of the type T
  MaxSize,    \* the constructor's max_size
  MaxPuts,    \* bound: no Put is called once this many items were put
  NoThread,   \* holder_ = 0
  NoItem      \* a thread outside Put has no argument

ASSUME QueueAssumption ==
  /\ MaxSize \in Nat
  /\ NoThread \notin Putters \cup Takers
  /\ IsFiniteSet(Putters) /\ IsFiniteSet(Takers)

VARIABLES
  pc,         \* where each thread is
  item,       \* the argument of the thread's Put
  queue,      \* queue_
  holder,     \* the monitor of mutex_, not_full_ and not_empty_
  waiting,
  sent,       \* history: the items in the order they entered queue_
  received    \* history: the items in the order Take moved them out

vars == <<pc, item, queue, holder, waiting, sent, received>>

Threads == Putters \cup Takers

Mon == INSTANCE Monitor WITH Conds <- {"not_full", "not_empty"}

Init ==
  /\ Mon!Init
  /\ pc = [t \in Threads |-> "idle"]
  /\ item = [t \in Threads |-> NoItem]
  /\ queue = <<>>
  /\ sent = <<>>
  /\ received = <<>>

Go(t, from, to) == pc[t] = from /\ pc' = [pc EXCEPT ![t] = to]

(* A faulty variant: an off-by-one in the test for a full buffer. *)
FullOneLate == Len(queue) = MaxSize + 1

Full == Len(queue) = MaxSize
-----------------------------------------------------------------------------
CallPut(t, x) ==
  /\ Len(sent) < MaxPuts
  /\ Go(t, "idle", "put")
  /\ item' = [item EXCEPT ![t] = x]
  /\ UNCHANGED <<queue, holder, waiting, sent, received>>

LockPut(t) ==
  /\ Go(t, "put", "putting")
  /\ Mon!Lock(t)
  /\ UNCHANGED <<item, queue, waiting, sent, received>>

WaitNotFull(t) ==
  /\ Full
  /\ Go(t, "putting", "put")
  /\ Mon!Wait(t, "not_full")
  /\ UNCHANGED <<item, queue, sent, received>>

PushItem(t) ==
  /\ ~Full
  /\ Go(t, "putting", "idle")
  /\ queue' = Append(queue, item[t])
  /\ sent' = Append(sent, item[t])
  /\ item' = [item EXCEPT ![t] = NoItem]
  /\ Mon!UnLock(t)
  /\ UNCHANGED received

(* A faulty variant: Put notifies only when it finds the buffer empty. *)
PushBackNotifyingIfEmpty(t) ==
  /\ PushItem(t)
  /\ IF queue = <<>> THEN Mon!Notify("not_empty") ELSE UNCHANGED waiting

PushBack(t) == PushItem(t) /\ Mon!Notify("not_empty")
-----------------------------------------------------------------------------
CallTake(t) ==
  /\ Go(t, "idle", "take")
  /\ UNCHANGED <<item, queue, holder, waiting, sent, received>>

LockTake(t) ==
  /\ Go(t, "take", "taking")
  /\ Mon!Lock(t)
  /\ UNCHANGED <<item, queue, waiting, sent, received>>

WaitNotEmpty(t) ==
  /\ queue = <<>>
  /\ Go(t, "taking", "take")
  /\ Mon!Wait(t, "not_empty")
  /\ UNCHANGED <<item, queue, sent, received>>

(* A faulty variant: Take moves out the newest item instead of the oldest. *)
PopNewestItem(t) ==
  /\ queue # <<>>
  /\ Go(t, "taking", "idle")
  /\ received' = Append(received, queue[Len(queue)])
  /\ queue' = SubSeq(queue, 1, Len(queue) - 1)
  /\ Mon!UnLock(t)
  /\ UNCHANGED <<item, sent>>

PopItem(t) ==
  /\ queue # <<>>
  /\ Go(t, "taking", "idle")
  /\ received' = Append(received, Head(queue))
  /\ queue' = Tail(queue)
  /\ Mon!UnLock(t)
  /\ UNCHANGED <<item, sent>>

(* A faulty variant: Take notifies only when it finds the buffer full. *)
PopFrontNotifyingIfFull(t) ==
  /\ PopItem(t)
  /\ IF Full THEN Mon!Notify("not_full") ELSE UNCHANGED waiting

PopFront(t) == PopItem(t) /\ Mon!Notify("not_full")
-----------------------------------------------------------------------------
Put(t) == LockPut(t) \/ WaitNotFull(t) \/ PushBack(t)

Take(t) == LockTake(t) \/ WaitNotEmpty(t) \/ PopFront(t)

SpuriousWakeUp(t) ==
  /\ Mon!WakeUp(t)
  /\ UNCHANGED <<pc, item, queue, sent, received>>

Next ==
  \/ \E t \in Putters : Put(t) \/ \E x \in Items : CallPut(t, x)
  \/ \E t \in Takers : Take(t) \/ CallTake(t)
  \/ \E t \in Threads : SpuriousWakeUp(t)

Spec == Init /\ [][Next]_vars

(***************************************************************************)
(* A thread inside Put or Take is not suspended for ever, the consuming    *)
(* threads call Take in a loop (as those of the tests do) and              *)
(* pthread_cond_wait wakes spuriously finitely often.  No thread has to    *)
(* call Put, and nothing is assumed about which of several threads that    *)
(* contend for the mutex gets it: one of them may be overtaken again and   *)
(* again.                                                                  *)
(***************************************************************************)
Fairness ==
  /\ \A t \in Putters : WF_vars(Put(t))
  /\ \A t \in Takers : WF_vars(Take(t)) /\ WF_vars(CallTake(t))
  /\ <>[][~ \E t \in Threads : SpuriousWakeUp(t)]_vars

FairSpec == Spec /\ Fairness
-----------------------------------------------------------------------------
(* Every variable has its type, and the buffer never exceeds its slots. *)
TypeOK ==
  /\ pc \in [Threads -> {"idle", "put", "putting", "take", "taking"}]
  /\ item \in [Threads -> Items \cup {NoItem}]
  /\ \A t \in Threads : pc[t] \in {"put", "putting"} => item[t] \in Items
  /\ queue \in Seq(Items) /\ Len(queue) <= MaxSize
  /\ holder \in Threads \cup {NoThread}
  /\ waiting \in [{"not_full", "not_empty"} -> SUBSET Threads]
  /\ sent \in Seq(Items) /\ received \in Seq(Items)

(* Threads inside Take (Put) that are not asleep: each will test the       *)
(* buffer again before it can sleep.                                       *)
AwakeTakers == {t \in Threads : pc[t] \in {"take", "taking"}} \ waiting["not_empty"]
AwakePutters == {t \in Threads : pc[t] \in {"put", "putting"}} \ waiting["not_full"]

(* No wakeup is lost: while a thread sleeps in Take, every item in the     *)
(* buffer has a thread of its own on the way to it, whoever barges in.     *)
(* Put notifies one waiter per item (lines 36 and 46), never a broadcast.  *)
NoLostWakeUpOfTakers ==
  waiting["not_empty"] # {} => Len(queue) <= Cardinality(AwakeTakers)

(* The same for the free slots: while a thread sleeps in Put, every free   *)
(* slot has a thread on the way to it (line 57).                           *)
NoLostWakeUpOfPutters ==
  waiting["not_full"] # {} => MaxSize - Len(queue) <= Cardinality(AwakePutters)

(* No notification is missed, of an item or of a slot. *)
NoLostWakeUp == NoLostWakeUpOfTakers /\ NoLostWakeUpOfPutters

(* The queue hands out every item once, in the order of the Puts. *)
F == INSTANCE Fifo
ImplementsFifo == F!Spec

(* The Puts go on: whenever a thread is inside Put, an item enters the     *)
(* queue, its own or that of a thread that overtakes it.  (That it is its  *)
(* own in the end is not promised: other producers may overtake it as long *)
(* as they call Put, which only MaxPuts ends here.)                        *)
MostPuts == MaxPuts + Cardinality(Putters)

PutsGoOn ==
  \A n \in 0 .. MostPuts :
    (Len(sent) = n /\ \E t \in Putters : pc[t] \in {"put", "putting"}) ~> Len(sent) > n

(* Whatever was put is taken in the end: no item stays behind while the    *)
(* consumers sleep.                                                        *)
EverythingTaken ==
  \A n \in 1 .. MostPuts : Len(sent) >= n ~> Len(received) >= n

(* Producers and consumers are never left waiting for each other. *)
NeitherSideHangs == PutsGoOn /\ EverythingTaken
=============================================================================
