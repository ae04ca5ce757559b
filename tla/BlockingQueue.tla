--------------------------- MODULE BlockingQueue ---------------------------
(***************************************************************************)
(* qingyi::BlockingQueue<T> (src/qingyi/util/blocking_queue_.h): a deque   *)
(* without a limit, under one mutex with the condition not_empty_.  The    *)
(* calls are the client's: see module BlockingQueueTest.                   *)
(*                                                                         *)
(* "at" is the function of the queue a thread is in: "put" and "take"      *)
(* without the mutex, where a thread also is that waits, and "putting" and *)
(* "taking" with it, at the head of the loop of Take.  The second Put,     *)
(* which moves its argument, is the same.                                  *)
(***************************************************************************)
EXTENDS Naturals, Sequences

CONSTANTS
  Threads,    \* the threads that use the queue
  NoThread,   \* holder_ = 0
  NoItem

VARIABLES
  at,         \* the function each thread is in
  hand,       \* the argument of its Put, or the result of its last Take
  queue,      \* queue_
  holder,     \* the monitor of mutex_ and not_empty_
  waiting

Mon == INSTANCE Monitor WITH Conds <- {"not_empty"}

InitQueue ==
  /\ Mon!Init
  /\ at = [t \in Threads |-> "none"]
  /\ hand = [t \in Threads |-> NoItem]
  /\ queue = <<>>

Goes(t, from, to) == at[t] = from /\ at' = [at EXCEPT ![t] = to]

CallPut(t, x) ==
  /\ Goes(t, "none", "put")
  /\ hand' = [hand EXCEPT ![t] = x]
  /\ UNCHANGED <<queue, holder, waiting>>

CallTake(t) ==
  /\ Goes(t, "none", "take")
  /\ UNCHANGED <<hand, queue, holder, waiting>>

Lock(t) ==
  /\ Goes(t, "put", "putting") \/ Goes(t, "take", "taking")
  /\ Mon!Lock(t)
  /\ UNCHANGED <<hand, queue, waiting>>

(* A faulty variant: only the Put that finds the queue empty notifies. *)
PushBackNotifyingIfEmpty(t) ==
  /\ Goes(t, "putting", "none")
  /\ queue' = Append(queue, hand[t])
  /\ IF queue = <<>> THEN Mon!Notify("not_empty") ELSE UNCHANGED waiting
  /\ Mon!UnLock(t)
  /\ UNCHANGED hand

PushBack(t) ==
  /\ Goes(t, "putting", "none")
  /\ queue' = Append(queue, hand[t])
  /\ Mon!Notify("not_empty")
  /\ Mon!UnLock(t)
  /\ UNCHANGED hand

WaitNotEmpty(t) ==
  /\ queue = <<>>
  /\ Goes(t, "taking", "take")
  /\ Mon!Wait(t, "not_empty")
  /\ UNCHANGED <<hand, queue>>

(* A faulty variant: the newest item comes first. *)
PopNewest(t) ==
  /\ queue # <<>>
  /\ Goes(t, "taking", "none")
  /\ hand' = [hand EXCEPT ![t] = queue[Len(queue)]]
  /\ queue' = SubSeq(queue, 1, Len(queue) - 1)
  /\ Mon!UnLock(t)
  /\ UNCHANGED waiting

PopFront(t) ==
  /\ queue # <<>>
  /\ Goes(t, "taking", "none")
  /\ hand' = [hand EXCEPT ![t] = Head(queue)]
  /\ queue' = Tail(queue)
  /\ Mon!UnLock(t)
  /\ UNCHANGED waiting

Step(t) == Lock(t) \/ PushBack(t) \/ WaitNotEmpty(t) \/ PopFront(t)

WakeUp(t) == Mon!WakeUp(t) /\ UNCHANGED <<at, hand, queue>>
=============================================================================
