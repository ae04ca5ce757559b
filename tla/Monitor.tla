------------------------------ MODULE Monitor ------------------------------
(***************************************************************************)
(* A qingyi::Mutex with the qingyi::Conditions built over it, as the       *)
(* classes that own them see it (src/qingyi/util/mutex_.h, condition_.h).  *)
(*                                                                         *)
(* "holder" is the field Mutex::holder_: the thread between its Lock() and *)
(* its UnLock() or Wait().  "waiting[c]" are the threads asleep in         *)
(* pthread_cond_wait on condition c.  A thread that is woken has to Lock   *)
(* again before it returns from Wait, so the steps that wake it only take  *)
(* it out of waiting[c].                                                   *)
(*                                                                         *)
(* The steps of a critical section are conjoined by the client: Lock and   *)
(* UnLock say what happens to holder, Notify and NotifyAll what happens to *)
(* waiting, Wait both.  Module Mutex splits these steps into the writes of *)
(* holder_ and the pthread calls and is shown to implement Spec below.     *)
(***************************************************************************)

CONSTANTS
  Threads,    \* the threads that use the mutex
  Conds,      \* the conditions built over the mutex
  NoThread    \* holder_ = 0

VARIABLES holder, waiting

Init ==
  /\ holder = NoThread
  /\ waiting = [c \in Conds |-> {}]

Awake(t) == \A c \in Conds : t \notin waiting[c]

Lock(t) ==
  /\ holder = NoThread
  /\ Awake(t)
  /\ holder' = t

UnLock(t) ==
  /\ holder = t
  /\ holder' = NoThread

Wait(t, c) ==
  /\ UnLock(t)
  /\ waiting' = [waiting EXCEPT ![c] = @ \cup {t}]

Notify(c) ==
  \/ waiting[c] = {} /\ UNCHANGED waiting
  \/ \E t \in waiting[c] : waiting' = [waiting EXCEPT ![c] = @ \ {t}]

NotifyAll(c) == waiting' = [waiting EXCEPT ![c] = {}]

(* A spurious wakeup of pthread_cond_wait, or the timeout of               *)
(* WaitForSeconds: the thread leaves the condition without a notification. *)
WakeUp(t) ==
  /\ \E c \in Conds : t \in waiting[c] /\ waiting' = [waiting EXCEPT ![c] = @ \ {t}]
  /\ UNCHANGED holder

(* A thread that holds the mutex notifies c and keeps the mutex. *)
Signal(t, c) ==
  /\ holder = t
  /\ Notify(c) \/ NotifyAll(c)
  /\ UNCHANGED holder

Next == \E t \in Threads :
  \/ Lock(t) /\ UNCHANGED waiting
  \/ UnLock(t) /\ UNCHANGED waiting
  \/ \E c \in Conds : Wait(t, c) \/ Signal(t, c)
  \/ WakeUp(t)

Spec == Init /\ [][Next]_<<holder, waiting>>
=============================================================================
