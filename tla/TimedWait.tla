----------------------------- MODULE TimedWait -----------------------------
(***************************************************************************)
(* Condition::WaitForSeconds (src/qingyi/util/condition_.cc) over Mutex:   *)
(* the deadline it computes from CLOCK_REALTIME, how                       *)
(* pthread_cond_timedwait ends, and what is returned.                      *)
(*                                                                         *)
(* Time is counted in nanoseconds from the epoch; "now" is the clock.  A   *)
(* thread sleeps until it is notified, wakes up spuriously, or is past its *)
(* deadline; which of them comes first is the scheduler's choice.          *)
(***************************************************************************)
EXTENDS Mutex, Integers

CONSTANTS
  NanoSecondsPerSecond,   \* kNanoSecondsPerSecond
  Durations,              \* the arguments, converted to nanoseconds
  MaxTime                 \* bound: the clock stops here

ASSUME TimeAssumption ==
  /\ NanoSecondsPerSecond \in Nat \ {0}
  /\ Durations \subseteq Int
  /\ MaxTime \in Nat

VARIABLES
  now,        \* CLOCK_REALTIME
  abstime,    \* abstime[t]: the deadline, tv_sec and tv_nsec
  result,     \* what pthread_cond_timedwait returned, "0" or an error, or will return
  asked       \* history: when the thread called WaitForSeconds, and for how long

timedVars == <<vars, now, abstime, result, asked>>

(* The quotient and the remainder of C, which round towards 0. *)
Quot(a, b) == IF a >= 0 THEN a \div b ELSE -((-a) \div b)
Rem(a, b) == a - b * Quot(a, b)

(* A faulty variant: the nanoseconds of the clock are not carried into the *)
(* seconds.                                                                *)
DeadlineWithoutCarry(at, ns) ==
  [sec |-> (at \div NanoSecondsPerSecond) + Quot(ns, NanoSecondsPerSecond),
   nsec |-> Rem((at % NanoSecondsPerSecond) + ns, NanoSecondsPerSecond)]

Deadline(at, ns) ==
  LET nanoseconds == (at % NanoSecondsPerSecond) + ns IN
    [sec |-> (at \div NanoSecondsPerSecond) + Quot(nanoseconds, NanoSecondsPerSecond),
     nsec |-> Rem(nanoseconds, NanoSecondsPerSecond)]

NoDeadline == [sec |-> 0, nsec |-> 0]
NotAsked == [at |-> 0, ns |-> 0]

(* What pthread_cond_timedwait demands of a time, and when it has passed. *)
IsTime(ts) == ts.nsec \in 0 .. NanoSecondsPerSecond - 1
Passed(ts) == ts.sec * NanoSecondsPerSecond + ts.nsec <= now

TimedInit ==
  /\ Init
  /\ now = 0
  /\ abstime = [t \in Threads |-> NoDeadline]
  /\ result = [t \in Threads |-> "untimed"]
  /\ asked = [t \in Threads |-> NotAsked]
-----------------------------------------------------------------------------
(* clock_gettime, the arithmetic, and the constructor of UnGuard. *)
BeginWaitForSeconds(t, c, ns) ==
  /\ BeginWait(t, c)
  /\ abstime' = [abstime EXCEPT ![t] = Deadline(now, ns)]
  /\ result' = [result EXCEPT ![t] = "pending"]
  /\ asked' = [asked EXCEPT ![t] = [at |-> now, ns |-> ns]]
  /\ UNCHANGED now

(* pthread_cond_wait, or pthread_cond_timedwait with a valid time. *)
FallAsleep(t) ==
  /\ result[t] = "pending" => IsTime(abstime[t])
  /\ CondWait(t)
  /\ UNCHANGED <<now, abstime, result, asked>>

Refuse(t) ==
  /\ result[t] = "pending" /\ ~IsTime(abstime[t])
  /\ CondRefuse(t)
  /\ result' = [result EXCEPT ![t] = "EINVAL"]
  /\ UNCHANGED <<now, abstime, asked>>

TimeOut(t) ==
  /\ result[t] = "pending" /\ Passed(abstime[t])
  /\ WakeUp(t)
  /\ result' = [result EXCEPT ![t] = "ETIMEDOUT"]
  /\ UNCHANGED <<now, abstime, asked>>

(* Threads that leave the condition for another reason return 0. *)
Return0 ==
  result' = [t \in Threads |->
    IF result[t] = "pending" /\ \E c \in Conds : t \in asleep[c] \ asleep'[c]
    THEN "0" ELSE result[t]]

SpuriousWakeUp(t) == WakeUp(t) /\ Return0 /\ UNCHANGED <<now, abstime, asked>>

Signal(t, c) ==
  /\ Notify(t, c) \/ NotifyAll(t, c)
  /\ Return0
  /\ UNCHANGED <<now, abstime, asked>>

(* The destructor of UnGuard, and the return. *)
Return(t) ==
  /\ FinishWait(t)
  /\ abstime' = [abstime EXCEPT ![t] = NoDeadline]
  /\ result' = [result EXCEPT ![t] = "untimed"]
  /\ asked' = [asked EXCEPT ![t] = NotAsked]
  /\ UNCHANGED now

(* What does not concern the time. *)
Untimed(t) ==
  /\ \/ LockMutex(t) \/ FinishLock(t) \/ BeginUnLock(t) \/ UnLockMutex(t)
     \/ CondReturn(t)
     \/ \E c \in Conds : BeginWait(t, c)
  /\ UNCHANGED <<now, abstime, result, asked>>

Tick ==
  /\ now < MaxTime
  /\ now' = now + 1
  /\ UNCHANGED <<vars, abstime, result, asked>>

TimedNext ==
  \/ Tick
  \/ \E t \in Threads :
       \/ Untimed(t) \/ FallAsleep(t) \/ Refuse(t) \/ TimeOut(t)
       \/ SpuriousWakeUp(t) \/ Return(t)
       \/ \E c \in Conds : Signal(t, c) \/ \E ns \in Durations : BeginWaitForSeconds(t, c, ns)

TimedSpec == TimedInit /\ [][TimedNext]_timedVars
-----------------------------------------------------------------------------
(* WaitForSeconds returns true, ETIMEDOUT, only when the time it was asked *)
(* to wait has passed since the call, over the carry of the nanoseconds    *)
(* (line 22); while it sleeps its deadline is that time and no later one;  *)
(* and it is refused a deadline only for a negative argument, which it     *)
(* then reports as a notification.                                         *)
WaitForSecondsIsTrue == \A t \in Threads :
  LET end == asked[t].at + asked[t].ns IN
    /\ result[t] = "ETIMEDOUT" => end <= now
    /\ result[t] = "pending" /\ pc[t] = "asleep" => (Passed(abstime[t]) <=> end <= now)
    /\ result[t] = "EINVAL" => asked[t].ns < 0
=============================================================================
