---------------------------- MODULE Util_proofs ----------------------------
(***************************************************************************)
(* Proofs about the classes of util that use no other: Mutex with its      *)
(* Conditions, for any number of threads and conditions; TimedWait, for    *)
(* any clock and any durations; and Date, for every year from 1900 on.     *)
(*                                                                         *)
(* The invariant of Mutex ties the location of a thread to the pthread     *)
(* mutex and to holder_: the thread owns the pthread mutex at all          *)
(* locations but three, and its id is in holder_ at one of them.  The      *)
(* deadlines and the dates are facts about quotients.                      *)
(***************************************************************************)
EXTENDS TimedWait, Date, DataLemmas
-----------------------------------------------------------------------------
(* Mutex *)

Owning == {"locked", "in", "unlocking", "wait", "awake"}

IInv ==
  /\ TypeOK
  /\ \A t \in Threads : pc[t] \in Owning <=> mutex_ = t
  /\ \A t \in Threads : pc[t] = "in" <=> holder_ = t
  /\ \A c \in Conds : \A t \in asleep[c] : pc[t] = "asleep"

-----------------------------------------------------------------------------
(* The initial states satisfy the invariant. *)
LEMMA InitIInv == Init => IInv
BY MutexAssumption DEF Init, IInv, TypeOK, Owning

(* Every step of a thread preserves it. *)
LEMMA NextIInv == IInv /\ [Next]_vars => IInv'
<1> SUFFICES ASSUME IInv, [Next]_vars
             PROVE  IInv'
  OBVIOUS
<1> USE MutexAssumption DEF IInv, TypeOK, Owning
<1>1. CASE UNCHANGED vars
  BY <1>1 DEF vars
<1>2. ASSUME NEW t \in Threads, LockMutex(t)
      PROVE  IInv'
  BY <1>2 DEF LockMutex, Go
<1>3. ASSUME NEW t \in Threads, FinishLock(t)
      PROVE  IInv'
  BY <1>3 DEF FinishLock, Go, AssignHolder
<1>4. ASSUME NEW t \in Threads, BeginUnLock(t)
      PROVE  IInv'
  BY <1>4 DEF BeginUnLock, Go, UnAssignHolder
<1>5. ASSUME NEW t \in Threads, UnLockMutex(t)
      PROVE  IInv'
  BY <1>5 DEF UnLockMutex, Go
<1>6. ASSUME NEW t \in Threads, CondWait(t)
      PROVE  IInv'
  BY <1>6 DEF CondWait, Go
<1>7. ASSUME NEW t \in Threads, CondReturn(t)
      PROVE  IInv'
  BY <1>7 DEF CondReturn, Go
<1>8. ASSUME NEW t \in Threads, FinishWait(t)
      PROVE  IInv'
  BY <1>8 DEF FinishWait, Go, AssignHolder
<1>9. ASSUME NEW t \in Threads, WakeUp(t)
      PROVE  IInv'
  BY <1>9 DEF WakeUp
<1>10. ASSUME NEW t \in Threads, NEW c \in Conds, BeginWait(t, c)
       PROVE  IInv'
  BY <1>10 DEF BeginWait, Go, UnAssignHolder
<1>11. ASSUME NEW t \in Threads, NEW c \in Conds, Notify(t, c)
       PROVE  IInv'
  BY <1>11 DEF Notify
<1>12. ASSUME NEW t \in Threads, NEW c \in Conds, NotifyAll(t, c)
       PROVE  IInv'
  BY <1>12 DEF NotifyAll
<1>13. ASSUME NEW t \in Threads, CondRefuse(t)
       PROVE  IInv'
  BY <1>13 DEF CondRefuse, Go
<1> HIDE DEF IInv, TypeOK, Owning
<1>14. QED
  BY <1>1, <1>2, <1>3, <1>4, <1>5, <1>6, <1>7, <1>8, <1>9, <1>10, <1>11, <1>12, <1>13 DEF Next

(* Lock, UnLock and the waits keep the invariant: pc says who owns the     *)
(* pthread mutex and what holder_ is.                                      *)
THEOREM MutexInvariant == Spec => []IInv
BY InitIInv, NextIInv, PTL DEF Spec
-----------------------------------------------------------------------------
(* Every variable keeps its type. *)
THEOREM TypeCorrect == Spec => []TypeOK
<1>1. IInv => TypeOK
  BY DEF IInv
<1>2. QED
  BY <1>1, MutexInvariant, PTL

(* holder_ is the id of the owner of the pthread mutex, or 0. *)
THEOREM HolderIsOwner == Spec => []HolderOwnsMutex
<1>1. IInv => HolderOwnsMutex
  BY DEF IInv, TypeOK, Owning, HolderOwnsMutex
<1>2. QED
  BY <1>1, MutexInvariant, PTL

(* AssertLocked holds between Lock and UnLock, outside Wait. *)
THEOREM AssertLockedNeverFails == Spec => []AssertLockedHolds
<1>1. IInv => AssertLockedHolds
  BY DEF IInv, AssertLockedHolds
<1>2. QED
  BY <1>1, MutexInvariant, PTL

(* IsLockedByThisThread is true for the owner inside, and for nobody else. *)
THEOREM HolderIsTold == Spec => []IsLockedByThisThreadIsRight
BY HolderIsOwner, AssertLockedNeverFails, PTL DEF IsLockedByThisThreadIsRight
-----------------------------------------------------------------------------
(* The initial states are those of the monitor. *)
LEMMA InitImplements == Init => Mon!Init
BY DEF Init, Mon!Init, waiting

(* How a change of one set of the sleeping threads is shown. *)
LEMMA OneCondChanges ==
  ASSUME NEW c \in Conds, NEW S,
         \A d \in Conds : waiting'[d] = IF d = c THEN S ELSE waiting[d]
  PROVE  waiting' = [waiting EXCEPT ![c] = S]
BY DEF waiting

(* Every step is a step of the monitor or changes nothing it has. *)
LEMMA NextImplements ==
  IInv /\ [Next]_vars => [Mon!Next]_<<holder_, waiting>>
<1> SUFFICES ASSUME IInv, [Next]_vars
             PROVE  [Mon!Next]_<<holder_, waiting>>
  OBVIOUS
<1> USE MutexAssumption DEF IInv, TypeOK, Owning
<1>1. CASE UNCHANGED vars
  BY <1>1 DEF vars, waiting
<1>2. ASSUME NEW t \in Threads, LockMutex(t)
      PROVE  UNCHANGED <<holder_, waiting>>
  BY <1>2 DEF LockMutex, Go, waiting
<1>3. ASSUME NEW t \in Threads, FinishLock(t)
      PROVE  Mon!Lock(t) /\ UNCHANGED waiting
  BY <1>3 DEF FinishLock, Go, AssignHolder, waiting, Mon!Lock, Mon!Awake
<1>4. ASSUME NEW t \in Threads, BeginUnLock(t)
      PROVE  Mon!UnLock(t) /\ UNCHANGED waiting
  BY <1>4 DEF BeginUnLock, Go, UnAssignHolder, waiting, Mon!UnLock
<1>5. ASSUME NEW t \in Threads, UnLockMutex(t)
      PROVE  UNCHANGED <<holder_, waiting>>
  BY <1>5 DEF UnLockMutex, Go, waiting
<1>6. ASSUME NEW t \in Threads, CondWait(t)
      PROVE  UNCHANGED <<holder_, waiting>>
  BY <1>6 DEF CondWait, Go, waiting
<1>7. ASSUME NEW t \in Threads, CondReturn(t)
      PROVE  UNCHANGED <<holder_, waiting>>
  BY <1>7 DEF CondReturn, Go, waiting
<1>8. ASSUME NEW t \in Threads, FinishWait(t)
      PROVE  Mon!Lock(t) /\ UNCHANGED waiting
  BY <1>8 DEF FinishWait, Go, AssignHolder, waiting, Mon!Lock, Mon!Awake
<1>9. ASSUME NEW t \in Threads, WakeUp(t)
      PROVE  Mon!WakeUp(t)
  <2>1. PICK c \in Conds : t \in asleep[c] /\ asleep' = [asleep EXCEPT ![c] = @ \ {t}]
    BY <1>9 DEF WakeUp
  <2>2. UNCHANGED <<pc, cond, holder_>> /\ pc[t] # "wait"
    BY <1>9, <2>1 DEF WakeUp
  <2>3. t \in waiting[c] /\ waiting' = [waiting EXCEPT ![c] = @ \ {t}]
    <3>1. \A d \in Conds : waiting'[d] = IF d = c THEN waiting[c] \ {t} ELSE waiting[d]
      BY <2>1, <2>2 DEF waiting
    <3>2. t \in waiting[c]
      BY <2>1 DEF waiting
    <3>3. QED
      BY <3>1, <3>2, OneCondChanges
  <2>4. QED
    BY <2>2, <2>3 DEF Mon!WakeUp
<1>10. ASSUME NEW t \in Threads, NEW c \in Conds, BeginWait(t, c)
       PROVE  Mon!Wait(t, c)
  <2>1. waiting' = [waiting EXCEPT ![c] = @ \cup {t}]
    <3>1. pc[t] = "in" /\ pc' = [pc EXCEPT ![t] = "wait"] /\ cond' = [cond EXCEPT ![t] = c]
      BY <1>10 DEF BeginWait, Go
    <3>2. \A d \in Conds : waiting'[d] = IF d = c THEN waiting[c] \cup {t} ELSE waiting[d]
      BY <1>10, <3>1 DEF BeginWait, waiting
    <3>3. QED
      BY <3>2, OneCondChanges
  <2>2. QED
    BY <1>10, <2>1 DEF BeginWait, Go, UnAssignHolder, Mon!Wait, Mon!UnLock
<1>11. ASSUME NEW t \in Threads, NEW c \in Conds, Notify(t, c)
       PROVE  Mon!Signal(t, c)
  <2>1. PICK u \in asleep[c] : asleep' = [asleep EXCEPT ![c] = @ \ {u}]
    BY <1>11 DEF Notify
  <2>2. UNCHANGED <<pc, cond, holder_>> /\ pc[u] # "wait" /\ holder_ = t
    BY <1>11, <2>1 DEF Notify
  <2>3. u \in waiting[c] /\ waiting' = [waiting EXCEPT ![c] = @ \ {u}]
    <3>1. \A d \in Conds : waiting'[d] = IF d = c THEN waiting[c] \ {u} ELSE waiting[d]
      BY <2>1, <2>2 DEF waiting
    <3>2. u \in waiting[c]
      BY <2>1 DEF waiting
    <3>3. QED
      BY <3>1, <3>2, OneCondChanges
  <2>4. QED
    BY <2>2, <2>3 DEF Mon!Signal, Mon!Notify
<1>12. ASSUME NEW t \in Threads, NEW c \in Conds, NotifyAll(t, c)
       PROVE  Mon!Signal(t, c)
  <2>1. asleep' = [asleep EXCEPT ![c] = {}] /\ UNCHANGED <<pc, cond, holder_>> /\ holder_ = t
    BY <1>12 DEF NotifyAll
  <2>2. \A u \in Threads : pc[u] # "wait" \/ cond[u] # c
    BY <1>12 DEF NotifyAll, Owning
  <2>3. \A d \in Conds : waiting'[d] = IF d = c THEN {} ELSE waiting[d]
    BY <2>1, <2>2 DEF waiting
  <2>4. waiting' = [waiting EXCEPT ![c] = {}]
    BY <2>3, OneCondChanges
  <2>5. QED
    BY <2>1, <2>4 DEF Mon!Signal, Mon!NotifyAll
<1>13. ASSUME NEW t \in Threads, CondRefuse(t)
       PROVE  Mon!WakeUp(t)
  <2> DEFINE c == cond[t]
  <2>1. pc[t] = "wait" /\ pc' = [pc EXCEPT ![t] = "awake"] /\ UNCHANGED <<cond, holder_, asleep>>
    BY <1>13 DEF CondRefuse, Go
  <2>2. c \in Conds /\ t \in waiting[c]
    BY <2>1 DEF waiting
  <2>3. \A d \in Conds : t \notin asleep[d]
    BY <2>1
  <2>4. \A d \in Conds : waiting'[d] = IF d = c THEN waiting[c] \ {t} ELSE waiting[d]
    BY <2>1, <2>3 DEF waiting
  <2>5. waiting' = [waiting EXCEPT ![c] = @ \ {t}]
    BY <2>2, <2>4, OneCondChanges
  <2>6. QED
    BY <2>1, <2>2, <2>5 DEF Mon!WakeUp
<1> HIDE DEF IInv, TypeOK, Owning
<1>14. ASSUME NEW t \in Threads,
              \/ LockMutex(t) \/ FinishLock(t) \/ BeginUnLock(t) \/ UnLockMutex(t)
              \/ CondWait(t) \/ CondRefuse(t) \/ CondReturn(t) \/ FinishWait(t) \/ WakeUp(t)
       PROVE  Mon!Next \/ UNCHANGED <<holder_, waiting>>
  BY <1>2, <1>3, <1>4, <1>5, <1>6, <1>7, <1>8, <1>9, <1>13, <1>14 DEF Mon!Next
<1>15. ASSUME NEW t \in Threads, NEW c \in Conds,
              BeginWait(t, c) \/ Notify(t, c) \/ NotifyAll(t, c)
       PROVE  Mon!Next
  BY <1>10, <1>11, <1>12, <1>15 DEF Mon!Next
<1>16. QED
  BY <1>1, <1>14, <1>15 DEF Next

(* A Mutex with its Conditions is a monitor. *)
THEOREM MutexImplementsMonitor == Spec => ImplementsMonitor
BY InitImplements, NextImplements, MutexInvariant, PTL
DEF Spec, ImplementsMonitor, Mon!Spec
-----------------------------------------------------------------------------
(* TimedWait *)

(* Every step of TimedWait is a step of Mutex, or changes nothing it has. *)
LEMMA TimedStepIsStep == [TimedNext]_timedVars => [Next]_vars
<1> SUFFICES ASSUME [TimedNext]_timedVars
             PROVE  [Next]_vars
  OBVIOUS
<1>1. CASE UNCHANGED timedVars \/ Tick
  BY <1>1 DEF timedVars, Tick
<1>2. ASSUME NEW t \in Threads, Untimed(t)
      PROVE  Next
  BY <1>2 DEF Untimed, Next
<1>3. ASSUME NEW t \in Threads,
             FallAsleep(t) \/ Refuse(t) \/ TimeOut(t) \/ SpuriousWakeUp(t) \/ Return(t)
      PROVE  Next
  BY <1>3 DEF FallAsleep, Refuse, TimeOut, SpuriousWakeUp, Return, Next
<1>4. ASSUME NEW t \in Threads, NEW c \in Conds, NEW ns \in Durations,
             BeginWaitForSeconds(t, c, ns)
      PROVE  Next
  BY <1>4 DEF BeginWaitForSeconds, Next
<1>5. ASSUME NEW t \in Threads, NEW c \in Conds, Signal(t, c)
      PROVE  Next
  BY <1>5 DEF Signal, Next
<1>6. QED
  BY <1>1, <1>2, <1>3, <1>4, <1>5 DEF TimedNext

(* A mutex with timed waits is a Mutex, and so all of the above holds of it. *)
THEOREM TimedWaitIsMutex == TimedSpec => Spec
<1>1. TimedInit => Init
  BY DEF TimedInit
<1>2. QED
  BY <1>1, TimedStepIsStep, PTL DEF TimedSpec, Spec
(* The remainder of C completes the quotient, and has no sign when the     *)
(* dividend has none.                                                      *)
LEMMA QuotRem ==
  ASSUME NEW a \in Int, NEW k \in Nat \ {0}
  PROVE  /\ Quot(a, k) \in Int /\ Rem(a, k) \in Int
         /\ Quot(a, k) * k + Rem(a, k) = a
         /\ a >= 0 => Rem(a, k) \in 0 .. k - 1
<1>1. Quot(a, k) \in Int
  BY QuotientFacts DEF Quot
<1>2. Rem(a, k) \in Int /\ Rem(a, k) = a - k * Quot(a, k)
  BY <1>1 DEF Rem
<1>3. Quot(a, k) * k + Rem(a, k) = a
  BY <1>1, <1>2
<1>4. ASSUME a >= 0
      PROVE  Rem(a, k) \in 0 .. k - 1
  <2>1. Quot(a, k) = a \div k
    BY <1>4 DEF Quot
  <2>2. QED
    BY <1>2, <2>1, QuotientFacts
<1>5. QED
  BY <1>1, <1>2, <1>3, <1>4

(* The deadline is the time of the call and the duration together, and is  *)
(* a time for pthread_cond_timedwait unless the duration is negative.      *)
LEMMA DeadlineIsSum ==
  ASSUME NEW at \in Nat, NEW ns \in Int
  PROVE  LET d == Deadline(at, ns) IN
           /\ d.sec \in Int /\ d.nsec \in Int
           /\ d.sec * NanoSecondsPerSecond + d.nsec = at + ns
           /\ ns >= 0 => IsTime(d)
<1> DEFINE k == NanoSecondsPerSecond
           q == at \div k
           r == at % k
           n == r + ns
<1>1. k \in Nat \ {0}
  BY TimeAssumption
<1>2. q \in Int /\ r \in 0 .. k - 1 /\ r = at - k * q
  BY <1>1, QuotientFacts
<1>3. n \in Int /\ (ns >= 0 => n >= 0)
  BY <1>1, <1>2
<1>4. /\ Quot(n, k) \in Int /\ Rem(n, k) \in Int
      /\ Quot(n, k) * k + Rem(n, k) = n
      /\ n >= 0 => Rem(n, k) \in 0 .. k - 1
  BY <1>1, <1>3, QuotRem
<1>5. Deadline(at, ns).sec = q + Quot(n, k) /\ Deadline(at, ns).nsec = Rem(n, k)
  BY DEF Deadline
<1> HIDE DEF k, q, r, n
<1>6. (q + Quot(n, k)) * k = q * k + Quot(n, k) * k
  BY <1>1, <1>2, <1>4
<1>7. q * k = k * q /\ q * k \in Int /\ Quot(n, k) * k \in Int
  BY <1>1, <1>2, <1>4
<1>8. (q + Quot(n, k)) * k + Rem(n, k) = at + ns
  <2>1. r = at - k * q /\ r \in Int
    BY <1>1, <1>2
  <2>2. n = r + ns
    BY DEF n
  <2>3. q * k + n = at + ns
    BY <1>7, <2>1, <2>2
  <2>4. Quot(n, k) * k + Rem(n, k) = n
    BY <1>4
  <2>5. (q + Quot(n, k)) * k + Rem(n, k) = q * k + (Quot(n, k) * k + Rem(n, k))
    BY <1>4, <1>6, <1>7
  <2>6. QED
    BY <2>3, <2>4, <2>5
<1>9. QED
  BY <1>2, <1>3, <1>4, <1>5, <1>8 DEF IsTime, k

(* What is known of a thread in WaitForSeconds. *)
Timing ==
  /\ now \in Nat
  /\ abstime \in [Threads -> [sec : Int, nsec : Int]]
  /\ asked \in [Threads -> [at : Nat, ns : Int]]
  /\ result \in [Threads -> {"untimed", "pending", "0", "ETIMEDOUT", "EINVAL"}]
  /\ \A t \in Threads :
       /\ result[t] # "untimed" => abstime[t] = Deadline(asked[t].at, asked[t].ns)
       /\ result[t] = "ETIMEDOUT" => Passed(abstime[t])
       /\ result[t] = "EINVAL" => ~IsTime(abstime[t])

LEMMA InitTiming == TimedInit => Timing
BY DEF TimedInit, Timing, NoDeadline, NotAsked

LEMMA NextTiming == Timing /\ [TimedNext]_timedVars => Timing'
<1> SUFFICES ASSUME Timing, [TimedNext]_timedVars
             PROVE  Timing'
  OBVIOUS
<1> USE DEF Timing
<1>1. CASE UNCHANGED timedVars
  BY <1>1 DEF timedVars, Passed
<1>2. CASE Tick
  <2>1. now' = now + 1 /\ UNCHANGED <<abstime, result, asked>>
    BY <1>2 DEF Tick
  <2>2. ASSUME NEW t \in Threads, Passed(abstime[t])
        PROVE  Passed(abstime[t])'
    <3>1. abstime[t].sec * NanoSecondsPerSecond + abstime[t].nsec \in Int
      BY TimeAssumption
    <3>2. QED
      BY <2>1, <2>2, <3>1 DEF Passed
  <2>3. QED
    BY <2>1, <2>2
<1>3. ASSUME NEW t \in Threads, Untimed(t) \/ FallAsleep(t)
      PROVE  Timing'
  BY <1>3 DEF Untimed, FallAsleep, Passed
<1>4. ASSUME NEW t \in Threads, Refuse(t)
      PROVE  Timing'
  BY <1>4 DEF Refuse, Passed
<1>5. ASSUME NEW t \in Threads, TimeOut(t)
      PROVE  Timing'
  BY <1>5 DEF TimeOut, Passed
<1>6. ASSUME NEW t \in Threads, Return(t)
      PROVE  Timing'
  BY <1>6 DEF Return, Passed, NoDeadline, NotAsked
<1>7. ASSUME Return0, UNCHANGED <<now, abstime, asked>>
      PROVE  Timing'
  BY <1>7 DEF Return0, Passed
<1>8. ASSUME NEW t \in Threads, NEW c \in Conds, NEW ns \in Durations,
             BeginWaitForSeconds(t, c, ns)
      PROVE  Timing'
  <2>1. /\ abstime' = [abstime EXCEPT ![t] = Deadline(now, ns)]
        /\ result' = [result EXCEPT ![t] = "pending"]
        /\ asked' = [asked EXCEPT ![t] = [at |-> now, ns |-> ns]]
        /\ now' = now /\ ns \in Int
    BY <1>8, TimeAssumption DEF BeginWaitForSeconds
  <2>2. Deadline(now, ns) \in [sec : Int, nsec : Int]
    <3>1. Deadline(now, ns).sec \in Int /\ Deadline(now, ns).nsec \in Int
      BY <2>1, DeadlineIsSum
    <3>2. QED
      BY <3>1 DEF Deadline
  <2>3. QED
    BY <2>1, <2>2 DEF Passed
<1> HIDE DEF Timing
<1>9. QED
  BY <1>1, <1>2, <1>3, <1>4, <1>5, <1>6, <1>7, <1>8
  DEF TimedNext, SpuriousWakeUp, Signal

(* WaitForSeconds reports a timeout when, and only when, one happened. *)
THEOREM TimeoutsAreTrue == TimedSpec => []WaitForSecondsIsTrue
<1>1. Timing => WaitForSecondsIsTrue
  <2> SUFFICES ASSUME Timing, NEW t \in Threads, result[t] # "untimed"
               PROVE  LET end == asked[t].at + asked[t].ns IN
                        /\ Passed(abstime[t]) <=> end <= now
                        /\ ~IsTime(abstime[t]) => asked[t].ns < 0
    BY DEF Timing, WaitForSecondsIsTrue
  <2>1. asked[t].at \in Nat /\ asked[t].ns \in Int /\ now \in Nat
    BY DEF Timing
  <2>2. abstime[t] = Deadline(asked[t].at, asked[t].ns)
    BY DEF Timing
  <2> DEFINE d == Deadline(asked[t].at, asked[t].ns)
  <2>3. /\ d.sec * NanoSecondsPerSecond + d.nsec = asked[t].at + asked[t].ns
        /\ asked[t].ns >= 0 => IsTime(d)
    BY <2>1, DeadlineIsSum
  <2> HIDE DEF d
  <2>4. Passed(d) <=> asked[t].at + asked[t].ns <= now
    BY <2>3 DEF Passed
  <2>5. ~IsTime(d) => asked[t].ns < 0
    BY <2>1, <2>3
  <2>6. QED
    BY <2>2, <2>4, <2>5 DEF d
<1>2. QED
  BY <1>1, InitTiming, NextTiming, PTL DEF TimedSpec
-----------------------------------------------------------------------------
(* Date *)

(* The year that begins in March, and the months counted from March.       *)
ShiftedYear(year, month) == year + 4800 - (14 - month) \div 12
ShiftedMonth(month) == month + 12 * ((14 - month) \div 12) - 3
DaysBeforeMonth(m) == (153 * m + 2) \div 5
DaysBeforeYear(y) == y * 365 + y \div 4 - y \div 100 + y \div 400

(* The day in the year, from 0, and back.                                  *)
DayInYear(month, day) == DaysBeforeMonth(ShiftedMonth(month)) + day - 1

Century(a) == (4 * a + 3) \div 146097
DayOfCentury(a) == a - (Century(a) * 146097) \div 4
YearOfCentury(c) == (4 * c + 3) \div 1461
DayOfYear(c) == c - (1461 * YearOfCentury(c)) \div 4
MonthOfYear(e) == (5 * e + 2) \div 153

(* GetJuliandaynumber counts the days of the years, of the months and of   *)
(* the last month.                                                         *)
LEMMA JulianDayParts ==
  ASSUME NEW year \in Nat, NEW month \in Nat, NEW day \in Nat,
         1 <= month, month <= 12, 1 <= day, day <= 31
  PROVE  /\ GetJuliandaynumber(year, month, day) =
              day + DaysBeforeMonth(ShiftedMonth(month))
                  + DaysBeforeYear(ShiftedYear(year, month)) - 32045
         /\ ShiftedYear(year, month) \in Nat
         /\ ShiftedMonth(month) \in Nat /\ ShiftedMonth(month) <= 11
<1>1. (14 - month) \div 12 \in {0, 1}
  OBVIOUS
<1>2. ShiftedYear(year, month) \in Nat /\ ShiftedMonth(month) \in Nat /\ ShiftedMonth(month) <= 11
  BY <1>1 DEF ShiftedYear, ShiftedMonth
<1>3. QED
  BY <1>1, <1>2 DEF GetJuliandaynumber, DaysBeforeMonth, DaysBeforeYear, ShiftedYear, ShiftedMonth

(* A year that begins in March has a day more when the February in it is   *)
(* that of a leap year.                                                    *)
LEMMA YearLength ==
  ASSUME NEW y \in Nat
  PROVE  DaysBeforeYear(y + 1) - DaysBeforeYear(y) = IF IsLeap(y + 1) THEN 366 ELSE 365
<1>1. (y + 1) \div 4 - y \div 4 = IF (y + 1) % 4 = 0 THEN 1 ELSE 0
  OBVIOUS
<1>2. (y + 1) \div 100 - y \div 100 = IF (y + 1) % 100 = 0 THEN 1 ELSE 0
  OBVIOUS
<1>3. (y + 1) \div 400 - y \div 400 = IF (y + 1) % 400 = 0 THEN 1 ELSE 0
  OBVIOUS
<1>4. /\ (y + 1) % 400 = 0 => (y + 1) % 100 = 0
      /\ (y + 1) % 100 = 0 => (y + 1) % 4 = 0
  OBVIOUS
<1>5. QED
  BY <1>1, <1>2, <1>3, <1>4 DEF DaysBeforeYear, IsLeap

(* The days of the calendar, by the year and month that begin in March.    *)
LEMMA DayInMonth ==
  ASSUME NEW year \in Nat, NEW month \in Nat, NEW day \in Nat,
         1 <= month, month <= 12, 1 <= day, day <= 31, day <= DaysOf(month - 1, year)
  PROVE  /\ DayInYear(month, day) \in Nat /\ DayInYear(month, day) <= 365
         /\ DayInYear(month, day) = 365 => IsLeap(ShiftedYear(year, month) + 1)
         /\ MonthOfYear(DayInYear(month, day)) = ShiftedMonth(month)
         /\ ShiftedMonth(month) + 3 - 12 * (ShiftedMonth(month) \div 10) = month
         /\ ShiftedYear(year, month) - 4800 + ShiftedMonth(month) \div 10 = year
<1> DEFINE y == ShiftedYear(year, month)
           m == ShiftedMonth(month)
           e == DayInYear(month, day)
<1>1. day \in 1 .. 31 /\ (month = 2 => day <= 29) /\ (month \in {4, 6, 9, 11} => day <= 30)
  BY DEF DaysOf
<1>2. month = 2 /\ day = 29 => IsLeap(year)
  BY DEF DaysOf
<1>3. /\ y = IF month <= 2 THEN year + 4799 ELSE year + 4800
      /\ m = IF month <= 2 THEN month + 9 ELSE month - 3
  BY DEF ShiftedYear, ShiftedMonth
<1>4. IsLeap(year) => IsLeap(year + 4800)
  BY DEF IsLeap
<1>5. e \in Nat /\ e <= 365 /\ (e = 365 => month = 2 /\ day = 29)
  BY <1>1, <1>3 DEF DaysBeforeMonth, DayInYear
<1>6. e = 365 => IsLeap(y + 1)
  <2>1. month = 2 => y + 1 = year + 4800
    BY <1>3
  <2>2. QED
    BY <1>2, <1>4, <1>5, <2>1
<1>7. MonthOfYear(e) = m
  BY <1>1, <1>3 DEF MonthOfYear, DaysBeforeMonth, DayInYear
<1>8. m + 3 - 12 * (m \div 10) = month /\ y - 4800 + m \div 10 = year
  BY <1>3
<1>9. QED
  BY <1>5, <1>6, <1>7, <1>8

(* A year, by its cycles of 400, 100 and 4 years.                          *)
LEMMA YearParts ==
  ASSUME NEW y \in Nat
  PROVE  \E q \in Nat, i \in 0 .. 3, j \in 0 .. 24, k \in 0 .. 3 : y = 400 * q + 100 * i + 4 * j + k
<1> DEFINE q == y \div 400
           r == y % 400
           i == r \div 100
           s == r % 100
           j == s \div 4
           k == s % 4
<1>1. q \in Nat /\ r \in 0 .. 399 /\ y = 400 * q + r
  OBVIOUS
<1>2. i \in 0 .. 3 /\ s \in 0 .. 99 /\ r = 100 * i + s
  BY <1>1
<1>3. j \in 0 .. 24 /\ k \in 0 .. 3 /\ s = 4 * j + k
  BY <1>2
<1>4. QED
  BY <1>1, <1>2, <1>3, Z3

(* The year and the day in it are found again.                             *)
LEMMA CenturyAndYear ==
  ASSUME NEW y \in Nat, NEW e \in Nat, e <= 365, e = 365 => IsLeap(y + 1)
  PROVE  LET a == e + DaysBeforeYear(y)
             c == DayOfCentury(a)
         IN  Century(a) * 100 + YearOfCentury(c) = y /\ DayOfYear(c) = e
<1>1. PICK q \in Nat, i \in 0 .. 3, j \in 0 .. 24, k \in 0 .. 3 : y = 400 * q + 100 * i + 4 * j + k
  BY YearParts
<1> DEFINE a == e + DaysBeforeYear(y)
           b == Century(a)
           c == DayOfCentury(a)
           d == YearOfCentury(c)
<1>2. a = 146097 * q + 36524 * i + 1461 * j + 365 * k + e
  <2>1. y \div 4 = 100 * q + 25 * i + j
    BY <1>1
  <2>2. y \div 100 = 4 * q + i
    BY <1>1
  <2>3. y \div 400 = q
    BY <1>1
  <2>4. QED
    BY <1>1, <2>1, <2>2, <2>3 DEF DaysBeforeYear
<1>3. e = 365 => k = 3 /\ (j = 24 => i = 3)
  <2>1. e = 365 => (y + 1) % 4 = 0 /\ ((y + 1) % 100 = 0 => (y + 1) % 400 = 0)
    BY DEF IsLeap
  <2>2. (y + 1) % 4 = 0 => k = 3
    BY <1>1
  <2>3. k = 3 /\ j = 24 => (y + 1) % 100 = 0
    BY <1>1
  <2>4. k = 3 /\ j = 24 /\ (y + 1) % 400 = 0 => i = 3
    BY <1>1
  <2>5. QED
    BY <2>1, <2>2, <2>3, <2>4
<1> HIDE DEF a
<1>4. b = 4 * q + i
  <2>1. 1461 * j + 365 * k + e <= IF i = 3 THEN 36524 ELSE 36523
    BY <1>3
  <2>2. 4 * a + 3 >= 146097 * (4 * q + i) /\ 4 * a + 3 < 146097 * (4 * q + i + 1)
    BY <1>2, <2>1
  <2>3. a \in Nat
    BY <1>2
  <2>4. QED
    BY <2>2, <2>3 DEF Century
<1> HIDE DEF b
<1>5. c = 1461 * j + 365 * k + e
  <2>1. (b * 146097) \div 4 = 146097 * q + 36524 * i
    BY <1>4
  <2>2. c = a - (b * 146097) \div 4
    BY DEF DayOfCentury, b
  <2>3. QED
    BY <1>2, <2>1, <2>2
<1> HIDE DEF c
<1>6. d = 4 * j + k
  <2>1. 4 * c + 3 >= 1461 * (4 * j + k) /\ 4 * c + 3 < 1461 * (4 * j + k + 1)
    BY <1>3, <1>5
  <2>2. c \in Nat
    BY <1>5
  <2>3. QED
    BY <2>1, <2>2 DEF YearOfCentury
<1> HIDE DEF d
<1>7. b * 100 + d = y
  BY <1>1, <1>4, <1>6
<1>8. DayOfYear(c) = e
  <2>1. (1461 * d) \div 4 = 1461 * j + 365 * k
    BY <1>6
  <2>2. DayOfYear(c) = c - (1461 * d) \div 4
    BY DEF DayOfYear, d
  <2>3. QED
    BY <1>5, <2>1, <2>2
<1>9. QED
  BY <1>7, <1>8 DEF a, b, c, d

(* GetYearMonthDay in these terms.                                         *)
YearOf(a, n) == Century(a) * 100 + YearOfCentury(DayOfCentury(a)) - 4800 + n \div 10
MonthOf(n) == n + 3 - 12 * (n \div 10)
DayOf(e, n) == e - DaysBeforeMonth(n) + 1

Parts(a) ==
  LET e == DayOfYear(DayOfCentury(a))
      n == MonthOfYear(e)
  IN  [day |-> DayOf(e, n), month |-> MonthOf(n), year |-> YearOf(a, n)]

(* GetYearMonthDay, in the terms above.                                    *)
LEMMA YearMonthDayParts ==
  ASSUME NEW julian
  PROVE  GetYearMonthDay(julian) = Parts(julian + 32044)
BY DEF GetYearMonthDay, Parts, YearOf, MonthOf, DayOf, MonthOfYear, DayOfYear, YearOfCentury,
       DayOfCentury, Century, DaysBeforeMonth

(* A Date gives back the year, the month and the day it was made from.     *)
LEMMA RoundTrip ==
  ASSUME NEW year \in Nat, NEW month \in Nat, NEW day \in Nat,
         1 <= month, month <= 12, 1 <= day, day <= 31, day <= DaysOf(month - 1, year)
  PROVE  GetYearMonthDay(GetJuliandaynumber(year, month, day)) =
           [day |-> day, month |-> month, year |-> year]
<1> DEFINE y == ShiftedYear(year, month)
           m == ShiftedMonth(month)
           e == DayInYear(month, day)
           j == GetJuliandaynumber(year, month, day)
           a == e + DaysBeforeYear(y)
           c == DayOfCentury(a)
<1>2. y \in Nat /\ m \in Nat /\ m <= 11
  BY JulianDayParts
<1>3. j + 32044 = a
  <2>1. j = day + DaysBeforeMonth(m) + DaysBeforeYear(y) - 32045
    BY JulianDayParts
  <2>2. DaysBeforeMonth(m) \in Int /\ DaysBeforeYear(y) \in Int
    BY <1>2 DEF DaysBeforeMonth, DaysBeforeYear
  <2>3. e = DaysBeforeMonth(m) + day - 1
    BY DEF DayInYear
  <2> HIDE DEF j, y, m, e
  <2>4. QED
    BY <2>1, <2>2, <2>3
<1>4. /\ e \in Nat /\ e <= 365 /\ (e = 365 => IsLeap(y + 1))
      /\ MonthOfYear(e) = m
      /\ m + 3 - 12 * (m \div 10) = month
      /\ y - 4800 + m \div 10 = year
  BY DayInMonth
<1> DEFINE f == DayOfYear(c)
           n == MonthOfYear(f)
<1>5. GetYearMonthDay(j) = [day |-> DayOf(f, n), month |-> MonthOf(n), year |-> YearOf(a, n)]
  <2> HIDE DEF j, a
  <2>1. GetYearMonthDay(j) = Parts(a)
    BY <1>3, YearMonthDayParts
  <2>2. QED
    BY <2>1 DEF Parts
<1>6. Century(a) * 100 + YearOfCentury(c) = y /\ f = e
  <2> HIDE DEF y, e
  <2>1. QED
    BY <1>2, <1>4, CenturyAndYear
<1>7. n = m
  <2> HIDE DEF f, e, m
  <2>1. QED
    BY <1>4, <1>6
<1>8. DayOf(e, m) = day
  <2>1. DaysBeforeMonth(m) \in Int
    BY <1>2 DEF DaysBeforeMonth
  <2>2. e = DaysBeforeMonth(m) + day - 1
    BY DEF DayInYear
  <2> HIDE DEF e, m
  <2>3. QED
    BY <2>1, <2>2 DEF DayOf
<1>9. MonthOf(m) = month
  BY <1>4 DEF MonthOf
<1>10. YearOf(a, m) = year
  <2>1. a \in Int
    <3>1. DaysBeforeYear(y) \in Int
      BY <1>2 DEF DaysBeforeYear
    <3> HIDE DEF y, e
    <3>2. QED
      BY <1>4, <3>1
  <2> HIDE DEF y, m, e, a
  <2>2. Century(a) \in Int /\ c \in Int
    BY <2>1 DEF Century, DayOfCentury
  <2> HIDE DEF c
  <2>3. YearOfCentury(c) \in Int
    BY <2>2 DEF YearOfCentury
  <2>4. YearOf(a, m) = Century(a) * 100 + YearOfCentury(c) - 4800 + m \div 10
    BY DEF YearOf, c
  <2>5. Century(a) * 100 + YearOfCentury(c) = y /\ y - 4800 + m \div 10 = year
    BY <1>4, <1>6
  <2> DEFINE p == Century(a)
             q == YearOfCentury(c)
             d == m \div 10
  <2>6. d \in Int
    BY <1>2
  <2> HIDE DEF p, q, d
  <2>7. p * 100 + q - 4800 + d = y - 4800 + d
    BY <1>2, <2>2, <2>3, <2>5, <2>6 DEF p, q
  <2>8. QED
    BY <2>4, <2>5, <2>7 DEF p, q, d
<1> HIDE DEF j, y, m, e, a, f, n
<1>11. QED
  BY <1>5, <1>6, <1>7, <1>8, <1>9, <1>10, Zenon DEF j

(* The fields of a day of the calendar, and its Date.                      *)
IsDay(t, yr, mon, mday, wday) ==
  /\ t = [year |-> yr, mon |-> mon, mday |-> mday, wday |-> wday]
  /\ mon <= 11 /\ 1 <= mday /\ mday <= 31 /\ wday <= 6
  /\ mday <= DaysOf(mon, yr + 1900)

(* A day of the calendar, by its fields.                                   *)
LEMMA CalendarDay ==
  ASSUME NEW t \in CalendarDays
  PROVE  \E yr \in Nat, mon \in Nat, mday \in Nat, wday \in Nat : IsDay(t, yr, mon, mday, wday)
<1>1. /\ t = [year |-> t.year, mon |-> t.mon, mday |-> t.mday, wday |-> t.wday]
      /\ t.year \in Nat /\ t.mon \in 0 .. 11 /\ t.mday \in 1 .. 31 /\ t.wday \in 0 .. 6
      /\ t.mday <= DaysOf(t.mon, t.year + 1900)
  BY DEF CalendarDays
<1>2. /\ t.mon \in Nat /\ t.mon <= 11 /\ t.mday \in Nat /\ 1 <= t.mday /\ t.mday <= 31
      /\ t.wday \in Nat /\ t.wday <= 6
  BY <1>1
<1>3. IsDay(t, t.year, t.mon, t.mday, t.wday)
  BY <1>1, <1>2 DEF IsDay
<1>4. QED
  BY <1>1, <1>2, <1>3

(* The number of a day of the calendar, by its fields.                     *)
LEMMA DateOfDay ==
  ASSUME NEW yr \in Nat, NEW mon \in Nat, NEW mday \in Nat, NEW wday \in Nat,
         mon <= 11, 1 <= mday, mday <= 31
  PROVE  DateOfTm([year |-> yr, mon |-> mon, mday |-> mday, wday |-> wday]) =
           mday + DaysBeforeMonth(ShiftedMonth(mon + 1))
                + DaysBeforeYear(ShiftedYear(yr + 1900, mon + 1)) - 32045
<1>1. DateOfTm([year |-> yr, mon |-> mon, mday |-> mday, wday |-> wday]) =
        GetJuliandaynumber(yr + 1900, mon + 1, mday)
  BY DEF DateOfTm
<1>2. yr + 1900 \in Nat /\ mon + 1 \in Nat /\ 1 <= mon + 1 /\ mon + 1 <= 12
  OBVIOUS
<1> DEFINE year == yr + 1900
           month == mon + 1
<1> HIDE DEF year, month
<1>3. GetJuliandaynumber(year, month, mday) =
        mday + DaysBeforeMonth(ShiftedMonth(month)) + DaysBeforeYear(ShiftedYear(year, month)) - 32045
  <2>1. year \in Nat /\ month \in Nat /\ 1 <= month /\ month <= 12
    BY <1>2 DEF year, month
  <2>2. QED
    BY <2>1, JulianDayParts
<1>4. QED
  BY <1>1, <1>3 DEF year, month

(* The day after has the next number.                                      *)
LEMMA OneDayLater ==
  ASSUME NEW t \in CalendarDays
  PROVE  Following(t) \in CalendarDays /\ DateOfTm(Following(t)) = DateOfTm(t) + 1
<1>1. PICK yr \in Nat, mon \in Nat, mday \in Nat, wday \in Nat :
        IsDay(t, yr, mon, mday, wday)
  BY CalendarDay
<1>t. /\ t = [year |-> yr, mon |-> mon, mday |-> mday, wday |-> wday]
      /\ mon <= 11 /\ 1 <= mday /\ mday <= 31 /\ wday \in 0 .. 6
      /\ mday <= DaysOf(mon, yr + 1900)
  BY <1>1 DEF IsDay
<1> DEFINE year == yr + 1900
           month == mon + 1
           y == ShiftedYear(year, month)
           m == ShiftedMonth(month)
<1>2. /\ DaysOf(mon, year) \in Nat /\ 28 <= DaysOf(mon, year) /\ DaysOf(mon, year) <= 31
      /\ mon = 1 => DaysOf(mon, year) = IF IsLeap(year) THEN 29 ELSE 28
      /\ mon \in {3, 5, 8, 10} => DaysOf(mon, year) = 30
      /\ mon \notin {1, 3, 5, 8, 10} => DaysOf(mon, year) = 31
  BY DEF DaysOf
<1>3. /\ DateOfTm(t) = mday + DaysBeforeMonth(m) + DaysBeforeYear(y) - 32045
      /\ y = IF mon <= 1 THEN yr + 6699 ELSE yr + 6700
      /\ m = IF mon <= 1 THEN mon + 10 ELSE mon - 2
  <2>1. DateOfTm(t) = mday + DaysBeforeMonth(m) + DaysBeforeYear(y) - 32045
    BY <1>t, DateOfDay
  <2>2. QED
    BY <2>1, <1>t DEF ShiftedYear, ShiftedMonth
<1>4. y \in Nat /\ m \in Nat /\ DaysBeforeYear(y) \in Int /\ DaysBeforeMonth(m) \in Int
  <2>1. y \in Nat /\ m \in Nat
    BY <1>3, <1>t
  <2> HIDE DEF y, m
  <2>2. QED
    BY <2>1 DEF DaysBeforeYear, DaysBeforeMonth
<1>w. (wday + 1) % 7 \in Nat /\ (wday + 1) % 7 \in 0 .. 6
  OBVIOUS
<1>5. CASE mday # DaysOf(mon, year)
  <2>1. Following(t) = [year |-> yr, mon |-> mon, mday |-> mday + 1, wday |-> (wday + 1) % 7]
    BY <1>2, <1>5, <1>t DEF Following
  <2>2. mday + 1 <= DaysOf(mon, year) /\ mday + 1 <= 31
    BY <1>2, <1>5, <1>t
  <2>3. Following(t) \in CalendarDays
    BY <1>t, <1>w, <2>1, <2>2 DEF CalendarDays
  <2>4. DateOfTm(Following(t)) = mday + 1 + DaysBeforeMonth(m) + DaysBeforeYear(y) - 32045
    <3>1. mday + 1 \in Nat /\ 1 <= mday + 1
      OBVIOUS
    <3>2. QED
      BY <1>t, <1>w, <2>1, <2>2, <3>1, DateOfDay
  <2> HIDE DEF y, m
  <2>5. QED
    BY <1>3, <1>4, <2>3, <2>4
<1>6. CASE mday = DaysOf(mon, year) /\ mon = 11
  <2>1. mday = 31
    BY <1>2, <1>6
  <2>2. Following(t) = [year |-> yr + 1, mon |-> 0, mday |-> 1, wday |-> (wday + 1) % 7]
    BY <1>6, <1>t, <2>1 DEF Following
  <2>3. DaysOf(0, yr + 1 + 1900) = 31
    BY DEF DaysOf
  <2>4. Following(t) \in CalendarDays
    BY <1>w, <2>2, <2>3 DEF CalendarDays
  <2>5. DateOfTm(Following(t)) =
          1 + DaysBeforeMonth(ShiftedMonth(0 + 1))
            + DaysBeforeYear(ShiftedYear(yr + 1 + 1900, 0 + 1)) - 32045
    BY <1>w, <2>2, DateOfDay
  <2>6. ShiftedYear(yr + 1 + 1900, 0 + 1) = y /\ ShiftedMonth(0 + 1) = 10 /\ m = 9
    BY <1>3, <1>6 DEF ShiftedYear, ShiftedMonth
  <2>7. DaysBeforeMonth(10) = DaysBeforeMonth(9) + 31
    BY DEF DaysBeforeMonth
  <2> HIDE DEF y, m
  <2>8. QED
    BY <1>3, <1>4, <2>1, <2>4, <2>5, <2>6, <2>7
<1>7. CASE mday = DaysOf(mon, year) /\ mon # 11
  <2>1. Following(t) = [year |-> yr, mon |-> mon + 1, mday |-> 1, wday |-> (wday + 1) % 7]
    BY <1>7, <1>t DEF Following
  <2>2. 1 <= DaysOf(mon + 1, year) /\ mon + 1 \in 0 .. 11
    BY <1>t, <1>7 DEF DaysOf
  <2>3. Following(t) \in CalendarDays
    BY <1>w, <2>1, <2>2 DEF CalendarDays
  <2>4. DateOfTm(Following(t)) =
          1 + DaysBeforeMonth(ShiftedMonth(mon + 1 + 1))
            + DaysBeforeYear(ShiftedYear(year, mon + 1 + 1)) - 32045
    <3>1. mon + 1 \in Nat /\ mon + 1 <= 11
      BY <1>t, <1>7
    <3>2. QED
      BY <1>w, <2>1, <3>1, DateOfDay
  <2>5. CASE mon = 1
    <3>1. /\ ShiftedMonth(mon + 1 + 1) = 0 /\ ShiftedYear(year, mon + 1 + 1) = y + 1
          /\ m = 11
      BY <1>3, <2>5 DEF ShiftedYear, ShiftedMonth
    <3>2. IsLeap(y + 1) <=> IsLeap(year)
      BY <1>3, <2>5 DEF IsLeap
    <3>3. DaysBeforeMonth(0) = 0 /\ DaysBeforeMonth(11) = 337
      BY DEF DaysBeforeMonth
    <3>4. mday = IF IsLeap(y + 1) THEN 29 ELSE 28
      BY <1>2, <1>7, <2>5, <3>2
    <3> HIDE DEF y, m
    <3>5. DaysBeforeYear(y + 1) - DaysBeforeYear(y) = IF IsLeap(y + 1) THEN 366 ELSE 365
      BY <1>4, YearLength
    <3>6. DaysBeforeYear(y + 1) \in Int
      BY <1>4 DEF DaysBeforeYear
    <3>7. QED
      BY <1>3, <1>4, <2>3, <2>4, <3>1, <3>3, <3>4, <3>5, <3>6
  <2>6. CASE mon # 1
    <3>1. ShiftedMonth(mon + 1 + 1) = m + 1 /\ ShiftedYear(year, mon + 1 + 1) = y
      BY <1>t, <1>3, <1>7, <2>6 DEF ShiftedYear, ShiftedMonth
    <3>2. DaysBeforeMonth(m + 1) = DaysBeforeMonth(m) + mday
      BY <1>t, <1>2, <1>3, <1>7, <2>6 DEF DaysBeforeMonth
    <3> HIDE DEF y, m
    <3>3. QED
      BY <1>3, <1>4, <2>3, <2>4, <3>1, <3>2
  <2>7. QED
    BY <2>5, <2>6
<1>8. QED
  BY <1>5, <1>6, <1>7

(* The day of the calendar is one, and the Date is made from it; and the   *)
(* weekdays agree.                                                         *)
MadeFromDay == tm \in CalendarDays /\ date = DateOfTm(tm)
DateInv == MadeFromDay /\ WeekDay(date) = tm.wday

(* The next day keeps the invariant, and has the next number.              *)
LEMMA NextDayKeeps ==
  ASSUME MadeFromDay, NextDay
  PROVE  MadeFromDay' /\ date' = date + 1 /\ (DateInv => DateInv')
<1>1. tm' \in CalendarDays /\ date' = DateOfTm(tm) + 1
  BY OneDayLater DEF MadeFromDay, NextDay
<1>2. date' = DateOfTm(tm') /\ tm'.wday = (tm.wday + 1) % 7
  BY DEF NextDay, Following
<1>3. date \in Int
  <2>1. PICK yr \in Nat, mon \in Nat, mday \in Nat, wday \in Nat : IsDay(tm, yr, mon, mday, wday)
    BY CalendarDay DEF MadeFromDay
  <2>2. date = GetJuliandaynumber(yr + 1900, mon + 1, mday)
    BY <2>1 DEF MadeFromDay, IsDay, DateOfTm
  <2>3. QED
    BY <2>2 DEF GetJuliandaynumber
<1>4. date' = date + 1
  BY <1>1 DEF MadeFromDay
<1>5. WeekDay(date + 1) = (WeekDay(date) + 1) % 7
  BY <1>3 DEF WeekDay, kDaysPerWeek
<1>6. QED
  BY <1>1, <1>2, <1>4, <1>5 DEF MadeFromDay, DateInv

(* GetYearMonthDay undoes the constructor, by RoundTrip.                   *)
LEMMA DateInvImpliesDateIsTm == DateInv => DateIsTm
<1>1. ASSUME DateInv PROVE GetYearMonthDay(date) =
        [day |-> tm.mday, month |-> tm.mon + 1, year |-> tm.year + 1900]
  <2>1. /\ tm.year + 1900 \in Nat /\ tm.mon + 1 \in Nat /\ tm.mday \in Nat
        /\ 1 <= tm.mon + 1 /\ tm.mon + 1 <= 12 /\ 1 <= tm.mday /\ tm.mday <= 31
        /\ tm.mday <= DaysOf((tm.mon + 1) - 1, tm.year + 1900)
    <3>1. tm.year \in Nat /\ tm.mon \in 0 .. 11 /\ tm.mday \in 1 .. 31
          /\ tm.mday <= DaysOf(tm.mon, tm.year + 1900)
      BY <1>1 DEF DateInv, MadeFromDay, CalendarDays
    <3>2. (tm.mon + 1) - 1 = tm.mon
      BY <3>1
    <3>3. QED
      BY <3>1, <3>2
  <2>2. QED
    BY <1>1, <2>1, RoundTrip DEF DateInv, MadeFromDay, DateOfTm
<1>2. QED
  BY <1>1 DEF DateInv, DateIsTm

(* Every Date of the calendar gives back the day it was made from, with    *)
(* its weekday, in any year, if the first day has its weekday.             *)
THEOREM DatesAreDays ==
  ASSUME WeekDay(DateOfTm(FirstTm)) = FirstTm.wday
  PROVE  CalendarSpec => []DateIsTm
<1>1. FirstDay => DateInv
  BY DateAssumption DEF FirstDay, DateInv, MadeFromDay
<1>2. DateInv /\ [NextDay]_calendarVars => DateInv'
  BY NextDayKeeps DEF calendarVars, DateInv, MadeFromDay
<1>3. QED
  BY <1>1, <1>2, DateInvImpliesDateIsTm, PTL DEF CalendarSpec

(* Consecutive days have consecutive numbers, in any year.                 *)
THEOREM DaysAreConsecutive == CalendarSpec => ConsecutiveDays
<1>1. FirstDay => MadeFromDay
  BY DateAssumption DEF FirstDay, MadeFromDay
<1>2. MadeFromDay /\ [NextDay]_calendarVars => MadeFromDay'
  BY NextDayKeeps DEF calendarVars, MadeFromDay
<1>3. MadeFromDay /\ [NextDay]_calendarVars => [date' = date + 1]_calendarVars
  BY NextDayKeeps
<1>4. QED
  BY <1>1, <1>2, <1>3, PTL DEF CalendarSpec, ConsecutiveDays
=============================================================================
