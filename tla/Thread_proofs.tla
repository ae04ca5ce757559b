---------------------------- MODULE Thread_proofs ----------------------------
(***************************************************************************)
(* What ThreadProgram promises, for any program of that kind.  The safety  *)
(* of a Thread rests on IInv: the mutex of the latch excludes, count_ is 1 *)
(* until the child has decremented it, and the owner that has left Wait    *)
(* has locked the mutex after the child's last step in CountDown.          *)
(***************************************************************************)
EXTENDS ThreadProgram, FiniteSetTheorems, TLAPS

Owning == {"locked", "in", "unlocking", "wait", "awake"}

(* The program points of the latch and of its mutex. *)
LatchType ==
  /\ in_ \in [Threads -> {"none", "Wait", "CountDown", "notify", "return"}]
  /\ pc \in [Threads -> Owning \cup {"out", "asleep"}]
  /\ cond \in [Threads -> {"condition_"}]
  /\ mutex_ \in Threads \cup {NoThread}
  /\ asleep \in [{"condition_"} -> SUBSET Threads]

(* Where a thread is in the mutex, from where it is in the latch. *)
LatchPlaces ==
  /\ \A t \in Threads : pc[t] \in Owning <=> mutex_ = t
  /\ \A t \in asleep["condition_"] : pc[t] = "asleep"
  /\ \A t \in Threads :
       /\ in_[t] = "none" => pc[t] = "out"
       /\ in_[t] = "CountDown" => pc[t] \in {"out", "locked", "in"}
       /\ in_[t] = "notify" => pc[t] = "in"
       /\ in_[t] = "return" => pc[t] \in {"in", "unlocking"}
       /\ pc[t] = "unlocking" => in_[t] = "return"

(* The latch from where the owner and the child are. *)
Handshake ==
  /\ in_[Owner] \in {"none", "Wait", "return"}
  /\ in_[Child] \in {"none", "CountDown", "notify", "return"}
  /\ ownerAt # "waiting" => in_[Owner] = "none"
  /\ childAt # "counting" => in_[Child] = "none"
  /\ count_ = 1 <=> childAt \in {"none", "begin", "tid set"} \/ in_[Child] = "CountDown"
  /\ childAt \in {"none", "begin"} \/ tid_ = Child
  /\ ownerAt \in {"started", "joining", "joined"} \/ (ownerAt = "waiting" /\ in_[Owner] # "Wait")
       => count_ # 1 /\ in_[Child] = "none"
  /\ ownerAt = "destroyed" =>
       childAt \notin {"begin", "tid set"} /\ in_[Child] = "none"
  /\ threadName = "data" => childAt = "func"
  /\ childAt = "none" <=> ownerAt \in {"constructed", "create"} \/ (ownerAt = "destroyed" /\ ~started_)

IInv ==
  /\ TypeOK /\ LatchType /\ LatchPlaces /\ Handshake /\ ReclaimedOnce /\ NameNeverDangles

LEMMA InitIInv == Init => IInv
<1> SUFFICES ASSUME Init PROVE IInv
  OBVIOUS
<1>1. TypeOK /\ ReclaimedOnce /\ NameNeverDangles
  <2>1. /\ ownerAt = "constructed" /\ childAt = "none" /\ data = "none"
        /\ ~started_ /\ ~joined_ /\ started_ \in BOOLEAN /\ joined_ \in BOOLEAN
        /\ tid_ = NoThread /\ threadName = "unset" /\ reclaims = 0 /\ count_ = 1
    BY DEF Init, L!InitLatch
  <2>2. QED
    BY <2>1 DEF TypeOK, ReclaimedOnce, NameNeverDangles
<1>2. LatchType
  BY DEF Init, L!InitLatch, L!M!Init, LatchType, Threads, Owning
<1>3. LatchPlaces
  BY ThreadAssumption DEF Init, L!InitLatch, L!M!Init, LatchPlaces, Threads, Owning
<1>4. Handshake
  BY DEF Init, L!InitLatch, L!M!Init, Handshake, Threads
<1>5. QED
  BY <1>1, <1>2, <1>3, <1>4 DEF IInv
-----------------------------------------------------------------------------
(* The steps of the mutex that leave the thread where it is in the latch. *)
LEMMA MutexStepIInv ==
  ASSUME IInv, NEW t \in Threads,
         \/ in_[t] \in {"Wait", "CountDown"} /\ (L!M!LockMutex(t) \/ L!M!FinishLock(t))
         \/ in_[t] = "return" /\ L!M!BeginUnLock(t)
         \/ in_[t] = "Wait" /\ (\/ L!M!BeginWait(t, "condition_") \/ L!M!CondWait(t)
                                \/ L!M!CondReturn(t) \/ L!M!FinishWait(t))
         \/ L!M!WakeUp(t),
         UNCHANGED in_
  PROVE  LatchType' /\ LatchPlaces'
<1> USE ThreadAssumption DEF Threads, Owning, LatchType, LatchPlaces
<1>0. LatchType /\ LatchPlaces
  BY DEF IInv
<1> DEFINE Goes(from, to) == pc[t] = from /\ pc' = [pc EXCEPT ![t] = to]
<1>1. CASE in_[t] \in {"Wait", "CountDown"} /\ L!M!LockMutex(t)
  <2>1. /\ Goes("out", "locked") /\ mutex_ = NoThread /\ mutex_' = t
        /\ UNCHANGED <<cond, asleep>>
    BY <1>1 DEF L!M!LockMutex, L!M!Go
  <2>2. QED
    BY <1>0, <1>1, <2>1
<1>2. CASE in_[t] \in {"Wait", "CountDown"} /\ L!M!FinishLock(t)
  <2>1. Goes("locked", "in") /\ UNCHANGED <<mutex_, cond, asleep>>
    BY <1>2 DEF L!M!FinishLock, L!M!Go
  <2>2. QED
    BY <1>0, <1>2, <2>1
<1>3. CASE in_[t] = "return" /\ L!M!BeginUnLock(t)
  <2>1. Goes("in", "unlocking") /\ UNCHANGED <<mutex_, cond, asleep>>
    BY <1>3 DEF L!M!BeginUnLock, L!M!Go
  <2>2. QED
    BY <1>0, <1>3, <2>1
<1>4. CASE in_[t] = "Wait" /\ L!M!BeginWait(t, "condition_")
  <2>1. /\ Goes("in", "wait") /\ cond' = [cond EXCEPT ![t] = "condition_"]
        /\ UNCHANGED <<mutex_, asleep>>
    BY <1>4 DEF L!M!BeginWait, L!M!Go
  <2>2. QED
    BY <1>0, <1>4, <2>1
<1>5. CASE in_[t] = "Wait" /\ L!M!CondWait(t)
  <2>1. /\ Goes("wait", "asleep") /\ mutex_' = NoThread /\ UNCHANGED cond
        /\ asleep' = [asleep EXCEPT !["condition_"] = @ \cup {t}]
    BY <1>0, <1>5 DEF L!M!CondWait, L!M!Go
  <2>2. mutex_ = t
    BY <1>0, <2>1
  <2>3. QED
    BY <1>0, <1>5, <2>1, <2>2
<1>6. CASE in_[t] = "Wait" /\ L!M!CondReturn(t)
  <2>1. /\ Goes("asleep", "awake") /\ mutex_ = NoThread /\ mutex_' = t
        /\ t \notin asleep["condition_"] /\ UNCHANGED <<cond, asleep>>
    BY <1>6 DEF L!M!CondReturn, L!M!Go
  <2>2. QED
    BY <1>0, <1>6, <2>1
<1>7. CASE in_[t] = "Wait" /\ L!M!FinishWait(t)
  <2>1. Goes("awake", "in") /\ UNCHANGED <<mutex_, cond, asleep>>
    BY <1>7 DEF L!M!FinishWait, L!M!Go
  <2>2. QED
    BY <1>0, <1>7, <2>1
<1>8. CASE L!M!WakeUp(t)
  <2>1. /\ asleep' = [asleep EXCEPT !["condition_"] = @ \ {t}]
        /\ UNCHANGED <<pc, mutex_, cond>>
    BY <1>8 DEF L!M!WakeUp
  <2>2. QED
    BY <1>0, <1>8, <2>1
<1>9. QED
  BY <1>1, <1>2, <1>3, <1>4, <1>5, <1>6, <1>7, <1>8

(* The steps of the latch. *)
LEMMA LatchStepIInv ==
  ASSUME IInv, NEW t \in Threads, L!Step(t) \/ L!WakeUp(t),
         UNCHANGED <<ownerAt, childAt, object, data, threadName, reclaims>>
  PROVE  IInv'
<1> USE ThreadAssumption
<1>1. UNCHANGED <<ownerAt, childAt, started_, joined_, tid_, data, threadName, reclaims>>
  BY DEF object
<1>2. t = Owner \/ t = Child
  BY DEF Threads
<1>3. LatchType /\ LatchPlaces /\ Handshake /\ count_ \in 0 .. 1
  BY DEF IInv, TypeOK
<1>a. /\ in_[t] \in {"Wait"} => t = Owner
      /\ in_[t] \in {"CountDown", "notify"} => t = Child
      /\ in_[Child] \in {"none", "CountDown", "notify", "return"}
  BY <1>2, <1>3 DEF Handshake
<1>c. childAt # "counting" => in_[Child] = "none"
  BY <1>3 DEF Handshake
<1>b. count_ = 1 <=> childAt \in {"none", "begin", "tid set"} \/ in_[Child] = "CountDown"
  BY <1>3 DEF Handshake
<1>4. ASSUME count_' \in 0 .. 1
      PROVE  /\ TypeOK' /\ ReclaimedOnce' /\ NameNeverDangles'
  BY <1>1, <1>4 DEF IInv, TypeOK, ReclaimedOnce, NameNeverDangles
<1>5. ASSUME UNCHANGED <<in_, count_>>
      PROVE  Handshake'
  BY <1>1, <1>3, <1>5 DEF Handshake
<1>6. CASE \/ L!Lock(t) \/ L!Sleep(t) \/ L!WakeUp(t)
           \/ in_[t] = "return" /\ L!M!BeginUnLock(t) /\ UNCHANGED <<in_, count_>>
  <2>1. UNCHANGED <<in_, count_>>
    BY <1>6 DEF L!Lock, L!Sleep, L!WakeUp
  <2>2. LatchType' /\ LatchPlaces'
    BY <1>6, <2>1, MutexStepIInv DEF L!Lock, L!Sleep, L!WakeUp
  <2>3. QED
    BY <1>3, <1>4, <1>5, <2>1, <2>2 DEF IInv
<1>7. CASE /\ in_[t] = "return" /\ L!M!UnLockMutex(t)
           /\ in_' = [in_ EXCEPT ![t] = "none"] /\ UNCHANGED count_
  <2>1. /\ pc[t] = "unlocking" /\ pc' = [pc EXCEPT ![t] = "out"] /\ mutex_' = NoThread
        /\ UNCHANGED <<cond, asleep>>
    BY <1>7 DEF L!M!UnLockMutex, L!M!Go
  <2>2. mutex_ = t
    BY <1>3, <2>1 DEF LatchPlaces, Owning
  <2>3. LatchType' /\ LatchPlaces'
    BY <1>3, <1>7, <2>1, <2>2 DEF LatchType, LatchPlaces, Owning, Threads
  <2>4. Handshake'
    BY <1>1, <1>2, <1>3, <1>7 DEF Handshake, LatchType, Threads
  <2>5. QED
    BY <1>3, <1>4, <1>7, <2>3, <2>4 DEF IInv
<1>8. CASE L!LeaveWait(t)
  <2>1. /\ in_[t] = "Wait" /\ pc[t] = "in" /\ count_ <= 0
        /\ in_' = [in_ EXCEPT ![t] = "return"]
        /\ UNCHANGED <<count_, pc, cond, mutex_, asleep>>
    BY <1>8 DEF L!LeaveWait, L!mutexVars
  <2>2. LatchType' /\ LatchPlaces'
    BY <1>3, <2>1 DEF LatchType, LatchPlaces, Owning, Threads
  <2>3. t = Owner /\ count_ = 0
    BY <1>a, <1>3, <2>1
  <2>4. in_[Child] = "none"
    <3>1. mutex_ = Owner /\ pc[Child] \notin Owning
      BY <1>3, <2>1, <2>3 DEF LatchPlaces, Owning, Threads
    <3>2. in_[Child] \notin {"notify", "return"}
      BY <1>3, <3>1 DEF LatchPlaces, Owning, Threads
    <3>3. count_ # 1
      BY <2>3
    <3>4. QED
      BY <1>a, <1>b, <3>2, <3>3
  <2>5. Handshake'
    <3>1. /\ in_'[Owner] = "return" /\ in_'[Child] = "none" /\ in_[Owner] = "Wait"
          /\ count_' = count_ /\ count_ # 1
      BY <1>3, <2>1, <2>3, <2>4 DEF LatchType, Threads
    <3>2. QED
      BY <1>1, <1>3, <2>4, <3>1 DEF Handshake
  <2>6. QED
    BY <1>3, <1>4, <2>1, <2>2, <2>5 DEF IInv
<1>9. CASE L!Decrement(t)
  <2>1. /\ in_[t] = "CountDown" /\ pc[t] = "in" /\ count_' = count_ - 1
        /\ in_' = [in_ EXCEPT ![t] = IF count_' = 0 THEN "notify" ELSE "return"]
        /\ UNCHANGED <<pc, cond, mutex_, asleep>>
    BY <1>9 DEF L!Decrement, L!mutexVars
  <2>2. LatchType' /\ LatchPlaces'
    BY <1>3, <2>1 DEF LatchType, LatchPlaces, Owning, Threads
  <2>3. t = Child /\ count_ = 1 /\ count_' = 0 /\ in_'[Child] = "notify" /\ in_'[Owner] = in_[Owner]
    <3>1. t = Child
      BY <1>a, <2>1
    <3>2. count_ = 1
      BY <1>b, <2>1, <3>1
    <3>3. QED
      BY <1>3, <2>1, <3>1, <3>2 DEF LatchType, Threads
  <2>4. Handshake'
    <3>1. count_' # 1 /\ in_'[Child] = "notify" /\ in_'[Owner] = in_[Owner]
      BY <2>3
    <3>2. childAt = "counting"
      BY <1>c, <2>1, <2>3
    <3>3. in_[Child] # "none"
      BY <2>1, <2>3
    <3>4. QED
      BY <1>1, <1>3, <3>1, <3>2, <3>3 DEF Handshake
  <2>5. QED
    BY <1>3, <1>4, <2>2, <2>3, <2>4 DEF IInv
<1>10. CASE L!NotifyAll(t)
  <2>1. /\ in_[t] = "notify" /\ in_' = [in_ EXCEPT ![t] = "return"]
        /\ asleep' = [asleep EXCEPT !["condition_"] = {}]
        /\ UNCHANGED <<count_, pc, cond, mutex_>>
    BY <1>10 DEF L!NotifyAll, L!M!NotifyAll
  <2>2. LatchType' /\ LatchPlaces'
    BY <1>3, <2>1 DEF LatchType, LatchPlaces, Owning, Threads
  <2>3. t = Child
    BY <1>2, <1>3, <2>1 DEF Handshake
  <2>4. Handshake'
    BY <1>1, <1>3, <2>1, <2>3 DEF Handshake, LatchType, Threads
  <2>5. QED
    BY <1>3, <1>4, <2>1, <2>2, <2>4 DEF IInv
<1>11. QED
  BY <1>6, <1>7, <1>8, <1>9, <1>10 DEF L!Step, L!UnLock, L!Wait, L!CountDown

(* The steps of the owner and the child outside the latch. *)
LEMMA ThreadStepIInv ==
  ASSUME IInv, UNCHANGED latch_,
         \/ Start \/ CreateFails \/ CreateSucceeds \/ FinishStart
         \/ CallJoin \/ Join \/ Destroy
         \/ SetTid \/ SetName \/ FinishFunc \/ DeleteData \/ Exit
  PROVE  IInv'
<1>1. UNCHANGED <<in_, count_, pc, cond, mutex_, asleep>>
  BY DEF latch_
<1>2. LatchType' /\ LatchPlaces'
  BY <1>1 DEF IInv, LatchType, LatchPlaces
<1> SUFFICES /\ TypeOK' /\ Handshake' /\ ReclaimedOnce' /\ NameNeverDangles'
  BY <1>2 DEF IInv
<1>a. /\ ownerAt = "started" => reclaims = 0
      /\ ownerAt = "joined" /\ childAt # "none" => reclaims = 1
  BY DEF IInv, ReclaimedOnce
<1> USE <1>1, ThreadAssumption
        DEF IInv, TypeOK, Handshake, ReclaimedOnce, NameNeverDangles, OwnerGoes, ChildGoes, object
<1>3. CASE Start
  <2>1. /\ ownerAt = "constructed" /\ ownerAt' = "create" /\ started_' = TRUE /\ data' = "allocated"
        /\ UNCHANGED <<childAt, joined_, tid_, threadName, reclaims>>
    BY <1>3 DEF Start
  <2>2. TypeOK'
    BY <2>1
  <2>3. Handshake'
    BY <2>1
  <2>4. ReclaimedOnce' /\ NameNeverDangles'
    BY <2>1
  <2>5. QED
    BY <2>2, <2>3, <2>4
<1>4. CASE CreateFails
  <2>1. /\ ownerAt = "create" /\ ownerAt' = "constructed" /\ started_' = FALSE /\ data' = "none"
        /\ UNCHANGED <<childAt, joined_, tid_, threadName, reclaims>>
    BY <1>4 DEF CreateFails
  <2>2. TypeOK'
    BY <2>1
  <2>3. Handshake'
    BY <2>1
  <2>4. ReclaimedOnce' /\ NameNeverDangles'
    BY <2>1
  <2>5. QED
    BY <2>2, <2>3, <2>4
<1>5. CASE CreateSucceeds
  BY <1>5 DEF CreateSucceeds
<1>6. CASE FinishStart
  <2>1. /\ ownerAt = "waiting" /\ ownerAt' = "started" /\ in_[Owner] = "none"
        /\ UNCHANGED <<childAt, started_, joined_, tid_, data, threadName, reclaims>>
    BY <1>6 DEF FinishStart
  <2>2. TypeOK'
    BY <2>1
  <2>3. Handshake'
    BY <2>1
  <2>4. ReclaimedOnce' /\ NameNeverDangles'
    BY <2>1
  <2>5. QED
    BY <2>2, <2>3, <2>4
<1>7. CASE CallJoin
  BY <1>7 DEF CallJoin
<1>8. CASE Join
  BY <1>8 DEF Join
<1>9. CASE Destroy
  <2>1. /\ ownerAt \in {"constructed", "started", "joined"} /\ ownerAt' = "destroyed"
        /\ reclaims' = reclaims + (IF started_ /\ ~joined_ THEN 1 ELSE 0)
        /\ UNCHANGED <<childAt, started_, joined_, tid_, data, threadName>>
    BY <1>9 DEF Destroy
  <2>2. TypeOK'
    BY <2>1
  <2>3. CASE ownerAt = "constructed"
    <3>1. childAt = "none" /\ ~started_ /\ reclaims = 0 /\ reclaims' = 0
      BY <2>1, <2>3
    <3>2. Handshake'
      BY <2>1, <2>3, <3>1
    <3>3. QED
      BY <2>1, <2>2, <3>1, <3>2
  <2>4. CASE ownerAt \in {"started", "joined"}
    <3>1. childAt # "none" /\ started_ /\ (joined_ <=> ownerAt = "joined")
      BY <2>1, <2>4
    <3>2. reclaims' = 1
      <4> HIDE DEF IInv, TypeOK, Handshake, ReclaimedOnce, NameNeverDangles
      <4>1. CASE ownerAt = "started"
        BY <1>a, <2>1, <3>1, <4>1
      <4>2. CASE ownerAt = "joined"
        BY <1>a, <2>1, <3>1, <4>2
      <4>3. QED
        BY <2>4, <4>1, <4>2
    <3>3. Handshake'
      <4>1. in_[Child] = "none" /\ count_ # 1
        BY <2>4
      <4>2. childAt \notin {"none", "begin", "tid set"}
        BY <4>1
      <4>3. in_[Owner] = "none"
        BY <2>4
      <4>4. QED
        BY <2>1, <3>1, <4>1, <4>2, <4>3
    <3>4. QED
      BY <2>1, <2>2, <3>1, <3>2, <3>3
  <2>5. QED
    BY <2>1, <2>3, <2>4
<1>10. CASE SetTid
  BY <1>10 DEF SetTid
<1>11. CASE SetName
  BY <1>11 DEF SetName
<1>12. CASE FinishFunc
  BY <1>12 DEF FinishFunc
<1>13. CASE DeleteData
  <2>1. /\ childAt = "finished" /\ childAt' = "deleted" /\ data' = "none"
        /\ UNCHANGED <<ownerAt, started_, joined_, tid_, threadName, reclaims>>
    BY <1>13 DEF DeleteData
  <2>2. TypeOK'
    BY <2>1
  <2>3. Handshake'
    BY <2>1
  <2>4. ReclaimedOnce' /\ NameNeverDangles'
    BY <2>1
  <2>5. QED
    BY <2>2, <2>3, <2>4
<1>14. CASE Exit
  BY <1>14 DEF Exit
<1>15. QED
  BY <1>3, <1>4, <1>5, <1>6, <1>7, <1>8, <1>9, <1>10, <1>11, <1>12, <1>13, <1>14

(* The calls of the latch's functions. *)
LEMMA CallIInv == IInv /\ (CallWait \/ CallCountDown) => IInv'
<1> SUFFICES ASSUME IInv, CallWait \/ CallCountDown
             PROVE  IInv'
  OBVIOUS
<1> USE ThreadAssumption
<1>1. LatchType /\ LatchPlaces /\ Handshake
  BY DEF IInv
<1>2. CASE CallWait
  <2>1. /\ ownerAt = "created" /\ ownerAt' = "waiting"
        /\ in_[Owner] = "none" /\ in_' = [in_ EXCEPT ![Owner] = "Wait"]
        /\ UNCHANGED <<childAt, started_, joined_, tid_, data, threadName, reclaims>>
        /\ UNCHANGED <<count_, pc, cond, mutex_, asleep>>
    BY <1>2 DEF CallWait, OwnerGoes, L!CallWait, L!mutexVars, object
  <2>2. in_'[Owner] = "Wait" /\ in_'[Child] = in_[Child]
    BY <1>1, <2>1 DEF LatchType, Threads
  <2>3. LatchType' /\ LatchPlaces'
    BY <1>1, <2>1 DEF LatchType, LatchPlaces, Threads, Owning
  <2>4. Handshake'
    BY <1>1, <2>1, <2>2 DEF Handshake
  <2>5. TypeOK' /\ ReclaimedOnce' /\ NameNeverDangles'
    BY <2>1 DEF IInv, TypeOK, ReclaimedOnce, NameNeverDangles
  <2>6. QED
    BY <2>3, <2>4, <2>5 DEF IInv
<1>3. CASE CallCountDown
  <2>1. /\ childAt = "tid set" /\ childAt' = "counting"
        /\ in_[Child] = "none" /\ in_' = [in_ EXCEPT ![Child] = "CountDown"]
        /\ UNCHANGED <<ownerAt, started_, joined_, tid_, data, threadName, reclaims>>
        /\ UNCHANGED <<count_, pc, cond, mutex_, asleep>>
    BY <1>3 DEF CallCountDown, ChildGoes, L!CallCountDown, L!mutexVars, object
  <2>2. in_'[Child] = "CountDown" /\ in_'[Owner] = in_[Owner]
    BY <1>1, <2>1 DEF LatchType, Threads
  <2>3. LatchType' /\ LatchPlaces'
    BY <1>1, <2>1 DEF LatchType, LatchPlaces, Threads, Owning
  <2>4. Handshake'
    BY <1>1, <2>1, <2>2 DEF Handshake
  <2>5. TypeOK' /\ ReclaimedOnce' /\ NameNeverDangles'
    BY <2>1 DEF IInv, TypeOK, ReclaimedOnce, NameNeverDangles
  <2>6. QED
    BY <2>3, <2>4, <2>5 DEF IInv
<1>4. QED
  BY <1>2, <1>3

LEMMA NextIInv == IInv /\ [Next]_vars => IInv'
<1> SUFFICES ASSUME IInv, [Next]_vars
             PROVE  IInv'
  OBVIOUS
<1>1. CASE \/ Start \/ CreateFails \/ CreateSucceeds \/ FinishStart \/ CallJoin \/ Join
           \/ Destroy \/ SetTid \/ SetName \/ FinishFunc \/ DeleteData \/ Exit
  <2>1. UNCHANGED latch_
    BY <1>1 DEF Start, CreateFails, CreateSucceeds, FinishStart, CallJoin, Join, Destroy,
                SetTid, SetName, FinishFunc, DeleteData, Exit
  <2>2. QED
    BY <1>1, <2>1, ThreadStepIInv
<1>2. CASE CallWait \/ CallCountDown
  BY <1>2, CallIInv
<1>3. CASE LatchStep(Owner) \/ LatchStep(Child) \/ SpuriousWakeUp
  BY <1>3, LatchStepIInv DEF LatchStep, SpuriousWakeUp, Threads
<1>4. CASE UNCHANGED vars
  <2>1. UNCHANGED <<ownerAt, childAt, started_, joined_, tid_, data, threadName, reclaims,
                    in_, count_, pc, cond, mutex_, asleep>>
    BY <1>4 DEF vars, object, latch_
  <2>2. TypeOK'
    BY <2>1 DEF IInv, TypeOK
  <2>3. LatchType' /\ LatchPlaces'
    BY <2>1 DEF IInv, LatchType, LatchPlaces
  <2>4. Handshake'
    BY <2>1 DEF IInv, Handshake
  <2>5. ReclaimedOnce' /\ NameNeverDangles'
    BY <2>1 DEF IInv, ReclaimedOnce, NameNeverDangles
  <2>6. QED
    BY <2>2, <2>3, <2>4, <2>5 DEF IInv
<1>5. QED
  BY <1>1, <1>2, <1>3, <1>4 DEF Next, OwnerStep, ChildStep

(* Start, Join, the destructor and the child keep the invariant: the       *)
(* places of owner and child agree with the latch and its mutex.           *)
THEOREM ThreadInvariant == Spec => []IInv
BY InitIInv, NextIInv, PTL DEF Spec
-----------------------------------------------------------------------------
(* Every program of this kind uses its Thread as module Thread has it. *)
LEMMA ProgramStepIsStep == [ProgramNext]_programVars => [Next]_vars
<1> SUFFICES ASSUME [ProgramNext]_programVars
             PROVE  [Next]_vars
  OBVIOUS
<1>1. CASE OwnerCalls \/ OwnerGoesOn \/ ChildGoesOn \/ SpuriousWake
  BY <1>1 DEF OwnerCalls, OwnerGoesOn, ChildGoesOn, SpuriousWake, Next
<1>2. ASSUME NEW t \in Threads,
             \/ \E T \in Types : CallGetInstance(t, T)
             \/ Value(t) \/ BeginConstruct(t) \/ FinishCall(t)
      PROVE  UNCHANGED vars
  BY <1>2 DEF CallGetInstance, Value, BeginConstruct, FinishCall, Call,
              GetInstance, AssertFails, FinishConstruct
<1>3. CASE ReturnFromMain \/ ExitMain \/ ExitLast
  BY <1>3 DEF ReturnFromMain, ExitMain, ExitLast
<1>4. CASE RunHandler \/ DestroyThreadLocal \/ End
  BY <1>4 DEF RunHandler, DestroyThreadLocal, End
<1>5. CASE UNCHANGED programVars
  BY <1>5 DEF programVars
<1>6. QED
  BY <1>1, <1>2, <1>3, <1>4, <1>5 DEF ProgramNext

(* The program around a Thread implements module Thread: singletons and    *)
(* thread-local values leave the Thread object alone.                      *)
THEOREM ProgramUsesThread == ProgramSpec => Spec
<1>1. ProgramInit => Init
  BY DEF ProgramInit
<1>2. QED
  BY <1>1, ProgramStepIsStep, PTL DEF ProgramSpec, Spec
-----------------------------------------------------------------------------
(***************************************************************************)
(* Singleton and ThreadLocal in such a program: pthread_once lets one      *)
(* thread into Init, nothing is deleted before exit runs, and an orderly   *)
(* exit runs when every other thread has gone.                             *)
(***************************************************************************)
Exit_ == {"exiting", "ended", "aborted"}

ProgramType ==
  /\ process \in {"main", "main exited"} \cup Exit_
  /\ getting = [t \in Threads |-> getting[t]]
  /\ ponce_ \in [Types -> {"init", "running", "done"}]
  /\ made \in [Types -> {0, 1}] /\ value_ \in [Types -> {0, 1}]
  /\ alive \in [Types -> SUBSET {1}]
  /\ handlers \in Seq(Types \ NoDestroy)

In(t, places, T) == getting[t].at \in places /\ getting[t].type = T

(* pthread_once *)
Once == \A T \in Types :
  /\ ponce_[T] = "init" => made[T] = 0
  /\ ponce_[T] = "done" => made[T] = 1
  /\ \A t \in Threads :
       /\ In(t, {"Init"}, T) => ponce_[T] = "running" /\ made[T] = 0
       /\ In(t, {"atexit"}, T) => ponce_[T] = "running" /\ made[T] = 1
       /\ In(t, {"assert", "using"}, T) => ponce_[T] = "done"
       /\ In(t, {"using"}, T) => getting[t].ref = 1
       /\ \A u \in Threads :
            In(t, {"Init", "atexit"}, T) /\ In(u, {"Init", "atexit"}, T) => t = u

(* Nothing is deleted before exit, and what has no_destroy never. *)
Lives == \A T \in Types :
  process \notin Exit_ \/ T \in NoDestroy =>
    value_[T] = made[T] /\ alive[T] = IF made[T] = 1 THEN {1} ELSE {}

(* Threads that have left call nothing. *)
Gone ==
  /\ childAt # "func" => getting[Child] = S!Idle
  /\ process # "main" => getting[Owner] = S!Idle /\ ownerAt = "destroyed"
  /\ ownerAt = "joined" \/ (ownerAt = "destroyed" /\ joined_) => childAt = "exited"
  /\ returned => process \in Exit_
  /\ Orderly /\ process \in Exit_ => process # "aborted" /\ ChildLeft

Reclaimed ==
  /\ specific \in [Threads -> BOOLEAN] /\ values \in [Threads -> Nat]
  /\ pkey_ \in {"created", "deleted"}
  /\ pkey_ = "deleted" => process \in Exit_
  /\ pkey_ = "created" => \A t \in Threads : values[t] = IF specific[t] THEN 1 ELSE 0
  /\ ValuesReclaimed

PInv == ProgramType /\ Once /\ Lives /\ Gone /\ Reclaimed

LEMMA InitPInv == ProgramInit => PInv
<1> SUFFICES ASSUME ProgramInit
             PROVE  PInv
  OBVIOUS
<1> USE DEF ProgramInit, Init, S!InitSingleton, S!NULL, V!InitThreadLocal
<1>1. ProgramType
  BY DEF ProgramType, Exit_
<1>2. \A t \in Threads : getting[t] = S!Idle /\ getting[t].at = "idle"
  BY DEF S!Idle
<1>3. Once /\ Lives
  BY <1>2 DEF Once, Lives, In
<1>4. Gone
  BY <1>2 DEF Gone, Orderly, ChildLeft, Threads
<1>5. Reclaimed
  BY DEF Reclaimed, ValuesReclaimed
<1>6. QED
  BY <1>1, <1>3, <1>4, <1>5 DEF PInv
-----------------------------------------------------------------------------
(* One thread's place changes. *)
LEMMA Goes ==
  ASSUME ProgramType, NEW t \in Threads, NEW r, getting' = [getting EXCEPT ![t] = r]
  PROVE  /\ getting' = [u \in Threads |-> getting'[u]]
         /\ getting'[t] = r
         /\ \A u \in Threads \ {t} : getting'[u] = getting[u]
BY DEF ProgramType

(* The types of what GetInstance changes. *)
Slots ==
  /\ ponce_ \in [Types -> {"init", "running", "done"}]
  /\ made \in [Types -> {0, 1}] /\ value_ \in [Types -> {0, 1}]
  /\ alive \in [Types -> SUBSET {1}]
  /\ handlers \in Seq(Types \ NoDestroy)

(* A thread goes to another place in GetInstance. *)
LEMMA Going ==
  ASSUME ProgramType, NEW t \in Threads, NEW T, NEW step, S!Go(t, step, T)
  PROVE  /\ getting' = [u \in Threads |-> getting'[u]]
         /\ getting'[t].at = step /\ getting'[t].type = T
         /\ \A u \in Threads \ {t} : getting'[u] = getting[u]
BY Goes DEF S!Go

(* GetInstance, from the call to the last use. *)
LEMMA GetInstanceOnce ==
  ASSUME ProgramType, Once, Lives, UNCHANGED process, NEW t \in Threads, NEW T \in Types,
         S!CallGetInstance(t, T) \/ S!GetInstance(t, T) \/ S!FinishUse(t, T)
  PROVE  ProgramType' /\ Once' /\ Lives'
<1>1. Slots /\ ProgramType
  BY DEF Slots, ProgramType
<1>2. ASSUME Slots', Once', Lives', getting' = [u \in Threads |-> getting'[u]]
      PROVE  ProgramType' /\ Once' /\ Lives'
  BY <1>2 DEF Slots, ProgramType
<1>3. CASE S!CallGetInstance(t, T)
  <2>1. getting[t].at = "idle"
    BY <1>3 DEF S!CallGetInstance, S!At, S!statics, S!NULL, S!Idle
  <2>2. S!Go(t, "once", T)
    BY <1>3 DEF S!CallGetInstance
  <2>3. UNCHANGED <<ponce_, value_, made, alive, handlers>>
    BY <1>3, <2>1 DEF S!CallGetInstance, S!statics, ProgramType, Once, In
  <2>4. Once'
    BY <1>1, <2>1, <2>2, <2>3, Going DEF Once, In
  <2>5. Lives' /\ Slots'
    BY <1>1, <2>1, <2>3 DEF Lives, Once, In, Slots
  <2>6. QED
    BY <1>2, <2>2, <2>4, <2>5, Going
<1>4. CASE S!BeginInit(t, T)
  <2>1. getting[t].at = "once" /\ ponce_[T] = "init"
    BY <1>4 DEF S!BeginInit, S!At
  <2>2. S!Go(t, "Init", T)
    BY <1>4 DEF S!BeginInit
  <2>3. /\ ponce_' = [ponce_ EXCEPT ![T] = "running"] /\ made[T] = 0
        /\ UNCHANGED <<value_, made, alive, handlers>>
    BY <1>4, <2>1 DEF S!BeginInit, Once
  <2>4. \A u \in Threads \ {t} : ~In(u, {"Init", "atexit", "assert", "using"}, T)
    BY <2>1, <2>3 DEF Once, In
  <2>5. Once'
    <3> SUFFICES ASSUME NEW U \in Types
                 PROVE  Once!(U)'
      BY DEF Once
    <3>1. CASE U = T
      BY <1>1, <2>1, <2>2, <2>3, <2>4, <3>1, Going DEF Once, In, Slots
    <3>2. CASE U # T
      BY <1>1, <2>1, <2>2, <2>3, <3>2, Going DEF Once, In, Slots
    <3>3. QED
      BY <3>1, <3>2
  <2>6. Slots'
    BY <1>1, <2>3 DEF Slots
  <2>7. Lives'
    BY <1>1, <2>1, <2>3 DEF Lives, Slots
  <2>8. QED
    BY <1>2, <2>2, <2>5, <2>6, <2>7, Going
<1>5. CASE S!New(t, T)
  <2>1. getting[t].at = "Init" /\ getting[t].type = T
    BY <1>5 DEF S!New, S!At
  <2>2. S!Go(t, "atexit", T)
    BY <1>5 DEF S!New
  <2>3. /\ ponce_[T] = "running" /\ made[T] = 0 /\ made' = [made EXCEPT ![T] = 1]
        /\ value_' = [value_ EXCEPT ![T] = 1] /\ alive' = [alive EXCEPT ![T] = @ \cup {1}]
        /\ UNCHANGED <<ponce_, handlers>>
    <3>1. ponce_[T] = "running" /\ made[T] = 0
      BY <2>1 DEF Once, In
    <3>2. made' = [made EXCEPT ![T] = 1]
      BY <1>5, <3>1 DEF S!New
    <3>3. made'[T] = 1
      BY <1>1, <3>2 DEF Slots
    <3>4. QED
      BY <1>5, <3>1, <3>2, <3>3 DEF S!New
  <2>4. \A u \in Threads \ {t} : ~In(u, {"Init", "atexit", "assert", "using"}, T)
    BY <2>1, <2>3 DEF Once, In
  <2>5. Once'
    <3> SUFFICES ASSUME NEW U \in Types
                 PROVE  Once!(U)'
      BY DEF Once
    <3>1. CASE U = T
      BY <1>1, <2>1, <2>2, <2>3, <2>4, <3>1, Going DEF Once, In, Slots
    <3>2. CASE U # T
      BY <1>1, <2>1, <2>2, <2>3, <3>2, Going DEF Once, In, Slots
    <3>3. QED
      BY <3>1, <3>2
  <2>6. Slots'
    BY <1>1, <2>3 DEF Slots
  <2>7. Lives'
    BY <1>1, <2>1, <2>3 DEF Lives, Slots
  <2>8. QED
    BY <1>2, <2>2, <2>5, <2>6, <2>7, Going
<1>6. CASE S!FinishInit(t, T)
  <2>1. getting[t].at = "atexit" /\ getting[t].type = T
    BY <1>6 DEF S!FinishInit, S!At
  <2>2. S!Go(t, "assert", T)
    BY <1>6 DEF S!FinishInit
  <2>3. /\ ponce_[T] = "running" /\ made[T] = 1 /\ ponce_' = [ponce_ EXCEPT ![T] = "done"]
        /\ handlers' = IF T \in NoDestroy THEN handlers ELSE <<T>> \o handlers
        /\ UNCHANGED <<value_, made, alive>>
    BY <1>6, <2>1 DEF S!FinishInit, Once, In
  <2>4. \A u \in Threads \ {t} : ~In(u, {"Init", "atexit"}, T)
    BY <2>1, <2>3 DEF Once, In
  <2>5. Once'
    <3> SUFFICES ASSUME NEW U \in Types
                 PROVE  Once!(U)'
      BY DEF Once
    <3>1. CASE U = T
      BY <1>1, <2>1, <2>2, <2>3, <2>4, <3>1, Going DEF Once, In, Slots
    <3>2. CASE U # T
      BY <1>1, <2>1, <2>2, <2>3, <3>2, Going DEF Once, In, Slots
    <3>3. QED
      BY <3>1, <3>2
  <2>6. Slots'
    <3>1. handlers \in Seq(Types \ NoDestroy)
      BY <1>1 DEF Slots
    <3>2. handlers' \in Seq(Types \ NoDestroy)
      <4>1. CASE T \in NoDestroy
        BY <2>3, <3>1, <4>1
      <4>2. CASE T \notin NoDestroy
        BY <2>3, <3>1, <4>2
      <4>3. QED
        BY <4>1, <4>2
    <3>3. QED
      BY <1>1, <2>3, <3>2 DEF Slots
  <2>7. Lives'
    BY <1>1, <2>1, <2>3 DEF Lives, Slots
  <2>8. QED
    BY <1>2, <2>2, <2>5, <2>6, <2>7, Going
<1>7. CASE S!LeaveOnce(t, T)
  <2>1. getting[t].at = "once" /\ ponce_[T] = "done"
    BY <1>7 DEF S!LeaveOnce, S!At, S!statics, S!NULL, S!Idle
  <2>2. S!Go(t, "assert", T)
    BY <1>7 DEF S!LeaveOnce
  <2>3. UNCHANGED <<ponce_, value_, made, alive, handlers>>
    BY <1>7, <2>1 DEF S!LeaveOnce, S!statics, ProgramType, Once, In
  <2>4. Once'
    BY <1>1, <2>1, <2>2, <2>3, Going DEF Once, In
  <2>5. Lives' /\ Slots'
    BY <1>1, <2>1, <2>3 DEF Lives, Once, In, Slots
  <2>6. QED
    BY <1>2, <2>2, <2>4, <2>5, Going
<1>8. CASE S!Return(t, T)
  <2>1. /\ getting[t].at = "assert" /\ getting[t].type = T /\ value_[T] # 0
        /\ UNCHANGED <<ponce_, value_, made, alive, handlers>>
    BY <1>8 DEF S!Return, S!At, S!statics, S!NULL
  <2>2. getting' = [getting EXCEPT ![t] = [at |-> "using", type |-> T, ref |-> value_[T]]]
    BY <1>8 DEF S!Return
  <2>3. value_[T] = 1 /\ ponce_[T] = "done"
    <3>1. value_[T] \in {0, 1}
      BY DEF ProgramType
    <3>2. ponce_[T] = "done"
      BY <2>1 DEF Once, In
    <3>3. QED
      BY <2>1, <3>1, <3>2
  <2>4. /\ getting'[t].at = "using" /\ getting'[t].type = T /\ getting'[t].ref = 1
        /\ getting' = [u \in Threads |-> getting'[u]]
        /\ \A u \in Threads \ {t} : getting'[u] = getting[u]
    BY <1>1, <2>2, <2>3, Goes
  <2>5. Once'
    BY <2>1, <2>3, <2>4 DEF Once, In
  <2>6. Lives' /\ Slots'
    BY <1>1, <2>1 DEF Lives, Slots
  <2>7. QED
    BY <1>2, <2>4, <2>5, <2>6
<1>9. CASE S!FinishUse(t, T)
  <2>1. /\ getting' = [getting EXCEPT ![t] = S!Idle]
        /\ UNCHANGED <<ponce_, value_, made, alive, handlers>>
    BY <1>9 DEF S!FinishUse, S!statics
  <2>2. /\ getting'[t].at = "idle"
        /\ getting' = [u \in Threads |-> getting'[u]]
        /\ \A u \in Threads \ {t} : getting'[u] = getting[u]
    BY <1>1, <2>1, Goes DEF S!Idle
  <2>3. Once'
    BY <2>1, <2>2 DEF Once, In
  <2>4. Lives' /\ Slots'
    BY <1>1, <2>1 DEF Lives, Slots
  <2>5. QED
    BY <1>2, <2>2, <2>3, <2>4
<1>10. QED
  BY <1>3, <1>4, <1>5, <1>6, <1>7, <1>8, <1>9 DEF S!GetInstance

(* Destroy, called by exit. *)
LEMMA DestroyLives ==
  ASSUME ProgramType, Once, Lives, process \in Exit_, UNCHANGED process, S!Destroy
  PROVE  ProgramType' /\ Once' /\ Lives'
<1> DEFINE T == Head(handlers)
<1>1. T \in Types \ NoDestroy /\ Tail(handlers) \in Seq(Types \ NoDestroy)
  <2>1. handlers # <<>>
    BY DEF S!Destroy, S!Delete, S!FinishDestroy
  <2>2. handlers \in Seq(Types \ NoDestroy)
    BY DEF ProgramType
  <2>3. QED
    BY <2>1, <2>2
<1>2. UNCHANGED <<ponce_, made, getting>>
  BY DEF S!Destroy, S!Delete, S!FinishDestroy
<1>3. Once'
  BY <1>2 DEF Once, In
<1> HIDE DEF T
<1>4. CASE S!Delete
  <2>1. alive' = [alive EXCEPT ![T] = @ \ {value_[T]}] /\ UNCHANGED <<value_, handlers>>
    BY <1>4 DEF S!Delete, T
  <2>2. ProgramType'
    BY <1>1, <1>2, <2>1 DEF ProgramType
  <2>3. Lives'
    BY <1>1, <1>2, <2>1 DEF Lives
  <2>4. QED
    BY <1>3, <2>2, <2>3
<1>5. CASE S!FinishDestroy
  <2>1. /\ value_' = [value_ EXCEPT ![T] = 0] /\ handlers' = Tail(handlers)
        /\ UNCHANGED alive
    BY <1>5 DEF S!FinishDestroy, S!NULL, T
  <2>2. ProgramType'
    BY <1>1, <1>2, <2>1 DEF ProgramType
  <2>3. Lives'
    BY <1>1, <1>2, <2>1 DEF Lives
  <2>4. QED
    BY <1>3, <2>2, <2>3
<1>6. QED
  BY <1>4, <1>5 DEF S!Destroy

(* The first three parts, over every step of a program. *)
LEMMA SingletonsKept ==
  ASSUME ProgramType, Once, Lives, [ProgramNext]_programVars
  PROVE  ProgramType' /\ Once' /\ Lives'
<1>0. ASSUME UNCHANGED singletonVars, process' \in {"main", "main exited"} \cup Exit_,
             process \in Exit_ => process' \in Exit_
      PROVE  ProgramType' /\ Once' /\ Lives'
  <2>1. ProgramType'
    BY <1>0 DEF singletonVars, ProgramType
  <2>2. Once'
    <3>1. UNCHANGED <<ponce_, made, getting>>
      BY <1>0 DEF singletonVars
    <3>2. QED
      BY <3>1 DEF Once, In
  <2>3. Lives'
    BY <1>0 DEF singletonVars, Lives
  <2>4. QED
    BY <2>1, <2>2, <2>3
<1>1. ASSUME UNCHANGED <<process, singletonVars>>
      PROVE  ProgramType' /\ Once' /\ Lives'
  BY <1>0, <1>1 DEF ProgramType
<1>2. ASSUME NEW t \in Threads, NEW T \in Types, CallGetInstance(t, T)
      PROVE  ProgramType' /\ Once' /\ Lives'
  <2>1. S!CallGetInstance(t, T) /\ UNCHANGED process
    BY <1>2 DEF CallGetInstance, Call, exitVars
  <2>2. QED
    BY <2>1, GetInstanceOnce
<1>3. ASSUME NEW t \in Threads, GetInstance(t)
      PROVE  ProgramType' /\ Once' /\ Lives'
  <2>1. PICK T \in Types : S!GetInstance(t, T) \/ S!FinishUse(t, T)
    BY <1>3 DEF GetInstance
  <2>2. UNCHANGED process
    BY <1>3 DEF GetInstance, exitVars
  <2>3. QED
    BY <2>1, <2>2, GetInstanceOnce
<1>4. CASE RunHandler
  <2>1. S!Destroy /\ UNCHANGED process /\ process \in Exit_
    BY <1>4 DEF RunHandler, exitVars, Exit_
  <2>2. QED
    BY <2>1, DestroyLives
<1>5. ASSUME NEW t \in Threads, Value(t) \/ BeginConstruct(t) \/ FinishConstruct(t)
      PROVE  UNCHANGED <<process, singletonVars>>
  BY <1>5 DEF Value, BeginConstruct, FinishConstruct, Call, exitVars
<1>6. CASE OwnerCalls \/ OwnerGoesOn \/ ChildGoesOn \/ SpuriousWake \/ DestroyThreadLocal
  <2>1. UNCHANGED <<process, singletonVars>>
    BY <1>6 DEF OwnerCalls, OwnerGoesOn, ChildGoesOn, SpuriousWake, DestroyThreadLocal, exitVars
  <2>2. QED
    BY <1>1, <2>1
<1>7. ASSUME \/ \E t \in Threads : AssertFails(t)
             \/ ReturnFromMain \/ ExitMain \/ ExitLast \/ End
      PROVE  ProgramType' /\ Once' /\ Lives'
  <2>1. UNCHANGED singletonVars /\ process' \in {"main exited"} \cup Exit_
    BY <1>7 DEF AssertFails, ReturnFromMain, ExitMain, ExitLast, End, Exit_
  <2>2. process \in Exit_ => process' \in Exit_
    BY <1>7, ThreadAssumption
    DEF AssertFails, ReturnFromMain, ExitMain, ExitLast, End, Exit_, OwnCode
  <2>3. QED
    BY <1>0, <2>1, <2>2
<1>8. CASE UNCHANGED programVars
  <2>1. UNCHANGED <<process, singletonVars>>
    BY <1>8 DEF programVars, exitVars
  <2>2. QED
    BY <1>1, <2>1
<1>9. QED
  BY <1>1, <1>2, <1>3, <1>4, <1>5, <1>6, <1>7, <1>8 DEF ProgramNext, FinishCall

(* A thread that is in GetInstance has not left. *)
LEMMA InGetInstance ==
  ASSUME NEW t \in Threads, GetInstance(t) \/ AssertFails(t)
  PROVE  getting[t] # S!Idle
<1>1. S!Idle.at = "idle"
  BY DEF S!Idle
<1>2. getting[t].at # "idle"
  BY DEF GetInstance, AssertFails, S!GetInstance, S!BeginInit, S!New, S!FinishInit, S!LeaveOnce,
         S!Return, S!FinishUse, S!Uses, S!AssertFails, S!At
<1>3. QED
  BY <1>1, <1>2

(* The assertion of GetInstance fails in a disorderly exit only. *)
LEMMA AssertHolds ==
  ASSUME ProgramType, Once, Lives, Gone, NEW t \in Threads, AssertFails(t)
  PROVE  process \in Exit_ /\ ~Orderly
<1>1. PICK T \in Types : getting[t].at = "assert" /\ getting[t].type = T /\ value_[T] = 0
  BY DEF AssertFails, S!AssertFails, S!At, S!NULL
<1>2. made[T] = 1
  BY <1>1 DEF Once, In
<1>3. process \in Exit_
  BY <1>1, <1>2 DEF Lives
<1>4. getting[t] # S!Idle
  BY InGetInstance
<1>5. QED
  BY <1>3, <1>4 DEF Gone, ChildLeft, Threads, Exit_

LEMMA GoneKept ==
  ASSUME IInv, ProgramType, Once, Lives, Gone, ProgramType', [ProgramNext]_programVars
  PROVE  Gone'
<1> USE ThreadAssumption
<1>0. TypeOK
  BY DEF IInv
<1>a. /\ childAt # "func" => getting[Child] = S!Idle
      /\ process # "main" => getting[Owner] = S!Idle /\ ownerAt = "destroyed"
      /\ Owner \in Threads /\ Child \in Threads
  BY DEF Gone, Threads
<1>1. ASSUME UNCHANGED <<ownerAt, childAt, joined_, process, returned>>,
             \A t \in Threads : getting'[t] = getting[t] \/ getting[t] # S!Idle
                                \/ (t = Owner /\ process = "main")
                                \/ (t = Child /\ childAt = "func")
      PROVE  Gone'
  BY <1>1, <1>a DEF Gone, Orderly, ChildLeft
<1>2. ASSUME NEW t \in Threads, NEW T \in Types, CallGetInstance(t, T)
      PROVE  Gone'
  <2>1. /\ UNCHANGED <<ownerAt, childAt, joined_, process, returned>>
        /\ (t = Owner /\ process = "main") \/ (t = Child /\ childAt = "func")
    BY <1>2 DEF CallGetInstance, Call, OwnCode, vars, object, exitVars
  <2>2. \A u \in Threads \ {t} : getting'[u] = getting[u]
    BY <1>2, Going DEF CallGetInstance, S!CallGetInstance
  <2>3. QED
    BY <1>1, <2>1, <2>2
<1>3. ASSUME NEW t \in Threads, GetInstance(t)
      PROVE  Gone'
  <2>1. UNCHANGED <<ownerAt, childAt, joined_, process, returned>>
    BY <1>3 DEF GetInstance, vars, object, exitVars
  <2>2. \E r : getting' = [getting EXCEPT ![t] = r]
    BY <1>3 DEF GetInstance, S!GetInstance, S!BeginInit, S!New, S!FinishInit, S!LeaveOnce,
                S!Return, S!FinishUse, S!Go
  <2>3. \A u \in Threads \ {t} : getting'[u] = getting[u]
    BY <2>2, Goes
  <2>4. QED
    BY <1>1, <1>3, <2>1, <2>3, InGetInstance
<1>4. ASSUME NEW t \in Threads, AssertFails(t)
      PROVE  Gone'
  <2>1. /\ UNCHANGED <<ownerAt, childAt, joined_, returned, getting>>
        /\ process' = "aborted" /\ process \in Exit_ /\ ~Orderly
    BY <1>4, AssertHolds DEF AssertFails, vars, object, singletonVars
  <2>2. QED
    BY <1>a, <2>1 DEF Gone, Orderly, Exit_
<1>5. ASSUME \/ \E t \in Threads : Value(t) \/ BeginConstruct(t) \/ FinishConstruct(t)
             \/ RunHandler \/ DestroyThreadLocal \/ UNCHANGED programVars
      PROVE  Gone'
  <2>1. UNCHANGED <<ownerAt, childAt, joined_, process, returned, getting>>
    BY <1>5 DEF Value, BeginConstruct, FinishConstruct, Call, RunHandler, DestroyThreadLocal,
                S!Destroy, S!Delete, S!FinishDestroy, programVars, vars, object, exitVars, singletonVars
  <2>2. QED
    BY <1>1, <2>1
<1>6. CASE OwnerCalls \/ OwnerGoesOn \/ ChildGoesOn \/ SpuriousWake
  <2>1. UNCHANGED <<process, returned, getting>>
    BY <1>6 DEF OwnerCalls, OwnerGoesOn, ChildGoesOn, SpuriousWake, exitVars, singletonVars
  <2>2. CASE LatchStep(Owner) \/ LatchStep(Child) \/ SpuriousWakeUp
    BY <1>1, <2>1, <2>2 DEF LatchStep, SpuriousWakeUp, object
  <2>3. CASE OwnerCalls
    <3>1. Start \/ CallJoin \/ Destroy
      BY <2>3 DEF OwnerCalls
    <3>2. /\ ownerAt \in {"constructed", "started", "joined"} /\ UNCHANGED childAt
          /\ \/ ownerAt' \in {"create", "joining"}
             \/ ownerAt' = "destroyed" /\ UNCHANGED joined_
      BY <3>1 DEF Start, CallJoin, Destroy, OwnerGoes, object
    <3>3. process = "main"
      BY <1>a, <3>2
    <3>4. ownerAt = "joined" \/ ~joined_
      BY <1>0, <3>2 DEF TypeOK
    <3>5. QED
      BY <1>a, <2>1, <3>2, <3>3, <3>4 DEF Gone, Exit_
  <2>4. CASE CreateFails \/ CreateSucceeds \/ CallWait \/ FinishStart \/ Join
    <3>1. /\ ownerAt \in {"create", "created", "waiting", "joining"}
          /\ ownerAt' \in {"constructed", "created", "waiting", "started", "joined"}
          /\ ownerAt' = "joined" => childAt' = "exited"
          /\ UNCHANGED childAt \/ (childAt = "none" /\ childAt' = "begin")
      BY <2>4 DEF CreateFails, CreateSucceeds, CallWait, FinishStart, Join, OwnerGoes, ChildGoes
    <3>2. process = "main"
      BY <1>a, <3>1
    <3>3. QED
      BY <1>a, <2>1, <3>1, <3>2 DEF Gone, Exit_
  <2>5. CASE /\ ChildGoesOn
             /\ SetTid \/ CallCountDown \/ SetName \/ FinishFunc \/ DeleteData \/ Exit
    <3>1. /\ UNCHANGED <<ownerAt, joined_>>
          /\ childAt \notin {"none", "exited"} /\ childAt' # "none"
      BY <2>5 DEF SetTid, CallCountDown, SetName, FinishFunc, DeleteData, Exit, ChildGoes, object
    <3>2. getting[Child] = S!Idle
      BY <2>5 DEF ChildGoesOn, Free
    <3>3. process \in Exit_ => ~Orderly
      BY <3>1 DEF Gone, ChildLeft
    <3>4. QED
      BY <2>1, <3>1, <3>2, <3>3 DEF Gone, Orderly
  <2>6. QED
    BY <1>6, <2>2, <2>3, <2>4, <2>5
    DEF OwnerGoesOn, ChildGoesOn, SpuriousWake, OwnerStep, ChildStep
<1>7. CASE ReturnFromMain \/ ExitMain
  <2>1. /\ UNCHANGED <<ownerAt, childAt, joined_, getting>>
        /\ process = "main" /\ ownerAt = "destroyed" /\ getting[Owner] = S!Idle
        /\ \/ process' = "exiting" /\ returned' = TRUE
           \/ process' = "main exited" /\ returned' = returned
    BY <1>7 DEF ReturnFromMain, ExitMain, OwnCode, Free, vars, object, singletonVars
  <2>2. ~returned
    BY <2>1 DEF Gone, Exit_
  <2>3. childAt # "func" => getting'[Child] = S!Idle
    BY <1>a, <2>1
  <2>4. joined_ => childAt = "exited"
    BY <2>1 DEF Gone
  <2>5. CASE process' = "main exited" /\ returned' = returned
    BY <2>1, <2>2, <2>3, <2>4, <2>5 DEF Gone, Exit_
  <2>6. CASE process' = "exiting" /\ returned' = TRUE
    BY <2>1, <2>3, <2>4, <2>6 DEF Gone, Orderly, ChildLeft, Exit_
  <2>7. QED
    BY <2>1, <2>5, <2>6
<1>8. CASE ExitLast \/ End
  <2>1. /\ UNCHANGED <<ownerAt, childAt, joined_, getting, returned>>
        /\ \/ process = "main exited" /\ process' = "exiting" /\ ChildLeft
           \/ process = "exiting" /\ process' = "ended"
    BY <1>8 DEF ExitLast, End, vars, object, singletonVars
  <2>2. QED
    BY <1>a, <2>1 DEF Gone, Orderly, ChildLeft, Exit_
<1>9. QED
  BY <1>2, <1>3, <1>4, <1>5, <1>6, <1>7, <1>8 DEF ProgramNext, FinishCall

(* The child goes forward, and only the owner of a started Thread joins. *)
LEMMA ThreadGoesOn ==
  ASSUME [Next]_vars
  PROVE  /\ childAt' = "none" => childAt = "none"
         /\ joined_' = joined_ \/ ownerAt = "started"
<1>1. CASE UNCHANGED vars
  BY <1>1 DEF vars, object
<1>2. CASE Start \/ CallJoin \/ Destroy
  BY <1>2 DEF Start, CallJoin, Destroy, OwnerGoes, object
<1>3. CASE OwnerStep
  BY <1>3 DEF OwnerStep, CreateFails, CreateSucceeds, CallWait, FinishStart, Join, LatchStep,
              OwnerGoes, ChildGoes, object
<1>4. CASE ChildStep \/ SpuriousWakeUp
  BY <1>4 DEF ChildStep, SpuriousWakeUp, SetTid, CallCountDown, SetName, FinishFunc, DeleteData,
              Exit, LatchStep, ChildGoes, object
<1>5. QED
  BY <1>1, <1>2, <1>3, <1>4 DEF Next

LEMMA OrderlyKept ==
  ASSUME Gone, [ProgramNext]_programVars, Orderly'
  PROVE  Orderly
<1> SUFFICES ASSUME ~Orderly
             PROVE  FALSE
  OBVIOUS
<1>1. childAt # "none" /\ ~joined_ /\ returned
  BY DEF Orderly
<1>2. ownerAt = "destroyed"
  BY <1>1 DEF Gone, Exit_
<1>3. childAt' # "none" /\ ~joined_'
  BY <1>1, <1>2, ProgramStepIsStep, ThreadGoesOn
<1>4. returned' = returned \/ returned' = TRUE
  BY DEF ProgramNext, OwnerCalls, OwnerGoesOn, ChildGoesOn, SpuriousWake, CallGetInstance, Call,
         GetInstance, AssertFails, Value, BeginConstruct, FinishConstruct, FinishCall,
         ReturnFromMain, ExitMain, ExitLast, RunHandler, DestroyThreadLocal, End,
         exitVars, programVars
<1>5. QED
  BY <1>1, <1>3, <1>4 DEF Orderly

(* The destructor of the key runs when a thread exits, while there is a key. *)
LEMMA ExitReclaims ==
  ASSUME Reclaimed, Orderly' => Orderly, NEW t \in Threads, V!ExitThread(t),
         process \in Exit_ => process' \in Exit_,
         Orderly => pkey_ = "created",
         t # Child => UNCHANGED childAt,
         t # Owner => UNCHANGED <<process, returned>>
  PROVE  Reclaimed'
<1> USE ThreadAssumption
<1>1. /\ pkey_' = pkey_
      /\ specific' = [specific EXCEPT ![t] = FALSE]
      /\ values' = [values EXCEPT ![t] = IF V!HasValue(t) THEN @ - 1 ELSE @]
  BY DEF V!ExitThread
<1>2. V!HasValue(t) <=> pkey_ = "created" /\ specific[t]
  BY DEF V!HasValue
<1>3. CASE pkey_ = "created"
  <2>1. values' = [values EXCEPT ![t] = 0]
    <3>1. values[t] = IF specific[t] THEN 1 ELSE 0
      BY <1>3 DEF Reclaimed
    <3>2. CASE specific[t]
      BY <1>1, <1>2, <1>3, <3>1, <3>2
    <3>3. CASE ~specific[t]
      BY <1>1, <1>2, <1>3, <3>1, <3>3
    <3>4. QED
      BY <3>2, <3>3
  <2>2. QED
    BY <1>1, <1>3, <2>1 DEF Reclaimed, ValuesReclaimed, Threads
<1>4. CASE pkey_ # "created"
  <2>1. values' = values /\ ~Orderly'
    BY <1>1, <1>2, <1>4 DEF Reclaimed
  <2>2. QED
    BY <1>1, <1>4, <2>1 DEF Reclaimed, ValuesReclaimed
<1>5. QED
  BY <1>3, <1>4

(* The values of the threads. *)
LEMMA ReclaimedKept ==
  ASSUME ProgramType, Once, Lives, Gone, Reclaimed, [ProgramNext]_programVars
  PROVE  Reclaimed'
<1> USE ThreadAssumption
<1>a. Owner \in Threads /\ Child \in Threads /\ (Orderly' => Orderly)
  BY OrderlyKept DEF Threads
<1>1. ASSUME UNCHANGED valueVars,
             childAt' = "exited" => childAt = "exited",
             process \in Exit_ => process' \in Exit_,
             process' # "main" /\ ~returned' => process # "main" /\ ~returned
      PROVE  Reclaimed'
  BY <1>1, <1>a DEF Reclaimed, ValuesReclaimed, valueVars
<1>2. ASSUME UNCHANGED <<valueVars, childAt, process, returned>>
      PROVE  Reclaimed'
  BY <1>1, <1>2
<1>3. ASSUME NEW t \in Threads,
             \/ \E T \in Types : CallGetInstance(t, T)
             \/ BeginConstruct(t) \/ GetInstance(t) \/ FinishConstruct(t)
      PROVE  Reclaimed'
  BY <1>2, <1>3 DEF CallGetInstance, Call, BeginConstruct, GetInstance, FinishConstruct,
                    vars, exitVars
<1>4. CASE OwnerCalls \/ SpuriousWake \/ RunHandler \/ UNCHANGED programVars
  BY <1>2, <1>4 DEF OwnerCalls, Start, CallJoin, Destroy, SpuriousWake, SpuriousWakeUp, RunHandler,
                    programVars, vars, exitVars
<1>5. ASSUME \/ \E t \in Threads : AssertFails(t)
             \/ ReturnFromMain \/ ExitLast \/ End
      PROVE  Reclaimed'
  <2>1. UNCHANGED <<valueVars, childAt>> /\ process' \in Exit_
    BY <1>5 DEF AssertFails, ReturnFromMain, ExitLast, End, vars, Exit_
  <2>2. \/ returned' = TRUE
        \/ returned' = returned /\ process \in {"main exited"} \cup Exit_
    <3>1. CASE \E t \in Threads : AssertFails(t)
      BY <3>1, AssertHolds DEF AssertFails
    <3>2. CASE ReturnFromMain \/ ExitLast \/ End
      BY <3>2 DEF ReturnFromMain, ExitLast, End, Exit_
    <3>3. QED
      BY <1>5, <3>1, <3>2
  <2>3. process' # "main" /\ ~returned' => process # "main" /\ ~returned
    BY <2>2 DEF Exit_
  <2>4. QED
    BY <1>1, <2>1, <2>3
<1>6. ASSUME NEW t \in Threads, Value(t)
      PROVE  Reclaimed'
  <2>1. /\ UNCHANGED <<childAt, process, returned, pkey_>>
        /\ (t = Owner /\ process = "main") \/ (t = Child /\ childAt = "func")
    BY <1>6 DEF Value, Call, OwnCode, vars, exitVars, V!Value, V!FindValue, V!NewValue,
                V!threadLocalVars
  <2>2. CASE V!FindValue(t)
    BY <1>2, <2>1, <2>2 DEF V!FindValue, V!threadLocalVars, valueVars
  <2>3. CASE V!NewValue(t) /\ pkey_ = "created"
    <3>1. /\ ~specific[t] /\ specific' = [specific EXCEPT ![t] = TRUE]
          /\ values' = [values EXCEPT ![t] = @ + 1]
      BY <2>3 DEF V!NewValue, V!HasValue
    <3>2. values[t] = 0
      BY <2>3, <3>1 DEF Reclaimed
    <3>3. values' = [values EXCEPT ![t] = 1]
      BY <3>1, <3>2
    <3>4. QED
      BY <1>a, <2>1, <2>3, <3>1, <3>3 DEF Reclaimed, ValuesReclaimed, Exit_
  <2>4. CASE V!NewValue(t) /\ pkey_ # "created"
    <3>1. process \in Exit_
      BY <2>4 DEF Reclaimed
    <3>2. ~Orderly
      BY <2>1, <3>1 DEF Gone, ChildLeft, Exit_
    <3>3. /\ values' = [values EXCEPT ![t] = @ + 1] /\ specific' = [specific EXCEPT ![t] = FALSE]
      BY <2>4 DEF V!NewValue
    <3>4. QED
      BY <1>a, <2>1, <2>4, <3>1, <3>2, <3>3 DEF Reclaimed, ValuesReclaimed
  <2>5. QED
    BY <1>6, <2>2, <2>3, <2>4 DEF Value, V!Value
<1>7. CASE OwnerGoesOn
  <2>1. UNCHANGED <<valueVars, process, returned>>
    BY <1>7 DEF OwnerGoesOn, exitVars
  <2>2. childAt' = "exited" => childAt = "exited"
    BY <1>7 DEF OwnerGoesOn, OwnerStep, CreateFails, CreateSucceeds, CallWait, FinishStart, Join,
                LatchStep, ChildGoes
  <2>3. QED
    BY <1>1, <2>1, <2>2
<1>8. CASE ChildGoesOn
  <2>1. UNCHANGED <<process, returned>>
    BY <1>8 DEF ChildGoesOn, exitVars
  <2>2. CASE childAt # "deleted"
    <3>1. UNCHANGED valueVars
      BY <1>8, <2>2 DEF ChildGoesOn
    <3>2. childAt' = "exited" => childAt = "exited"
      BY <1>8, <2>2 DEF ChildGoesOn, ChildStep, SetTid, CallCountDown, SetName, FinishFunc,
                        DeleteData, Exit, LatchStep, ChildGoes
    <3>3. QED
      BY <1>1, <2>1, <3>1, <3>2
  <2>3. CASE childAt = "deleted"
    <3>1. V!ExitThread(Child)
      BY <1>8, <2>3 DEF ChildGoesOn
    <3>2. Orderly => pkey_ = "created"
      BY <2>3 DEF Reclaimed, Gone, ChildLeft
    <3>3. QED
      BY <1>a, <2>1, <3>1, <3>2, ExitReclaims
  <2>4. QED
    BY <2>2, <2>3
<1>9. CASE ExitMain
  <2>1. /\ process = "main" /\ process' = "main exited" /\ UNCHANGED <<childAt, returned>>
        /\ V!ExitThread(Owner)
    BY <1>9 DEF ExitMain, OwnCode, vars
  <2>2. pkey_ = "created"
    BY <2>1 DEF Reclaimed, Exit_
  <2>3. QED
    BY <1>a, <2>1, <2>2, ExitReclaims DEF Exit_
<1>10. CASE DestroyThreadLocal
  <2>1. /\ process = "exiting" /\ UNCHANGED <<childAt, process, returned>>
        /\ pkey_' = "deleted" /\ UNCHANGED <<specific, values>>
    BY <1>10 DEF DestroyThreadLocal, V!DeleteKey, vars, exitVars
  <2>2. QED
    BY <1>a, <2>1 DEF Reclaimed, ValuesReclaimed, Exit_
<1>11. QED
  BY <1>3, <1>4, <1>5, <1>6, <1>7, <1>8, <1>9, <1>10 DEF ProgramNext, FinishCall
-----------------------------------------------------------------------------
LEMMA NextPInv == IInv /\ PInv /\ [ProgramNext]_programVars => PInv'
BY SingletonsKept, GoneKept, ReclaimedKept DEF PInv

(* The program keeps the invariant of the Thread and its own: what is made *)
(* once, what lives, and who still calls.                                  *)
THEOREM ProgramInvariant == ProgramSpec => [](IInv /\ PInv)
BY ThreadInvariant, ProgramUsesThread, InitPInv, NextPInv, PTL DEF ProgramSpec

(* Every variable of a Thread has its type, and its flags and its ThreadData *)
(* agree with where the owner and the child are.                           *)
THEOREM TypeCorrect == ProgramSpec => []TypeOK
BY ProgramInvariant, PTL DEF IInv

(* The id is set when Start returns, and the child uses neither a Thread   *)
(* that was destroyed nor a name that was freed.                           *)
THEOREM PointersStayGood == ProgramSpec => []PointersAreGood
<1>1. IInv => PointersAreGood
  <2> SUFFICES ASSUME IInv
               PROVE  PointersAreGood
    OBVIOUS
  <2>1. Handshake /\ NameNeverDangles
    BY DEF IInv
  <2>2. TidIsSet
    BY <2>1 DEF Handshake, TidIsSet
  <2>3. NoUseAfterDestroy
    BY <2>1 DEF Handshake, NoUseAfterDestroy
  <2>4. QED
    BY <2>1, <2>2, <2>3 DEF PointersAreGood
<1>2. QED
  BY <1>1, ProgramInvariant, PTL

(* Join and ~Thread reclaim the thread once between them. *)
THEOREM ThreadReclaimedOnce == ProgramSpec => []ReclaimedOnce
BY ProgramInvariant, PTL DEF IInv

(* GetInstance constructs one instance of each type and returns it whole. *)
THEOREM OneInstanceForAll == ProgramSpec => []OneInstance
<1>1. PInv => OneInstance
  <2> SUFFICES ASSUME PInv, NEW T \in Types
               PROVE  made[T] <= 1 /\ \A t \in Threads : S!Uses(t, T) => ponce_[T] = "done"
    BY DEF OneInstance
  <2>1. made[T] \in {0, 1}
    BY DEF PInv, ProgramType
  <2>2. QED
    BY <2>1 DEF PInv, Once, In, S!Uses, S!At
<1>2. QED
  BY <1>1, ProgramInvariant, PTL

(* Destroy, run by exit, takes the instance from nobody, and the assertion *)
(* of GetInstance holds, in every orderly exit.                            *)
THEOREM InstancesOutliveUsers == ProgramSpec => []InstanceOutlivesUsers
<1>1. PInv => InstanceOutlivesUsers
  <2> SUFFICES ASSUME PInv
               PROVE  InstanceOutlivesUsers
    OBVIOUS
  <2>1. ASSUME Orderly
        PROVE  process # "aborted" /\ \A t \in Threads, T \in Types : ~S!Dangles(t, T)
    <3>1. process # "aborted"
      BY <2>1 DEF PInv, Gone, Exit_
    <3>2. ASSUME NEW t \in Threads, NEW T \in Types, S!Dangles(t, T)
          PROVE  FALSE
      <4>1. In(t, {"using"}, T) /\ getting[t].ref \notin alive[T]
        BY <3>2 DEF S!Dangles, S!Uses, S!At, In
      <4>2. getting[t] # S!Idle
        BY <4>1 DEF S!Idle, In
      <4>3. process \notin Exit_
        BY <2>1, <4>2 DEF PInv, Gone, ChildLeft, Threads, Exit_
      <4>4. QED
        BY <4>1, <4>3 DEF PInv, Once, Lives, In
    <3>3. QED
      BY <3>1, <3>2
  <2>2. ASSUME NEW T \in NoDestroy
        PROVE  alive[T] = 1 .. made[T]
    <3>1. T \in Types /\ made[T] \in {0, 1} /\ alive[T] = IF made[T] = 1 THEN {1} ELSE {}
      BY <2>2, ProgramAssumption DEF PInv, ProgramType, Lives
    <3>2. 1 .. 0 = {} /\ 1 .. 1 = {1}
      OBVIOUS
    <3>3. QED
      BY <3>1, <3>2
  <2>3. QED
    BY <2>1, <2>2 DEF InstanceOutlivesUsers
<1>2. QED
  BY <1>1, ProgramInvariant, PTL

(* The destructor of the key leaves no value of a thread that has exited. *)
THEOREM ValuesAreReclaimed == ProgramSpec => []ValuesReclaimed
BY ProgramInvariant, PTL DEF PInv, Reclaimed
-----------------------------------------------------------------------------
(***************************************************************************)
(* The numbers of Threads: num_created_ is a count of those that took one, *)
(* as far as it goes, and each of them took another value of it.           *)
(***************************************************************************)
Given == Len(numbers) + Cardinality(naming)

Issued == {N!Wrap(k) : k \in 1 .. Given}

Counted ==
  /\ num_created_ = N!Wrap(Given)
  /\ IsInjective(numbers)
  /\ \A t, u \in naming : N!Sum(t, 1) = N!Sum(u, 1) => t = u
  /\ \A t \in naming, i \in DOMAIN numbers : N!Sum(t, 1) # numbers[i]
  /\ \A t \in naming : N!Sum(t, 1) \in Issued
  /\ \A i \in DOMAIN numbers : numbers[i] \in Issued

Numbering ==
  /\ naming \subseteq Threads
  /\ numbers \in Seq(Int) \ {<<>>} /\ num_created_ \in Int /\ fetched \in [Threads -> Int]
  /\ Given <= N!NumInts => Counted

LEMMA WrapFacts ==
  /\ N!NumInts \in Nat /\ N!NumInts >= 4
  /\ \A k \in Int : N!Wrap(k) \in Int
  /\ \A k \in 1 .. N!NumInts - 1 : N!Wrap(N!Wrap(k) + 1) = N!Wrap(k + 1)
  /\ \A j, k \in 1 .. N!NumInts : N!Wrap(j) = N!Wrap(k) => j = k
<1>1. MaxInt \in Nat \ {0}
  BY ProgramAssumption
<1>. QED
  BY <1>1 DEF N!NumInts, N!Wrap

(* How many are in set_default_name, when one comes or goes.               *)
LEMMA NamingCount ==
  ASSUME naming \subseteq Threads, NEW t \in Threads
  PROVE  /\ Cardinality(naming) \in Nat
         /\ t \notin naming => Cardinality(naming \cup {t}) = Cardinality(naming) + 1
         /\ t \in naming => Cardinality(naming \ {t}) = Cardinality(naming) - 1
<1>1. IsFiniteSet({Owner, Child})
  <2>1. IsFiniteSet({Owner})
    BY FS_Singleton
  <2>2. IsFiniteSet({Owner} \cup {Child}) /\ {Owner} \cup {Child} = {Owner, Child}
    BY <2>1, FS_AddElement
  <2>. QED
    BY <2>2
<1>2. IsFiniteSet(naming)
  BY <1>1, FS_Subset DEF Threads
<1>. QED
  BY <1>2, FS_CardinalityType, FS_AddElement, FS_RemoveElement

LEMMA InitNumbering == ProgramInit => Numbering
<1>. SUFFICES ASSUME ProgramInit PROVE Numbering
  OBVIOUS
<1>1. /\ naming = {} /\ numbers = <<1>> /\ num_created_ = 1
      /\ fetched = [t \in Threads |-> 0]
  BY DEF ProgramInit, N!InitAtomic
<1>2. Given = 1
  BY <1>1, FS_EmptySet DEF Given
<1>3. N!Wrap(1) = 1 /\ 1 \in 1 .. 1
  BY ProgramAssumption DEF N!Wrap
<1>4. 1 \in Issued
  BY <1>2, <1>3 DEF Issued
<1>5. Counted
  BY <1>1, <1>2, <1>3, <1>4 DEF Counted, IsInjective
<1>. QED
  BY <1>1, <1>5 DEF Numbering

LEMMA BeginConstructNumbers ==
  ASSUME Numbering, NEW t \in Threads, BeginConstruct(t)
  PROVE  Numbering'
<1>1. /\ t \notin naming /\ naming' = naming \cup {t} /\ numbers' = numbers
      /\ num_created_' = N!Wrap(num_created_ + 1)
      /\ fetched' = [fetched EXCEPT ![t] = num_created_]
  BY DEF BeginConstruct, Call, OwnCode, Free, N!GetAndAdd
<1>2. /\ naming \subseteq Threads /\ numbers \in Seq(Int) /\ Len(numbers) \in Nat \ {0}
      /\ num_created_ \in Int /\ fetched \in [Threads -> Int]
  BY DEF Numbering
<1>3. Given \in Nat \ {0} /\ Given' = Given + 1
  <2>1. Cardinality(naming) \in Nat /\ Cardinality(naming') = Cardinality(naming) + 1
    BY <1>1, <1>2, NamingCount
  <2>2. Len(numbers') = Len(numbers)
    BY <1>1
  <2>. QED
    BY <1>2, <2>1, <2>2 DEF Given
<1>4. /\ fetched' \in [Threads -> Int] /\ fetched'[t] = num_created_
      /\ \A u \in naming : fetched'[u] = fetched[u]
  BY <1>1, <1>2
<1>5. /\ num_created_' \in Int /\ N!Sum(t, 1)' = num_created_'
      /\ \A u \in naming : N!Sum(u, 1)' = N!Sum(u, 1)
  <2>1. num_created_ + 1 \in Int
    BY <1>2
  <2>2. num_created_' \in Int
    BY <1>1, <2>1, WrapFacts
  <2>3. N!Sum(t, 1)' = N!Wrap(num_created_ + 1)
    BY <1>4 DEF N!Sum, N!Wrap, N!NumInts
  <2>4. \A u \in naming : N!Sum(u, 1)' = N!Sum(u, 1)
    BY <1>4 DEF N!Sum, N!Wrap, N!NumInts
  <2>. QED
    BY <1>1, <2>2, <2>3, <2>4
<1>6. ASSUME Given' <= N!NumInts
      PROVE  Counted'
  <2>1. Counted
    BY <1>3, <1>6, WrapFacts DEF Numbering
  <2>2. Given \in 1 .. N!NumInts - 1
    BY <1>3, <1>6, WrapFacts
  <2>3. num_created_' = N!Wrap(Given')
    BY <1>1, <1>3, <2>1, <2>2, WrapFacts DEF Counted
  <2>4. num_created_' \in Issued' /\ num_created_' \notin Issued /\ Issued \subseteq Issued'
    <3>1. Given' \in 1 .. Given' /\ 1 .. Given \subseteq 1 .. Given'
      BY <1>3
    <3>2. \A k \in 1 .. Given : k # Given' /\ k \in 1 .. N!NumInts /\ Given' \in 1 .. N!NumInts
      BY <1>3, <1>6, WrapFacts
    <3>. QED
      BY <2>3, <3>1, <3>2, WrapFacts DEF Issued
  <2>5. /\ \A u \in naming : N!Sum(u, 1)' \in Issued
        /\ \A i \in DOMAIN numbers : numbers[i] \in Issued
    BY <1>5, <2>1 DEF Counted
  <2>. QED
    BY <1>1, <1>5, <2>1, <2>3, <2>4, <2>5 DEF Counted, IsInjective, N!Wrap, N!NumInts
<1>. QED
  BY <1>1, <1>2, <1>4, <1>5, <1>6 DEF Numbering

LEMMA FinishConstructNumbers ==
  ASSUME Numbering, NEW t \in Threads, FinishConstruct(t)
  PROVE  Numbering'
<1>. DEFINE n == Len(numbers)
            x == N!Sum(t, 1)
<1>1. /\ t \in naming /\ naming' = naming \ {t} /\ numbers' = Append(numbers, x)
      /\ num_created_' = num_created_ /\ fetched' = fetched
  BY DEF FinishConstruct
<1>2. /\ naming \subseteq Threads /\ numbers \in Seq(Int) /\ n \in Nat \ {0}
      /\ num_created_ \in Int /\ fetched \in [Threads -> Int] /\ x \in Int
  <2>1. /\ naming \subseteq Threads /\ numbers \in Seq(Int) /\ n \in Nat \ {0}
        /\ num_created_ \in Int /\ fetched \in [Threads -> Int]
    BY DEF Numbering
  <2>2. fetched[t] + 1 \in Int
    BY <2>1
  <2>. QED
    BY <2>1, <2>2, WrapFacts DEF N!Sum
<1>. HIDE DEF x
<1>3. /\ numbers' \in Seq(Int) /\ Len(numbers') = n + 1 /\ numbers'[n + 1] = x
      /\ \A i \in 1 .. n : numbers'[i] = numbers[i]
      /\ \A i \in DOMAIN numbers' : i \in 1 .. n \/ i = n + 1
  BY <1>1, <1>2
<1>4. Given' = Given
  <2>1. Cardinality(naming) \in Nat /\ Cardinality(naming') = Cardinality(naming) - 1
    BY <1>1, <1>2, NamingCount
  <2>. QED
    BY <1>2, <1>3, <2>1 DEF Given
<1>5. /\ \A u \in naming' : u \in naming /\ u # t /\ N!Sum(u, 1)' = N!Sum(u, 1)
      /\ Issued' = Issued
  BY <1>1, <1>4 DEF N!Sum, Issued
<1>6. ASSUME Counted
      PROVE  Counted'
  <2>1. /\ \A i, j \in 1 .. n : numbers[i] = numbers[j] => i = j
        /\ \A i \in 1 .. n : numbers[i] # x /\ numbers[i] \in Issued
        /\ x \in Issued
    BY <1>1, <1>2, <1>6 DEF Counted, IsInjective, x
  <2>2. IsInjective(numbers')
    BY <1>3, <2>1 DEF IsInjective
  <2>3. \A i \in DOMAIN numbers' : numbers'[i] \in Issued'
    BY <1>3, <1>5, <2>1
  <2>4. \A u \in naming', i \in DOMAIN numbers' : N!Sum(u, 1)' # numbers'[i]
    BY <1>1, <1>2, <1>3, <1>5, <1>6 DEF Counted, x
  <2>. QED
    BY <1>1, <1>4, <1>5, <1>6, <2>2, <2>3, <2>4 DEF Counted
<1>. QED
  BY <1>1, <1>2, <1>3, <1>4, <1>6 DEF Numbering

LEMMA NumberingKept ==
  ASSUME Numbering, [ProgramNext]_programVars
  PROVE  Numbering'
<1>1. ASSUME UNCHANGED nameVars
      PROVE  Numbering'
  BY <1>1 DEF nameVars, Numbering, Counted, Given, Issued, N!Sum
<1>2. CASE \E t \in Threads : BeginConstruct(t)
  BY <1>2, BeginConstructNumbers
<1>3. CASE \E t \in Threads : FinishConstruct(t)
  BY <1>3, FinishConstructNumbers
<1>4. UNCHANGED nameVars \/ \E t \in Threads : BeginConstruct(t) \/ FinishConstruct(t)
  BY DEF ProgramNext, programVars, OwnerCalls, OwnerGoesOn, ChildGoesOn, SpuriousWake,
         CallGetInstance, Value, FinishCall, GetInstance, AssertFails,
         ReturnFromMain, ExitMain, ExitLast, RunHandler, DestroyThreadLocal, End
<1>. QED
  BY <1>1, <1>2, <1>3, <1>4

(* Threads that are constructed at the same time get different numbers, as *)
(* many as num_created_ has.                                               *)
THEOREM ThreadNumbersDiffer == ProgramSpec => []NumbersDiffer
<1>1. Numbering => NumbersDiffer
  BY DEF Numbering, Counted, NumbersDiffer, Given
<1>. QED
  BY <1>1, InitNumbering, NumberingKept, PTL DEF ProgramSpec
=============================================================================
