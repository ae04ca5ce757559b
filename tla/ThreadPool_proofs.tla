-------------------------- MODULE ThreadPool_proofs --------------------------
(***************************************************************************)
(* Proofs about module ThreadPool, for any number of workers, any finite   *)
(* set of callers, any tasks and any limit of the queue, whether or not    *)
(* pthread_create fails.                                                   *)
(*                                                                         *)
(* Base: types, mutual exclusion, that a sleeping thread is at the Wait of *)
(* its condition, and which workers exist.  Lifecycle: which workers Stop  *)
(* has joined, and what running_ is, by the location of the owner.         *)
(***************************************************************************)
EXTENDS ThreadPool, DataLemmas

Exclusion == \A t \in Threads : holder = t <=> pc[t] \in {"taking", "offering", "stopping"}

Sleepers ==
  /\ \A t \in waiting["not_empty"] : pc[t] = "take"
  /\ \A t \in waiting["not_full"] : pc[t] = "offer"

Created == \A w \in Workers : pc[w] = "none" <=> w > spawned

Base == TypeOK /\ Exclusion /\ Sleepers /\ Created

Lifecycle ==
  /\ \A w \in Workers : w <= joined => pc[w] = "exited"
  /\ pc[Owner] \in {"stopped", "destroyed"} => joined = spawned
  /\ pc[Owner] = "new" => spawned = 0
  /\ pc[Owner] = "await" => spawned >= 1
  /\ running <=> pc[Owner] \in {"spawn", "await", "started", "stop", "stopping"}

(* The set of callers and workers, that is, of the threads that call Run. *)
Runners == Workers \cup Callers

LEMMA ThreadFacts ==
  /\ Owner \in Threads /\ Owner \notin Workers /\ Owner \notin Callers
  /\ Workers \cap Callers = {}
  /\ Runners \subseteq Threads /\ Workers \subseteq Threads /\ Callers \subseteq Threads
  /\ NoThread \notin Threads
  /\ \A w \in Workers : w \in Nat /\ w >= 1 /\ w <= NumThreads
BY PoolAssumption DEF Threads, Workers, Runners

LEMMA FiniteThreads ==
  \A S \in SUBSET Threads : IsFiniteSet(S) /\ Cardinality(S) \in Nat
<1>1. IsFiniteSet(Workers)
  BY PoolAssumption, FS_Interval DEF Workers
<1>2. IsFiniteSet(Threads)
  BY <1>1, PoolAssumption, FS_Union, FS_Singleton DEF Threads
<1>3. QED
  BY <1>2, FS_Subset, FS_CardinalityType

(* The steps of Next, one by one: a fact about each of them is a fact      *)
(* about Next.                                                             *)
LEMMA StepCases ==
  ASSUME [Next]_vars, NEW P,
         UNCHANGED vars => P,
         Start \/ SpawnWorker \/ WorkerStarted \/ FinishStart => P,
         CallStop \/ LockStop \/ StopBody => P,
         Join \/ FinishStop \/ Destroy => P,
         \A c \in Callers, x \in Tasks : CallRun(c, x) => P,
         \A t \in Runners : RunTest(t) => P,
         \A t \in Runners : LockRun(t) => P,
         \A t \in Runners : WaitNotFull(t) => P,
         \A t \in Runners : PushBack(t) => P,
         \A t \in Runners : Execute(t) => P,
         \A w \in Workers : Begin(w) \/ TestRunning(w) => P,
         \A w \in Workers : LockTake(w) => P,
         \A w \in Workers : WaitNotEmpty(w) => P,
         \A w \in Workers : PopFront(w) => P,
         \A w \in Workers : TakeNothing(w) => P,
         \A t \in Threads : SpuriousWakeUp(t) => P
  PROVE  P
BY DEF Next, Step, Starting, Stop, Run, Take, RunInThread, Runners
-----------------------------------------------------------------------------
LEMMA InitBase == Init => Base
<1> SUFFICES ASSUME Init
             PROVE  Base
  OBVIOUS
<1> USE ThreadFacts, PoolAssumption
<1>1. /\ pc \in [Threads -> OwnerPcs \cup WorkerPcs \cup {"idle"}]
      /\ pc[Owner] = "new"
      /\ \A w \in Workers : pc[w] = "none"
      /\ \A c \in Callers : pc[c] = "idle"
  BY DEF Init, OwnerPcs, WorkerPcs, RunPcs
<1>2. \A t \in Threads : pc[t] \in {"new", "none", "idle"}
  BY <1>1 DEF Threads
<1>3. /\ queue \in Seq(Tasks) /\ Len(queue) = 0
      /\ task = [t \in Threads |-> NoTask]
      /\ holder = NoThread /\ waiting = [c \in {"not_empty", "not_full"} |-> {}]
  BY DEF Init, Mon!Init
<1>4. /\ running \in BOOLEAN /\ spawned = 0 /\ joined = 0
      /\ submitted \in SUBSET Tasks /\ ran \in [Tasks -> Nat]
  BY DEF Init
<1>5. /\ task \in [Threads -> Tasks \cup {NoTask}]
      /\ \A t \in Threads : task[t] # NoTask <=> pc[t] \in RunPcs
  BY <1>2, <1>3 DEF RunPcs
<1>6. waiting \in [{"not_empty", "not_full"} -> SUBSET Threads]
  BY <1>3
<1>7. /\ pc[Owner] \in OwnerPcs
      /\ \A w \in Workers : pc[w] \in WorkerPcs
      /\ \A c \in Callers : pc[c] \in RunPcs \cup {"idle"}
  BY <1>1 DEF OwnerPcs, WorkerPcs
<1>8. spawned \in 0 .. NumThreads /\ joined \in 0 .. spawned
  BY <1>4
<1>9. MaxQueue > 0 => Len(queue) <= MaxQueue
  BY <1>3
<1>10. TypeOK
  BY <1>1, <1>3, <1>4, <1>5, <1>6, <1>7, <1>8, <1>9 DEF TypeOK
<1>11. Exclusion /\ Sleepers
  BY <1>2, <1>3 DEF Exclusion, Sleepers
<1>12. Created
  BY <1>1, <1>4 DEF Created
<1>13. QED
  BY <1>10, <1>11, <1>12 DEF Base

LEMMA NextBase == Base /\ [Next]_vars => Base'
<1> SUFFICES ASSUME Base, [Next]_vars
             PROVE  Base'
  OBVIOUS
<1> USE ThreadFacts, PoolAssumption
    DEF Base, TypeOK, Exclusion, Sleepers, Created, OwnerPcs, WorkerPcs, RunPcs, monitor, history
<1>1. UNCHANGED vars => Base'
  BY DEF vars
<1>2. Start \/ SpawnWorker \/ WorkerStarted \/ FinishStart => Base'
  <2>1. Start => Base'
    BY DEF Start, Go
  <2>2. ASSUME SpawnWorker
        PROVE  Base'
    <3>1. spawned + 1 \in Workers /\ spawned' = spawned + 1 /\ spawned' \in 0 .. NumThreads
      BY <2>2 DEF SpawnWorker, Workers
    <3>2. PICK w \in Workers, o \in {"spawn", "await"}, p \in {"created", "failed"} :
            w = spawned + 1 /\ pc' = [pc EXCEPT ![Owner] = o, ![w] = p]
      BY <2>2, <3>1 DEF SpawnWorker
    <3>3. pc[Owner] = "spawn" /\ pc[w] = "none" /\ w = spawned + 1
      BY <2>2, <3>1, <3>2 DEF SpawnWorker
    <3>4. UNCHANGED <<task, queue, running, joined, monitor, history>>
      BY <2>2 DEF SpawnWorker
    <3>5. TypeOK'
      <4>1. /\ pc' \in [Threads -> OwnerPcs \cup WorkerPcs \cup {"idle"}]
            /\ pc'[Owner] \in OwnerPcs
            /\ \A v \in Workers : pc'[v] \in WorkerPcs
            /\ \A c \in Callers : pc'[c] \in RunPcs \cup {"idle"}
        BY <3>2, <3>3
      <4>2. \A u \in Threads : task[u] # NoTask <=> pc'[u] \in RunPcs
        BY <3>2, <3>3
      <4>3. joined \in 0 .. spawned'
        BY <3>1
      <4>4. QED
        BY <3>1, <3>4, <4>1, <4>2, <4>3
    <3>6. Exclusion' /\ Sleepers'
      BY <3>2, <3>3, <3>4
    <3>7. Created'
      BY <3>1, <3>2, <3>3
    <3>8. QED
      BY <3>5, <3>6, <3>7
  <2>3. WorkerStarted => Base'
    BY DEF WorkerStarted, Go
  <2>4. FinishStart => Base'
    BY DEF FinishStart, Go
  <2>5. QED
    BY <2>1, <2>2, <2>3, <2>4
<1>3. CallStop \/ LockStop \/ StopBody => Base'
  <2>1. CallStop => Base'
    BY DEF CallStop, Go
  <2>2. LockStop => Base'
    BY DEF LockStop, Go, Mon!Lock, Mon!Awake
  <2>3. ASSUME StopBody
        PROVE  Base'
    <3>1. waiting' = [waiting EXCEPT !["not_empty"] = {}]
      BY <2>3 DEF StopBody, Mon!NotifyAll
    <3>2. QED
      BY <2>3, <3>1 DEF StopBody, ClearRunning, Go, Mon!UnLock
  <2>4. QED
    BY <2>1, <2>2, <2>3
<1>4. Join \/ FinishStop \/ Destroy => Base'
  <2>1. ASSUME Join
        PROVE  Base'
    <3>1. /\ pc[Owner] = "join"
          /\ pc' = pc \/ pc' = [pc EXCEPT ![Owner] = "aborted"]
      BY <2>1 DEF Join
    <3>2. joined' \in 0 .. spawned
      BY <2>1 DEF Join
    <3>3. UNCHANGED <<task, queue, running, spawned, monitor, history>>
      BY <2>1 DEF Join
    <3>4. /\ pc' \in [Threads -> OwnerPcs \cup WorkerPcs \cup {"idle"}]
          /\ pc'[Owner] \in OwnerPcs
          /\ \A t \in Threads : t # Owner => pc'[t] = pc[t]
          /\ \A t \in Threads : pc'[t] \in RunPcs <=> pc[t] \in RunPcs
      BY <3>1
    <3>5. TypeOK'
      BY <3>2, <3>3, <3>4
    <3>6. Exclusion' /\ Sleepers' /\ Created'
      BY <3>1, <3>3
    <3>7. QED
      BY <3>5, <3>6
  <2>2. FinishStop => Base'
    BY DEF FinishStop, Go
  <2>3. Destroy => Base'
    BY DEF Destroy
  <2>4. QED
    BY <2>1, <2>2, <2>3
<1>5. ASSUME NEW c \in Callers, NEW x \in Tasks, CallRun(c, x)
      PROVE  Base'
  BY <1>5 DEF CallRun, Go
<1>6. ASSUME NEW t \in Runners, RunTest(t)
      PROVE  Base'
  <2>1. PICK p \in {"execute", "offer"} : pc[t] = "run" /\ pc' = [pc EXCEPT ![t] = p]
    BY <1>6 DEF RunTest, Go
  <2>2. UNCHANGED <<task, queue, running, spawned, joined, monitor, history>>
    BY <1>6 DEF RunTest
  <2>3. QED
    BY <2>1, <2>2 DEF Runners
<1>7. ASSUME NEW t \in Runners, LockRun(t)
      PROVE  Base'
  BY <1>7 DEF LockRun, Go, Mon!Lock, Mon!Awake, Runners
<1>8. ASSUME NEW t \in Runners, WaitNotFull(t)
      PROVE  Base'
  BY <1>8 DEF WaitNotFull, Go, Mon!Wait, Mon!UnLock, Runners
<1>9. ASSUME NEW t \in Runners, PushBack(t)
      PROVE  Base'
  <2>1. /\ pc[t] = "offering" /\ t \in Threads /\ task[t] \in Tasks
        /\ pc' = [pc EXCEPT ![t] = ReturnFromTask(t)]
        /\ ReturnFromTask(t) = IF t \in Workers THEN "loop" ELSE "idle"
        /\ t \in Workers \/ t \in Callers
        /\ holder = t /\ holder' = NoThread
        /\ task' = [task EXCEPT ![t] = NoTask]
        /\ UNCHANGED <<running, spawned, joined, submitted, ran>>
    BY <1>9 DEF PushBack, PushTask, Go, Mon!UnLock, Runners, ReturnFromTask
  <2>2. queue' \in Seq(Tasks) /\ (MaxQueue > 0 => Len(queue') <= MaxQueue)
    BY <1>9, <2>1 DEF PushBack, PushTask, IsFull
  <2>3. /\ waiting' \in [{"not_empty", "not_full"} -> SUBSET Threads]
        /\ waiting'["not_empty"] \subseteq waiting["not_empty"]
        /\ waiting'["not_full"] = waiting["not_full"]
    BY <1>9 DEF PushBack, Mon!Notify
  <2>4. TypeOK'
    <3>1. /\ pc' \in [Threads -> OwnerPcs \cup WorkerPcs \cup {"idle"}]
          /\ pc'[Owner] \in OwnerPcs
          /\ \A w \in Workers : pc'[w] \in WorkerPcs
          /\ \A c \in Callers : pc'[c] \in RunPcs \cup {"idle"}
      BY <2>1
    <3>2. /\ task' \in [Threads -> Tasks \cup {NoTask}]
          /\ \A u \in Threads : task'[u] # NoTask <=> pc'[u] \in RunPcs
      BY <2>1
    <3>3. QED
      BY <2>1, <2>2, <2>3, <3>1, <3>2
  <2>5. Exclusion' /\ Sleepers' /\ Created'
    BY <2>1, <2>3
  <2>6. QED
    BY <2>4, <2>5
<1>10. ASSUME NEW t \in Runners, Execute(t)
       PROVE  Base'
  <2>1. /\ t \in Threads /\ t \in Workers \cup Callers
        /\ pc[t] = "execute" /\ task[t] \in Tasks
        /\ ran' = [ran EXCEPT ![task[t]] = @ + 1]
        /\ UNCHANGED <<queue, running, spawned, joined, monitor>>
    BY <1>10 DEF Execute, Runners
  <2>2. PICK next \in Tasks \cup {NoTask} :
          /\ pc' = [pc EXCEPT ![t] = IF next = NoTask THEN ReturnFromTask(t) ELSE "run"]
          /\ task' = [task EXCEPT ![t] = next]
          /\ submitted' = submitted \cup ({next} \ {NoTask})
    BY <1>10, <2>1 DEF Execute
  <2>3. PICK p \in {"loop", "idle", "run"} :
          /\ pc' = [pc EXCEPT ![t] = p]
          /\ p = "run" <=> next # NoTask
          /\ p = "loop" => t \in Workers
          /\ p = "idle" => t \in Callers
    <3>1. CASE next # NoTask
      BY <2>2, <3>1
    <3>2. CASE next = NoTask /\ t \in Workers
      BY <2>2, <3>2 DEF ReturnFromTask
    <3>3. CASE next = NoTask /\ t \notin Workers
      BY <2>1, <2>2, <3>3 DEF ReturnFromTask
    <3>4. QED
      BY <3>1, <3>2, <3>3
  <2>4. /\ pc' \in [Threads -> OwnerPcs \cup WorkerPcs \cup {"idle"}]
        /\ pc'[Owner] \in OwnerPcs
        /\ \A w \in Workers : pc'[w] \in WorkerPcs
        /\ \A c \in Callers : pc'[c] \in RunPcs \cup {"idle"}
    BY <2>1, <2>3
  <2>5. /\ task' \in [Threads -> Tasks \cup {NoTask}]
        /\ \A u \in Threads : task'[u] # NoTask <=> pc'[u] \in RunPcs
    BY <2>1, <2>2, <2>3
  <2>6. submitted' \in SUBSET Tasks /\ ran' \in [Tasks -> Nat]
    BY <2>1, <2>2
  <2>7. Exclusion' /\ Sleepers' /\ Created'
    BY <2>1, <2>3
  <2>8. QED
    BY <2>1, <2>4, <2>5, <2>6, <2>7
<1>11. ASSUME NEW w \in Workers, Begin(w) \/ TestRunning(w)
       PROVE  Base'
  <2>1. PICK p \in {"loop", "take", "exited"} : pc' = [pc EXCEPT ![w] = p]
    BY <1>11 DEF Begin, TestRunning, Go
  <2>2. pc[w] \in {"created", "loop"}
    BY <1>11 DEF Begin, TestRunning, Go
  <2>3. UNCHANGED <<task, queue, running, spawned, joined, monitor, history>>
    BY <1>11 DEF Begin, TestRunning
  <2>4. QED
    BY <2>1, <2>2, <2>3
<1>12. ASSUME NEW w \in Workers, LockTake(w)
       PROVE  Base'
  BY <1>12 DEF LockTake, Go, Mon!Lock, Mon!Awake
<1>13. ASSUME NEW w \in Workers, WaitNotEmpty(w)
       PROVE  Base'
  BY <1>13 DEF WaitNotEmpty, Go, Mon!Wait, Mon!UnLock
<1>14. ASSUME NEW w \in Workers, PopFront(w)
       PROVE  Base'
  <2>1. /\ pc[w] = "taking" /\ pc' = [pc EXCEPT ![w] = "execute"]
        /\ queue # <<>> /\ queue' = Tail(queue)
        /\ task' = [task EXCEPT ![w] = Head(queue)]
        /\ holder = w /\ holder' = NoThread
        /\ UNCHANGED <<running, spawned, joined, history>>
    BY <1>14 DEF PopFront, PopTask, Go, Mon!UnLock
  <2>2. /\ waiting' \in [{"not_empty", "not_full"} -> SUBSET Threads]
        /\ waiting'["not_empty"] = waiting["not_empty"]
        /\ waiting'["not_full"] \subseteq waiting["not_full"]
    BY <1>14 DEF PopFront, Mon!Notify
  <2>3. /\ queue' \in Seq(Tasks) /\ (MaxQueue > 0 => Len(queue') <= MaxQueue)
        /\ Head(queue) \in Tasks
    BY <2>1
  <2>4. TypeOK' /\ Created'
    BY <2>1, <2>2, <2>3
  <2>5. Exclusion' /\ Sleepers'
    BY <2>1, <2>2
  <2>6. QED
    BY <2>4, <2>5
<1>15. ASSUME NEW w \in Workers, TakeNothing(w)
       PROVE  Base'
  BY <1>15 DEF TakeNothing, Go, Mon!UnLock
<1>16. ASSUME NEW t \in Threads, SpuriousWakeUp(t)
       PROVE  Base'
  BY <1>16 DEF SpuriousWakeUp, Mon!WakeUp
<1>17. QED
  BY <1>1, <1>2, <1>3, <1>4, <1>5, <1>6, <1>7, <1>8, <1>9, <1>10, <1>11, <1>12,
     <1>13, <1>14, <1>15, <1>16, StepCases
-----------------------------------------------------------------------------
(* The life cycle of the workers *)

(* A step of a thread that calls Run or Take concerns neither the owner    *)
(* nor a worker that has left RunInThread.                                 *)
OfRunner ==
  /\ UNCHANGED <<pc[Owner], running, spawned, joined>>
  /\ \A w \in Workers : pc[w] = "exited" => pc'[w] = "exited"

OwnerStep ==
  \/ Start \/ SpawnWorker \/ WorkerStarted \/ FinishStart
  \/ CallStop \/ LockStop \/ StopBody
  \/ Join \/ FinishStop \/ Destroy

LEMMA RunnerSteps == Base /\ [Next]_vars => OwnerStep \/ OfRunner
<1> SUFFICES ASSUME Base, [Next]_vars
             PROVE  OwnerStep \/ OfRunner
  OBVIOUS
<1> USE ThreadFacts DEF Base, TypeOK, OfRunner, Runners, Go
<1>1. UNCHANGED vars => OfRunner
  BY DEF vars
<1>2. ASSUME NEW c \in Callers, NEW x \in Tasks, CallRun(c, x)
      PROVE  OfRunner
  BY <1>2 DEF CallRun
<1>3. ASSUME NEW t \in Runners, RunTest(t)
      PROVE  OfRunner
  BY <1>3 DEF RunTest
<1>4. ASSUME NEW t \in Runners, LockRun(t)
      PROVE  OfRunner
  BY <1>4 DEF LockRun
<1>5. ASSUME NEW t \in Runners, WaitNotFull(t)
      PROVE  OfRunner
  BY <1>5 DEF WaitNotFull
<1>6. ASSUME NEW t \in Runners, PushBack(t)
      PROVE  OfRunner
  BY <1>6 DEF PushBack, PushTask
<1>7. ASSUME NEW t \in Runners, Execute(t)
      PROVE  OfRunner
  BY <1>7 DEF Execute
<1>8. ASSUME NEW w \in Workers, Begin(w) \/ TestRunning(w)
      PROVE  OfRunner
  BY <1>8 DEF Begin, TestRunning
<1>9. ASSUME NEW w \in Workers, LockTake(w)
      PROVE  OfRunner
  BY <1>9 DEF LockTake
<1>10. ASSUME NEW w \in Workers, WaitNotEmpty(w)
       PROVE  OfRunner
  BY <1>10 DEF WaitNotEmpty
<1>11. ASSUME NEW w \in Workers, PopFront(w)
       PROVE  OfRunner
  BY <1>11 DEF PopFront, PopTask
<1>12. ASSUME NEW w \in Workers, TakeNothing(w)
       PROVE  OfRunner
  BY <1>12 DEF TakeNothing
<1>13. ASSUME NEW t \in Threads, SpuriousWakeUp(t)
       PROVE  OfRunner
  BY <1>13 DEF SpuriousWakeUp
<1> HIDE DEF OfRunner
<1>14. QED
  BY <1>1, <1>2, <1>3, <1>4, <1>5, <1>6, <1>7, <1>8, <1>9, <1>10, <1>11, <1>12,
     <1>13, StepCases DEF OwnerStep

LEMMA InitLifecycle == Init => Lifecycle
BY ThreadFacts DEF Init, Lifecycle

LEMMA NextLifecycle == Base /\ Lifecycle /\ [Next]_vars => Lifecycle'
<1> SUFFICES ASSUME Base, Lifecycle, [Next]_vars
             PROVE  Lifecycle'
  OBVIOUS
<1> USE ThreadFacts DEF Base, TypeOK, Lifecycle
<1>1. CASE OfRunner
  BY <1>1 DEF OfRunner
<1>2. CASE Start
  BY <1>2 DEF Start, Go
<1>3. CASE SpawnWorker
  <2>1. /\ spawned + 1 \in Workers /\ spawned' = spawned + 1
        /\ pc[Owner] = "spawn" /\ UNCHANGED <<running, joined>>
    BY <1>3, PoolAssumption DEF SpawnWorker, Workers
  <2>2. PICK o \in {"spawn", "await"}, p \in {"created", "failed"} :
          pc' = [pc EXCEPT ![Owner] = o, ![spawned + 1] = p]
    BY <1>3, <2>1 DEF SpawnWorker
  <2>3. \A w \in Workers : w <= joined => w # spawned + 1
    BY <2>1
  <2>4. QED
    BY <2>1, <2>2, <2>3
<1>4. CASE WorkerStarted \/ FinishStart
  BY <1>4 DEF WorkerStarted, FinishStart, Go
<1>5. CASE CallStop \/ LockStop
  BY <1>5 DEF CallStop, LockStop, Go
<1>6. CASE StopBody
  BY <1>6 DEF StopBody, ClearRunning, Go
<1>7. CASE Join
  <2>1. CASE joined' = joined + 1
    <3>1. pc' = pc /\ pc[joined + 1] = "exited" /\ joined < spawned
      BY <1>7, <2>1 DEF Join
    <3>2. \A w \in Workers : w <= joined' => w <= joined \/ w = joined + 1
      BY <2>1
    <3>3. QED
      BY <1>7, <3>1, <3>2 DEF Join
  <2>2. CASE joined' = joined /\ pc' = [pc EXCEPT ![Owner] = "aborted"]
    BY <1>7, <2>2 DEF Join
  <2>3. \/ joined' = joined + 1
        \/ joined' = joined /\ pc' = [pc EXCEPT ![Owner] = "aborted"]
    BY <1>7 DEF Join
  <2> HIDE DEF Lifecycle
  <2>4. QED
    BY <2>1, <2>2, <2>3
<1>8. CASE FinishStop
  BY <1>8 DEF FinishStop, Go
<1>9. CASE Destroy
  BY <1>9 DEF Destroy
<1>10. QED
  BY <1>1, <1>2, <1>3, <1>4, <1>5, <1>6, <1>7, <1>8, <1>9, RunnerSteps DEF OwnerStep

LEMMA Barrier == Base /\ Lifecycle => StopIsBarrier
<1> SUFFICES ASSUME Base, Lifecycle, pc[Owner] \in {"stopped", "destroyed"},
                    NEW w \in Workers
             PROVE  pc[w] \in {"none", "exited"}
  BY DEF StopIsBarrier
<1>1. w <= joined \/ w > spawned
  BY ThreadFacts DEF Base, TypeOK, Lifecycle
<1>2. QED
  BY <1>1 DEF Base, Created, Lifecycle
-----------------------------------------------------------------------------
(* No wakeup is lost *)

LEMMA SleepersRole ==
  ASSUME Base
  PROVE  waiting["not_empty"] \subseteq Workers /\ waiting["not_full"] \subseteq Runners
BY ThreadFacts DEF Base, TypeOK, Sleepers, Threads, Runners, OwnerPcs, WorkerPcs, RunPcs

LEMMA AwakeFinite ==
  /\ IsFiniteSet(AwakeWorkers) /\ Cardinality(AwakeWorkers) \in Nat
  /\ IsFiniteSet(AwakeWorkers') /\ Cardinality(AwakeWorkers') \in Nat
  /\ IsFiniteSet(AwakeRunners) /\ Cardinality(AwakeRunners) \in Nat
  /\ IsFiniteSet(AwakeRunners') /\ Cardinality(AwakeRunners') \in Nat
BY FiniteThreads, ThreadFacts DEF AwakeWorkers, AwakeRunners

LEMMA NextWorkersWoken ==
  Base /\ Lifecycle /\ NoLostWakeUpOfWorkers /\ [Next]_vars => NoLostWakeUpOfWorkers'
<1> SUFFICES ASSUME Base, Lifecycle, NoLostWakeUpOfWorkers, [Next]_vars
             PROVE  NoLostWakeUpOfWorkers'
  OBVIOUS
<1> USE ThreadFacts DEF Base, TypeOK, Exclusion, Sleepers, Go
<1>a. ASSUME UNCHANGED <<queue, running>>, AwakeWorkers \subseteq AwakeWorkers',
             waiting'["not_empty"] # {} => waiting["not_empty"] # {}
      PROVE  NoLostWakeUpOfWorkers'
  BY <1>a, AwakeFinite, Arrive DEF NoLostWakeUpOfWorkers
<1>1. UNCHANGED vars => NoLostWakeUpOfWorkers'
  BY <1>a DEF vars, AwakeWorkers
<1>2. Start \/ SpawnWorker \/ WorkerStarted \/ FinishStart => NoLostWakeUpOfWorkers'
  <2>1. ASSUME Start
        PROVE  NoLostWakeUpOfWorkers'
    <3>1. waiting["not_empty"] = {}
      BY <2>1 DEF Start, Lifecycle, NoLostWakeUpOfWorkers
    <3>2. QED
      BY <2>1, <3>1 DEF Start, monitor, NoLostWakeUpOfWorkers
  <2>2. ASSUME SpawnWorker
        PROVE  NoLostWakeUpOfWorkers'
    <3>1. /\ spawned + 1 \in Workers /\ pc[spawned + 1] = "none"
          /\ UNCHANGED <<queue, running, waiting>>
      BY <2>2, PoolAssumption DEF SpawnWorker, Workers, Created, monitor
    <3>2. \A w \in Workers : w # spawned + 1 => pc'[w] = pc[w]
      BY <2>2, <3>1 DEF SpawnWorker
    <3>3. QED
      BY <3>1, <3>2, <1>a DEF AwakeWorkers
  <2>3. WorkerStarted \/ FinishStart => NoLostWakeUpOfWorkers'
    BY <1>a DEF WorkerStarted, FinishStart, AwakeWorkers, monitor
  <2>4. QED
    BY <2>1, <2>2, <2>3
<1>3. CallStop \/ LockStop \/ StopBody => NoLostWakeUpOfWorkers'
  <2>1. CallStop \/ LockStop => NoLostWakeUpOfWorkers'
    BY <1>a DEF CallStop, LockStop, AwakeWorkers, monitor
  <2>2. StopBody => NoLostWakeUpOfWorkers'
    BY DEF StopBody, Mon!NotifyAll, NoLostWakeUpOfWorkers
  <2>3. QED
    BY <2>1, <2>2
<1>4. Join \/ FinishStop \/ Destroy => NoLostWakeUpOfWorkers'
  BY <1>a DEF Join, FinishStop, Destroy, AwakeWorkers, monitor
<1>5. ASSUME NEW c \in Callers, NEW x \in Tasks, CallRun(c, x)
      PROVE  NoLostWakeUpOfWorkers'
  BY <1>5, <1>a DEF CallRun, AwakeWorkers, monitor
<1>6. ASSUME NEW t \in Runners, RunTest(t)
      PROVE  NoLostWakeUpOfWorkers'
  BY <1>6, <1>a DEF RunTest, AwakeWorkers, monitor
<1>7. ASSUME NEW t \in Runners, LockRun(t)
      PROVE  NoLostWakeUpOfWorkers'
  BY <1>7, <1>a DEF LockRun, AwakeWorkers
<1>8. ASSUME NEW t \in Runners, WaitNotFull(t)
      PROVE  NoLostWakeUpOfWorkers'
  BY <1>8, <1>a DEF WaitNotFull, Mon!Wait, AwakeWorkers
<1>9. ASSUME NEW t \in Runners, PushBack(t)
      PROVE  NoLostWakeUpOfWorkers'
  <2> SUFFICES ASSUME waiting'["not_empty"] # {}
               PROVE  running' /\ Len(queue') <= Cardinality(AwakeWorkers')
    BY DEF NoLostWakeUpOfWorkers
  <2>1. PICK u \in waiting["not_empty"] :
          waiting' = [waiting EXCEPT !["not_empty"] = @ \ {u}]
    BY <1>9 DEF PushBack, Mon!Notify
  <2>2. AwakeWorkers \subseteq AwakeWorkers' /\ u \in AwakeWorkers' \ AwakeWorkers
    BY <1>9, <2>1, SleepersRole DEF PushBack, PushTask, AwakeWorkers
  <2>3. Cardinality(AwakeWorkers) + 1 <= Cardinality(AwakeWorkers')
    BY <2>2, AwakeFinite, Arrive
  <2>4. running' = running /\ Len(queue') = Len(queue) + 1 /\ Len(queue) \in Nat
    BY <1>9 DEF PushBack, PushTask
  <2>5. QED
    BY <2>1, <2>3, <2>4, AwakeFinite DEF NoLostWakeUpOfWorkers
<1>10. ASSUME NEW t \in Runners, Execute(t)
       PROVE  NoLostWakeUpOfWorkers'
  BY <1>10, <1>a DEF Execute, AwakeWorkers, monitor
<1>11. ASSUME NEW w \in Workers, Begin(w) \/ TestRunning(w)
       PROVE  NoLostWakeUpOfWorkers'
  BY <1>11, <1>a DEF Begin, TestRunning, AwakeWorkers, monitor
<1>12. ASSUME NEW w \in Workers, LockTake(w)
       PROVE  NoLostWakeUpOfWorkers'
  BY <1>12, <1>a DEF LockTake, AwakeWorkers
<1>13. ASSUME NEW w \in Workers, WaitNotEmpty(w)
       PROVE  NoLostWakeUpOfWorkers'
  <2>1. Len(queue') = 0 /\ running'
    BY <1>13 DEF WaitNotEmpty
  <2>2. QED
    BY <2>1, AwakeFinite DEF NoLostWakeUpOfWorkers
<1>14. ASSUME NEW w \in Workers, PopFront(w)
       PROVE  NoLostWakeUpOfWorkers'
  <2>1. /\ AwakeWorkers \ {w} \subseteq AwakeWorkers'
        /\ waiting'["not_empty"] = waiting["not_empty"]
    BY <1>14 DEF PopFront, PopTask, Mon!Notify, AwakeWorkers
  <2>2. Cardinality(AwakeWorkers) - 1 <= Cardinality(AwakeWorkers')
    BY <2>1, AwakeFinite, Leave
  <2>3. running' = running /\ Len(queue') = Len(queue) - 1 /\ Len(queue) \in Nat
    BY <1>14 DEF PopFront, PopTask
  <2>4. QED
    BY <2>1, <2>2, <2>3, AwakeFinite DEF NoLostWakeUpOfWorkers
<1>15. ASSUME NEW w \in Workers, TakeNothing(w)
       PROVE  NoLostWakeUpOfWorkers'
  BY <1>15 DEF TakeNothing, NoLostWakeUpOfWorkers
<1>16. ASSUME NEW t \in Threads, SpuriousWakeUp(t)
       PROVE  NoLostWakeUpOfWorkers'
  <2>1. /\ UNCHANGED <<pc, queue, running>>
        /\ \E c \in {"not_empty", "not_full"} : waiting' = [waiting EXCEPT ![c] = @ \ {t}]
    BY <1>16 DEF SpuriousWakeUp, Mon!WakeUp
  <2>2. waiting'["not_empty"] \subseteq waiting["not_empty"]
    BY <2>1
  <2>3. QED
    BY <2>1, <2>2, <1>a DEF AwakeWorkers
<1> HIDE DEF Base, TypeOK, Exclusion, Sleepers, Go
<1>17. QED
  BY <1>1, <1>2, <1>3, <1>4, <1>5, <1>6, <1>7, <1>8, <1>9, <1>10, <1>11, <1>12,
     <1>13, <1>14, <1>15, <1>16, StepCases

LEMMA NextRunnersWoken ==
  Base /\ NoLostWakeUpOfRunners /\ [Next]_vars => NoLostWakeUpOfRunners'
<1> SUFFICES ASSUME Base, NoLostWakeUpOfRunners, [Next]_vars
             PROVE  NoLostWakeUpOfRunners'
  OBVIOUS
<1> USE ThreadFacts, PoolAssumption DEF Base, TypeOK, Exclusion, Sleepers, Go, Runners
<1>a. ASSUME UNCHANGED queue, AwakeRunners \subseteq AwakeRunners',
             waiting'["not_full"] # {} => waiting["not_full"] # {}
      PROVE  NoLostWakeUpOfRunners'
  BY <1>a, AwakeFinite, Arrive DEF NoLostWakeUpOfRunners
<1>1. UNCHANGED vars => NoLostWakeUpOfRunners'
  BY <1>a DEF vars, AwakeRunners
<1>2. Start \/ SpawnWorker \/ WorkerStarted \/ FinishStart => NoLostWakeUpOfRunners'
  <2>1. ASSUME SpawnWorker
        PROVE  NoLostWakeUpOfRunners'
    <3>1. /\ spawned + 1 \in Workers /\ pc[spawned + 1] = "none" /\ pc[Owner] = "spawn"
          /\ UNCHANGED <<queue, waiting>>
      BY <2>1 DEF SpawnWorker, Workers, Created, monitor
    <3>2. \A t \in Threads : t # Owner /\ t # spawned + 1 => pc'[t] = pc[t]
      BY <2>1, <3>1 DEF SpawnWorker
    <3>3. QED
      BY <3>1, <3>2, <1>a DEF AwakeRunners
  <2>2. Start \/ WorkerStarted \/ FinishStart => NoLostWakeUpOfRunners'
    BY <1>a DEF Start, WorkerStarted, FinishStart, AwakeRunners, monitor
  <2>3. QED
    BY <2>1, <2>2
<1>3. CallStop \/ LockStop \/ StopBody => NoLostWakeUpOfRunners'
  BY <1>a DEF CallStop, LockStop, StopBody, ClearRunning, Mon!NotifyAll, AwakeRunners, monitor
<1>4. Join \/ FinishStop \/ Destroy => NoLostWakeUpOfRunners'
  BY <1>a DEF Join, FinishStop, Destroy, AwakeRunners, monitor
<1>5. ASSUME NEW c \in Callers, NEW x \in Tasks, CallRun(c, x)
      PROVE  NoLostWakeUpOfRunners'
  BY <1>5, <1>a DEF CallRun, AwakeRunners, monitor
<1>6. ASSUME NEW t \in Runners, RunTest(t)
      PROVE  NoLostWakeUpOfRunners'
  BY <1>6, <1>a DEF RunTest, AwakeRunners, monitor
<1>7. ASSUME NEW t \in Runners, LockRun(t)
      PROVE  NoLostWakeUpOfRunners'
  BY <1>7, <1>a DEF LockRun, AwakeRunners
<1>8. ASSUME NEW t \in Runners, WaitNotFull(t)
      PROVE  NoLostWakeUpOfRunners'
  <2>1. MaxQueue - Len(queue') <= 0
    BY <1>8 DEF WaitNotFull, IsFull
  <2>2. QED
    BY <2>1, AwakeFinite DEF NoLostWakeUpOfRunners
<1>9. ASSUME NEW t \in Runners, PushBack(t)
      PROVE  NoLostWakeUpOfRunners'
  <2>1. /\ AwakeRunners \ {t} \subseteq AwakeRunners'
        /\ waiting'["not_full"] = waiting["not_full"]
    BY <1>9 DEF PushBack, PushTask, Mon!Notify, AwakeRunners
  <2>2. Cardinality(AwakeRunners) - 1 <= Cardinality(AwakeRunners')
    BY <2>1, AwakeFinite, Leave
  <2>3. Len(queue') = Len(queue) + 1 /\ Len(queue) \in Nat
    BY <1>9 DEF PushBack, PushTask
  <2>4. QED
    BY <2>1, <2>2, <2>3, AwakeFinite DEF NoLostWakeUpOfRunners
<1>10. ASSUME NEW t \in Runners, Execute(t)
       PROVE  NoLostWakeUpOfRunners'
  BY <1>10, <1>a DEF Execute, AwakeRunners, monitor
<1>11. ASSUME NEW w \in Workers, Begin(w) \/ TestRunning(w)
       PROVE  NoLostWakeUpOfRunners'
  BY <1>11, <1>a DEF Begin, TestRunning, AwakeRunners, monitor
<1>12. ASSUME NEW w \in Workers, LockTake(w)
       PROVE  NoLostWakeUpOfRunners'
  BY <1>12, <1>a DEF LockTake, AwakeRunners
<1>13. ASSUME NEW w \in Workers, WaitNotEmpty(w)
       PROVE  NoLostWakeUpOfRunners'
  BY <1>13, <1>a DEF WaitNotEmpty, Mon!Wait, AwakeRunners
<1>14. ASSUME NEW w \in Workers, PopFront(w)
       PROVE  NoLostWakeUpOfRunners'
  <2>1. Len(queue') = Len(queue) - 1 /\ Len(queue) \in Nat /\ Len(queue) > 0
    BY <1>14 DEF PopFront, PopTask
  <2>2. CASE MaxQueue = 0
    BY <2>1, <2>2, AwakeFinite DEF NoLostWakeUpOfRunners
  <2>3. CASE waiting'["not_full"] # {} /\ MaxQueue > 0
    <3>1. PICK u \in waiting["not_full"] :
            waiting' = [waiting EXCEPT !["not_full"] = @ \ {u}]
      BY <1>14, <2>3 DEF PopFront, Mon!Notify
    <3>2. AwakeRunners \subseteq AwakeRunners' /\ u \in AwakeRunners' \ AwakeRunners
      BY <1>14, <3>1, SleepersRole DEF PopFront, PopTask, AwakeRunners
    <3>3. Cardinality(AwakeRunners) + 1 <= Cardinality(AwakeRunners')
      BY <3>2, AwakeFinite, Arrive
    <3>4. QED
      BY <2>1, <3>1, <3>3, AwakeFinite DEF NoLostWakeUpOfRunners
  <2>4. QED
    BY <2>2, <2>3 DEF NoLostWakeUpOfRunners
<1>15. ASSUME NEW w \in Workers, TakeNothing(w)
       PROVE  NoLostWakeUpOfRunners'
  BY <1>15, <1>a DEF TakeNothing, AwakeRunners
<1>16. ASSUME NEW t \in Threads, SpuriousWakeUp(t)
       PROVE  NoLostWakeUpOfRunners'
  <2>1. /\ UNCHANGED <<pc, queue>>
        /\ \E c \in {"not_empty", "not_full"} : waiting' = [waiting EXCEPT ![c] = @ \ {t}]
    BY <1>16 DEF SpuriousWakeUp, Mon!WakeUp
  <2>2. waiting'["not_full"] \subseteq waiting["not_full"]
    BY <2>1
  <2>3. QED
    BY <2>1, <2>2, <1>a DEF AwakeRunners
<1> HIDE DEF Base, TypeOK, Exclusion, Sleepers, Go, Runners
<1>17. QED
  BY <1>1, <1>2, <1>3, <1>4, <1>5, <1>6, <1>7, <1>8, <1>9, <1>10, <1>11, <1>12,
     <1>13, <1>14, <1>15, <1>16, StepCases
-----------------------------------------------------------------------------
(* Each task is in one place *)

InHands(x) == Cardinality(Where(Threads, task, x))
InQueue(x) == Cardinality(Places(queue, x))

(* A task passes its child to Run after it was executed itself. *)
ChildAfterParent == \A y \in Tasks : Child[y] \in submitted => ran[y] >= 1

OnePlace(x) == ran[x] + InHands(x) + InQueue(x) = IF x \in submitted THEN 1 ELSE 0

LEMMA Counted ==
  /\ Base => \A x \in Tasks : InHands(x) \in Nat /\ InQueue(x) \in Nat /\ ran[x] \in Nat
  /\ EachTaskOnce <=> \A x \in Tasks : OnePlace(x)
  /\ EachTaskOnce' <=> \A x \in Tasks : OnePlace(x)'
<1>1. ASSUME NEW x \in Tasks
      PROVE  InHands(x) \in Nat
  <2>1. Where(Threads, task, x) \in SUBSET Threads
    BY DEF Where
  <2>2. QED
    BY <2>1, FiniteThreads DEF InHands
<1>2. ASSUME Base, NEW x \in Tasks
      PROVE  InQueue(x) \in Nat /\ ran[x] \in Nat
  <2>1. queue \in Seq(Tasks) /\ ran[x] \in Nat
    BY <1>2 DEF Base, TypeOK
  <2>2. QED
    BY <2>1, FinitePlaces DEF InQueue
<1>3. QED
  BY <1>1, <1>2 DEF EachTaskOnce, OnePlace, InHands, InQueue, Places, Where

(* A thread exchanges what it has in its hands. *)
LEMMA HandsCount ==
  ASSUME NEW t \in Threads, NEW x, \A u \in Threads : u # t => task'[u] = task[u]
  PROVE  InHands(x)' = InHands(x) - Hit(task[t], x) + Hit(task'[t], x)
<1>1. IsFiniteSet(Threads)
  BY FiniteThreads
<1>2. Cardinality(Where(Threads, task', x))
          = Cardinality(Where(Threads, task, x)) - Hit(task[t], x) + Hit(task'[t], x)
  BY <1>1, CountExcept
<1>3. QED
  BY <1>2 DEF InHands

LEMMA HandsChange ==
  ASSUME Base, NEW t \in Threads, NEW y, task' = [task EXCEPT ![t] = y]
  PROVE  \A x \in Tasks : InHands(x)' = InHands(x) - Hit(task[t], x) + Hit(y, x)
<1>1. task'[t] = y /\ \A u \in Threads : u # t => task'[u] = task[u]
  BY DEF Base, TypeOK
<1>2. QED
  BY <1>1, HandsCount

(* Only these steps touch a task. *)
LEMMA TaskSteps ==
  ASSUME Base, [Next]_vars
  PROVE  \/ UNCHANGED <<task, queue, submitted, ran>>
         \/ \E c \in Callers, x \in Tasks : CallRun(c, x)
         \/ \E t \in Runners : PushBack(t) \/ Execute(t)
         \/ \E w \in Workers : PopFront(w)
<1> DEFINE Same == UNCHANGED <<task, queue, submitted, ran>>
           Touch == \/ \E c \in Callers, x \in Tasks : CallRun(c, x)
                    \/ \E t \in Runners : PushBack(t) \/ Execute(t)
                    \/ \E w \in Workers : PopFront(w)
<1>1. UNCHANGED vars => Same
  BY DEF vars
<1>2. Start \/ SpawnWorker \/ WorkerStarted \/ FinishStart => Same
  BY DEF Start, SpawnWorker, WorkerStarted, FinishStart, history
<1>3. CallStop \/ LockStop \/ StopBody => Same
  BY DEF CallStop, LockStop, StopBody, ClearRunning, history
<1>4. Join \/ FinishStop \/ Destroy => Same
  BY DEF Join, FinishStop, Destroy, history
<1>5. \A t \in Runners : RunTest(t) => Same
  BY DEF RunTest, history
<1>6. \A t \in Runners : LockRun(t) => Same
  BY DEF LockRun, history
<1>7. \A t \in Runners : WaitNotFull(t) => Same
  BY DEF WaitNotFull, history
<1>8. \A w \in Workers : Begin(w) \/ TestRunning(w) => Same
  BY DEF Begin, TestRunning, history
<1>9. \A w \in Workers : LockTake(w) => Same
  BY DEF LockTake, history
<1>10. \A w \in Workers : WaitNotEmpty(w) => Same
  BY DEF WaitNotEmpty, history
<1>11. \A w \in Workers : TakeNothing(w) => Same
  BY DEF TakeNothing, history
<1>12. \A t \in Threads : SpuriousWakeUp(t) => Same
  BY DEF SpuriousWakeUp, history
<1>13. \A c \in Callers, x \in Tasks : CallRun(c, x) => Touch
  OBVIOUS
<1>14. \A t \in Runners : PushBack(t) \/ Execute(t) => Touch
  OBVIOUS
<1>15. \A w \in Workers : PopFront(w) => Touch
  OBVIOUS
<1> HIDE DEF Same, Touch
<1>16. Same \/ Touch
  BY <1>1, <1>2, <1>3, <1>4, <1>5, <1>6, <1>7, <1>8, <1>9, <1>10, <1>11, <1>12,
     <1>13, <1>14, <1>15, StepCases
<1>17. QED
  BY <1>16 DEF Same, Touch

Once == EachTaskOnce /\ ChildAfterParent

LEMMA CallRunOnce ==
  ASSUME Base, Once, NEW c \in Callers, NEW x \in Tasks, CallRun(c, x)
  PROVE  Once'
<1>1. /\ task[c] = NoTask /\ NoTask \notin Tasks /\ c \in Threads
      /\ x \notin submitted /\ submitted' = submitted \cup {x}
      /\ task' = [task EXCEPT ![c] = x]
      /\ UNCHANGED <<queue, ran>>
  BY ThreadFacts, PoolAssumption DEF CallRun, Go, Base, TypeOK, RunPcs
<1>2. \A z \in Tasks : InHands(z)' = InHands(z) + Hit(x, z) /\ InQueue(z)' = InQueue(z)
  <2>1. \A z \in Tasks : InHands(z)' = InHands(z) - Hit(task[c], z) + Hit(x, z)
    BY <1>1, HandsChange
  <2>2. QED
    BY <1>1, <2>1, Counted DEF InQueue, Hit
<1>3. ASSUME NEW z \in Tasks
      PROVE  OnePlace(z)'
  BY <1>1, <1>2, Counted DEF Once, OnePlace, Hit
<1>4. EachTaskOnce'
  BY <1>3, Counted
<1>5. ChildAfterParent'
  BY <1>1 DEF Once, ChildAfterParent, CallRun
<1>6. QED
  BY <1>4, <1>5 DEF Once

LEMMA PushBackOnce ==
  ASSUME Base, Once, NEW t \in Runners, PushBack(t)
  PROVE  Once'
<1>1. /\ t \in Threads /\ task[t] \in Tasks /\ NoTask \notin Tasks
      /\ task' = [task EXCEPT ![t] = NoTask]
      /\ queue \in Seq(Tasks) /\ queue' = Append(queue, task[t])
      /\ UNCHANGED <<submitted, ran>>
  BY ThreadFacts, PoolAssumption DEF PushBack, PushTask, Go, Base, TypeOK, RunPcs, history
<1>2. \A z \in Tasks : InHands(z)' = InHands(z) - Hit(task[t], z) + Hit(NoTask, z)
  BY <1>1, HandsChange
<1>3. \A z \in Tasks : InQueue(z)' = InQueue(z) + Hit(task[t], z)
  BY <1>1, CountAppend DEF InQueue
<1>4. ASSUME NEW z \in Tasks
      PROVE  OnePlace(z)'
  <2>1. /\ InHands(z) \in Nat /\ InQueue(z) \in Nat /\ ran[z] \in Nat
        /\ ran[z] + InHands(z) + InQueue(z) = IF z \in submitted THEN 1 ELSE 0
    BY Counted DEF Once, OnePlace
  <2>2. UNCHANGED <<submitted, ran>> /\ InHands(z)' + InQueue(z)' = InHands(z) + InQueue(z)
    BY <1>1, <1>2, <1>3, <2>1 DEF Hit
  <2>3. InHands(z)' \in Int /\ InQueue(z)' \in Int
    BY <1>1, <1>2, <1>3, <2>1 DEF Hit
  <2>4. QED
    BY <2>1, <2>2, <2>3 DEF OnePlace
<1>5. EachTaskOnce'
  BY <1>4, Counted
<1>6. ChildAfterParent'
  BY <1>1 DEF Once, ChildAfterParent
<1>7. QED
  BY <1>5, <1>6 DEF Once

LEMMA PopFrontOnce ==
  ASSUME Base, Once, NEW w \in Workers, PopFront(w)
  PROVE  Once'
<1>1. /\ w \in Threads /\ task[w] = NoTask /\ NoTask \notin Tasks
      /\ task' = [task EXCEPT ![w] = Head(queue)]
      /\ queue \in Seq(Tasks) /\ queue # <<>> /\ queue' = Tail(queue)
      /\ UNCHANGED <<submitted, ran>>
  BY ThreadFacts, PoolAssumption DEF PopFront, PopTask, Go, Base, TypeOK, RunPcs, history
<1>2. \A z \in Tasks : InHands(z)' = InHands(z) - Hit(task[w], z) + Hit(Head(queue), z)
  BY <1>1, HandsChange
<1>3. \A z \in Tasks : InQueue(z)' = InQueue(z) - Hit(Head(queue), z)
  BY <1>1, CountTail DEF InQueue
<1>4. ASSUME NEW z \in Tasks
      PROVE  OnePlace(z)'
  <2>1. /\ InHands(z) \in Nat /\ InQueue(z) \in Nat /\ ran[z] \in Nat
        /\ ran[z] + InHands(z) + InQueue(z) = IF z \in submitted THEN 1 ELSE 0
    BY Counted DEF Once, OnePlace
  <2>2. UNCHANGED <<submitted, ran>> /\ InHands(z)' + InQueue(z)' = InHands(z) + InQueue(z)
    BY <1>1, <1>2, <1>3, <2>1 DEF Hit
  <2>3. InHands(z)' \in Int /\ InQueue(z)' \in Int
    BY <1>1, <1>2, <1>3, <2>1 DEF Hit
  <2>4. QED
    BY <2>1, <2>2, <2>3 DEF OnePlace
<1>5. EachTaskOnce'
  BY <1>4, Counted
<1>6. ChildAfterParent'
  BY <1>1 DEF Once, ChildAfterParent
<1>7. QED
  BY <1>5, <1>6 DEF Once

(* What a thread has in its hands is counted there. *)
LEMMA HeldTask ==
  ASSUME Base, EachTaskOnce, NEW t \in Threads, task[t] \in Tasks
  PROVE  ran[task[t]] = 0 /\ task[t] \in submitted
<1> DEFINE y == task[t]
           S == Where(Threads, task, y)
<1>1. S \in SUBSET Threads /\ t \in S
  BY DEF Where
<1> HIDE DEF S
<1>2. IsFiniteSet(S) /\ Cardinality(S) \in Nat
  BY <1>1, FiniteThreads
<1>3. Cardinality(S) # 0
  BY <1>1, <1>2, FS_EmptySet
<1>4. InHands(y) # 0
  BY <1>3 DEF InHands, S
<1> HIDE DEF y
<1>5. y \in Tasks
  BY DEF y
<1>6. /\ InHands(y) \in Nat /\ InQueue(y) \in Nat /\ ran[y] \in Nat
      /\ ran[y] + InHands(y) + InQueue(y) = IF y \in submitted THEN 1 ELSE 0
  BY <1>5, Counted DEF OnePlace
<1>7. ran[y] = 0 /\ y \in submitted
  BY <1>4, <1>6
<1>8. QED
  BY <1>7 DEF y

LEMMA ExecuteOnce ==
  ASSUME Base, Once, NEW t \in Runners, Execute(t)
  PROVE  Once'
<1> DEFINE y == task[t]
           next == Child[y]
<1>1. /\ t \in Threads /\ y \in Tasks /\ NoTask \notin Tasks
      /\ next \in Tasks \cup {NoTask}
      /\ task' = [task EXCEPT ![t] = next]
      /\ submitted' = submitted \cup ({next} \ {NoTask})
      /\ ran' = [ran EXCEPT ![y] = @ + 1] /\ ran \in [Tasks -> Nat]
      /\ UNCHANGED queue
  BY ThreadFacts, PoolAssumption DEF Execute, Base, TypeOK, RunPcs, Runners
<1>2. ran[y] = 0 /\ y \in submitted
  BY <1>1, HeldTask DEF Once
<1>3. next \notin submitted
  BY <1>1, <1>2 DEF Once, ChildAfterParent
<1>4. \A z \in Tasks : ran'[z] = IF z = y THEN ran[z] + 1 ELSE ran[z]
  BY <1>1
<1>5. \A z \in Tasks : z \in submitted' <=> z \in submitted \/ z = next
  BY <1>1
<1>6. ChildAfterParent'
  <2> SUFFICES ASSUME NEW z \in Tasks, Child[z] \in submitted'
               PROVE  ran'[z] >= 1
    BY DEF ChildAfterParent
  <2>1. ran[z] \in Nat
    BY <1>1
  <2>2. CASE Child[z] \in submitted
    BY <1>4, <2>1, <2>2 DEF Once, ChildAfterParent
  <2>3. CASE Child[z] = next /\ next # NoTask
    BY <1>1, <1>4, <2>1, <2>3, PoolAssumption
  <2>4. QED
    BY <1>1, <2>2, <2>3
<1>7. \A z \in Tasks : InHands(z)' = InHands(z) - Hit(y, z) + Hit(next, z)
  BY <1>1, HandsChange
<1> HIDE DEF y, next
<1>8. \A z \in Tasks : InQueue(z)' = InQueue(z)
  BY <1>1 DEF InQueue
<1>9. ASSUME NEW z \in Tasks
      PROVE  OnePlace(z)'
  <2>1. /\ InHands(z) \in Nat /\ InQueue(z) \in Nat /\ ran[z] \in Nat
        /\ ran[z] + InHands(z) + InQueue(z) = IF z \in submitted THEN 1 ELSE 0
    BY Counted DEF Once, OnePlace
  <2>2. CASE z = y
    BY <1>1, <1>2, <1>3, <1>4, <1>5, <1>7, <1>8, <2>1, <2>2 DEF OnePlace, Hit
  <2>3. CASE z # y
    BY <1>1, <1>3, <1>4, <1>5, <1>7, <1>8, <2>1, <2>3 DEF OnePlace, Hit
  <2>4. QED
    BY <2>2, <2>3
<1>10. EachTaskOnce'
  BY <1>9, Counted
<1>11. QED
  BY <1>6, <1>10 DEF Once

LEMMA NextOnce == Base /\ Once /\ [Next]_vars => Once'
<1> SUFFICES ASSUME Base, Once, [Next]_vars
             PROVE  Once'
  OBVIOUS
<1>1. CASE UNCHANGED <<task, queue, submitted, ran>>
  BY <1>1 DEF Once, EachTaskOnce, ChildAfterParent
<1>2. QED
  BY <1>1, TaskSteps, CallRunOnce, PushBackOnce, PopFrontOnce, ExecuteOnce

LEMMA InitOnce == Init => Once
<1> SUFFICES ASSUME Init
             PROVE  Once
  OBVIOUS
<1>1. ASSUME NEW x \in Tasks
      PROVE  OnePlace(x)
  <2>1. Where(Threads, task, x) = {} /\ Places(queue, x) = {}
    BY PoolAssumption DEF Init, Where, Places
  <2>2. ran[x] = 0 /\ x \notin submitted
    BY DEF Init
  <2>3. QED
    BY <2>1, <2>2, FS_EmptySet DEF OnePlace, InHands, InQueue
<1>2. ChildAfterParent
  BY DEF Init, ChildAfterParent
<1>3. QED
  BY <1>1, <1>2, Counted DEF Once
-----------------------------------------------------------------------------
IInv == Base /\ Lifecycle /\ NoLostWakeUpOfWorkers /\ NoLostWakeUpOfRunners /\ Once

(* The invariant holds initially and is preserved by every step. *)
LEMMA InitIInv == Init => IInv
<1>1. Init => NoLostWakeUpOfWorkers /\ NoLostWakeUpOfRunners
  BY DEF Init, Mon!Init, NoLostWakeUpOfWorkers, NoLostWakeUpOfRunners
<1>2. QED
  BY <1>1, InitBase, InitLifecycle, InitOnce DEF IInv

LEMMA NextIInv == IInv /\ [Next]_vars => IInv'
BY NextBase, NextLifecycle, NextWorkersWoken, NextRunnersWoken, NextOnce DEF IInv

(* The pool keeps its invariant: exclusion, the life cycle of the workers, *)
(* the wakeups, and the place of every task.                               *)
THEOREM PoolInvariant == Spec => []IInv
BY InitIInv, NextIInv, PTL DEF Spec

(* The variables keep their types, a thread has a task in its hands exactly *)
(* while it is in Run or executes one, and the queue keeps its limit.       *)
THEOREM TypeCorrect == Spec => []TypeOK
<1>1. IInv => TypeOK
  BY DEF IInv, Base
<1>2. QED
  BY <1>1, PoolInvariant, PTL

(* Once Stop has returned, no worker that was created is inside the pool,  *)
(* whatever tasks were queued or running when it was called.               *)
THEOREM StoppedPoolIsUnused == Spec => []StopIsBarrier
<1>1. IInv => StopIsBarrier
  BY Barrier DEF IInv
<1>2. QED
  BY <1>1, PoolInvariant, PTL

(* No worker sleeps while a task waits for it or through Stop, and no     *)
(* thread sleeps in Run beside room that nobody is about to use: one       *)
(* Notify per task or place and the NotifyAll of Stop are enough.          *)
THEOREM SleepersAreWoken == Spec => []NoLostWakeUp
<1>1. IInv => NoLostWakeUp
  BY DEF IInv, NoLostWakeUp
<1>2. QED
  BY <1>1, PoolInvariant, PTL

(* Every task passed to Run, by a caller or by a task, is in the hands of  *)
(* one thread, or in the queue, or was executed: never twice, never lost.  *)
THEOREM TasksRunOnce == Spec => []EachTaskOnce
<1>1. IInv => EachTaskOnce
  BY DEF IInv, Once
<1>2. QED
  BY <1>1, PoolInvariant, PTL
=============================================================================
