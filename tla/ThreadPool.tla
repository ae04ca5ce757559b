----------------------------- MODULE ThreadPool -----------------------------
(***************************************************************************)
(* qingyi::ThreadPool (src/qingyi/util/thread_pool_.h, thread_pool_.cc).   *)
(*                                                                         *)
(* Owner constructs, starts, stops and destroys the pool, Callers call     *)
(* Run, and a task may call Run itself as its last act, on the worker that *)
(* executes it.  Workers 1 .. NumThreads are the elements of threads_ in   *)
(* the order of their creation.                                            *)
(*                                                                         *)
(* As in BoundedBlockingQueue, a thread that wants the mutex, or that      *)
(* sleeps in a Wait, is outside ("take", "offer", "stop") and then, with   *)
(* the mutex, at the head of the loop that tests the queue ("taking",      *)
(* "offering", "stopping").  The two reads made without the mutex, of      *)
(* running_ in RunInThread and of threads_ in Run, are steps of their own. *)
(***************************************************************************)
EXTENDS Naturals, Sequences, FiniteSets

CONSTANTS
  NumThreads,     \* the argument of Start
  Callers,        \* threads outside the pool that call Run
  Owner,          \* the thread that starts and stops the pool
  Tasks,          \* the tasks, each of them run at most once
  Child,          \* Child[x] is the task x passes to Run, or NoTask
  MaxQueue,       \* max_queue_size_, 0 for no limit
  CreateMayFail,  \* whether pthread_create may fail
  NoThread,       \* holder_ = 0
  NoTask          \* an empty std::function

Workers == 1 .. NumThreads
Threads == Workers \cup Callers \cup {Owner}

ASSUME PoolAssumption ==
  /\ NumThreads \in Nat /\ MaxQueue \in Nat
  /\ CreateMayFail \in BOOLEAN
  /\ Owner \notin Callers /\ NoThread \notin Threads
  /\ Workers \cap (Callers \cup {Owner}) = {}
  /\ IsFiniteSet(Callers)
  /\ NoTask \notin Tasks
  /\ Child \in [Tasks -> Tasks \cup {NoTask}]
  /\ \A x, y \in Tasks : Child[x] = Child[y] /\ x # y => Child[x] = NoTask

VARIABLES
  pc,         \* where each thread is
  task,       \* the task in the hands of a thread: its argument of Run, or what it executes
  queue,      \* queue_
  running,    \* running_
  spawned,    \* threads_.size()
  joined,     \* how many elements of threads_ Stop has joined
  holder,     \* the monitor of mutex_, not_empty_ and not_full_
  waiting,
  submitted,  \* history: the tasks passed to Run
  ran         \* history: how often each task was executed

vars == <<pc, task, queue, running, spawned, joined, holder, waiting, submitted, ran>>

Mon == INSTANCE Monitor WITH Conds <- {"not_empty", "not_full"}

Init ==
  /\ Mon!Init
  /\ pc = [t \in Threads |-> CASE t = Owner -> "new" [] t \in Workers -> "none" [] OTHER -> "idle"]
  /\ task = [t \in Threads |-> NoTask]
  /\ queue = <<>>
  /\ running = FALSE
  /\ spawned = 0
  /\ joined = 0
  /\ submitted = {}
  /\ ran = [x \in Tasks |-> 0]

Go(t, from, to) == pc[t] = from /\ pc' = [pc EXCEPT ![t] = to]

monitor == <<holder, waiting>>
history == <<submitted, ran>>
-----------------------------------------------------------------------------
(* ThreadPool::Start *)

Start ==
  /\ Go(Owner, "new", "spawn")
  /\ running' = TRUE
  /\ UNCHANGED <<task, queue, spawned, joined, monitor, history>>

(* emplace_back and Thread::Start, up to the wait for the new thread: the  *)
(* vector has the element even when pthread_create fails.                  *)
SpawnWorker ==
  /\ pc[Owner] = "spawn"
  /\ spawned < NumThreads
  /\ spawned' = spawned + 1
  /\ \/ pc' = [pc EXCEPT ![Owner] = "await", ![spawned + 1] = "created"]
     \/ CreateMayFail /\ pc' = [pc EXCEPT ![spawned + 1] = "failed"]
  /\ UNCHANGED <<task, queue, running, joined, monitor, history>>

(* Thread::Start returns once the new thread has counted the latch down. *)
WorkerStarted ==
  /\ Go(Owner, "await", "spawn")
  /\ pc[spawned] # "created"
  /\ UNCHANGED <<task, queue, running, spawned, joined, monitor, history>>

FinishStart ==
  /\ spawned = NumThreads
  /\ Go(Owner, "spawn", "started")
  /\ UNCHANGED <<task, queue, running, spawned, joined, monitor, history>>
-----------------------------------------------------------------------------
(* ThreadPool::Stop and ~ThreadPool *)

CallStop ==
  /\ Go(Owner, "started", "stop")
  /\ UNCHANGED <<task, queue, running, spawned, joined, monitor, history>>

LockStop ==
  /\ Go(Owner, "stop", "stopping")
  /\ Mon!Lock(Owner)
  /\ UNCHANGED <<task, queue, running, spawned, joined, waiting, history>>

ClearRunning ==
  /\ Go(Owner, "stopping", "join")
  /\ running' = FALSE
  /\ Mon!UnLock(Owner)
  /\ UNCHANGED <<task, queue, spawned, joined, history>>

(* A faulty variant: Stop wakes one of the workers. *)
StopBodyNotifyingOne == ClearRunning /\ Mon!Notify("not_empty")

StopBody == ClearRunning /\ Mon!NotifyAll("not_empty")

(* Thread::Join on the next element of threads_; its assert(started_)      *)
(* fails for a thread that was never created.                              *)
Join ==
  /\ pc[Owner] = "join"
  /\ joined < spawned
  /\ \/ /\ pc[joined + 1] = "exited"
        /\ joined' = joined + 1
        /\ UNCHANGED pc
     \/ /\ pc[joined + 1] = "failed"
        /\ pc' = [pc EXCEPT ![Owner] = "aborted"]
        /\ UNCHANGED joined
  /\ UNCHANGED <<task, queue, running, spawned, monitor, history>>

(* A faulty variant: Stop does not join the last worker. *)
FinishStopEarly ==
  /\ joined + 1 >= spawned
  /\ Go(Owner, "join", "stopped")
  /\ UNCHANGED <<task, queue, running, spawned, joined, monitor, history>>

FinishStop ==
  /\ joined = spawned
  /\ Go(Owner, "join", "stopped")
  /\ UNCHANGED <<task, queue, running, spawned, joined, monitor, history>>

(* The client destroys a pool that no caller is in. *)
Destroy ==
  /\ pc[Owner] \in {"new", "started", "stopped"}
  /\ \A c \in Callers : pc[c] = "idle"
  /\ pc' = [pc EXCEPT ![Owner] = IF running THEN "stop" ELSE "destroyed"]
  /\ UNCHANGED <<task, queue, running, spawned, joined, monitor, history>>
-----------------------------------------------------------------------------
(* ThreadPool::Run, called by a caller or from a task *)

IsFull == MaxQueue > 0 /\ Len(queue) >= MaxQueue

ReturnFromTask(t) == IF t \in Workers THEN "loop" ELSE "idle"

CallRun(c, x) ==
  /\ pc[Owner] # "destroyed"
  /\ x \notin submitted /\ \A y \in Tasks : Child[y] # x
  /\ Go(c, "idle", "run")
  /\ task' = [task EXCEPT ![c] = x]
  /\ submitted' = submitted \cup {x}
  /\ UNCHANGED <<queue, running, spawned, joined, monitor, ran>>

(* threads_.empty() is read without the mutex and compares two pointers;   *)
(* while Start runs, reserve may change one of them before the other, and  *)
(* a vector that has no element yet may be taken for one that has.         *)
RunTest(t) ==
  /\ \/ spawned = 0 /\ Go(t, "run", "execute")
     \/ /\ spawned > 0 \/ (pc[Owner] = "spawn" /\ NumThreads > 0)
        /\ Go(t, "run", "offer")
  /\ UNCHANGED <<task, queue, running, spawned, joined, monitor, history>>

LockRun(t) ==
  /\ Go(t, "offer", "offering")
  /\ Mon!Lock(t)
  /\ UNCHANGED <<task, queue, running, spawned, joined, waiting, history>>

WaitNotFull(t) ==
  /\ IsFull
  /\ Go(t, "offering", "offer")
  /\ Mon!Wait(t, "not_full")
  /\ UNCHANGED <<task, queue, running, spawned, joined, history>>

PushTask(t) ==
  /\ Go(t, "offering", ReturnFromTask(t))
  /\ queue' = Append(queue, task[t])
  /\ task' = [task EXCEPT ![t] = NoTask]
  /\ Mon!UnLock(t)
  /\ UNCHANGED <<running, spawned, joined, history>>

(* Faulty variants: Run does not wait for room; Run notifies not_full_. *)
PushBackAnyway(t) == PushTask(t) /\ Mon!Notify("not_empty")
PushBackNotifyingRunners(t) == ~IsFull /\ PushTask(t) /\ Mon!Notify("not_full")

PushBack(t) == ~IsFull /\ PushTask(t) /\ Mon!Notify("not_empty")

(* The body of a task: task() in RunInThread, t() in Run. *)
Execute(t) ==
  /\ pc[t] = "execute"
  /\ LET next == Child[task[t]] IN
       /\ pc' = [pc EXCEPT ![t] = IF next = NoTask THEN ReturnFromTask(t) ELSE "run"]
       /\ task' = [task EXCEPT ![t] = next]
       /\ submitted' = submitted \cup ({next} \ {NoTask})
  /\ ran' = [ran EXCEPT ![task[t]] = @ + 1]
  /\ UNCHANGED <<queue, running, spawned, joined, monitor>>
-----------------------------------------------------------------------------
(* ThreadPool::RunInThread and Take *)

Begin(w) ==
  /\ Go(w, "created", "loop")
  /\ UNCHANGED <<task, queue, running, spawned, joined, monitor, history>>

TestRunning(w) ==
  /\ Go(w, "loop", IF running THEN "take" ELSE "exited")
  /\ UNCHANGED <<task, queue, running, spawned, joined, monitor, history>>

LockTake(w) ==
  /\ Go(w, "take", "taking")
  /\ Mon!Lock(w)
  /\ UNCHANGED <<task, queue, running, spawned, joined, waiting, history>>

WaitNotEmpty(w) ==
  /\ queue = <<>> /\ running
  /\ Go(w, "taking", "take")
  /\ Mon!Wait(w, "not_empty")
  /\ UNCHANGED <<task, queue, running, spawned, joined, history>>

(* A faulty variant: the task is left in the queue. *)
PopTaskLeavingIt(w) ==
  /\ queue # <<>>
  /\ Go(w, "taking", "execute")
  /\ task' = [task EXCEPT ![w] = Head(queue)]
  /\ Mon!UnLock(w)
  /\ UNCHANGED <<queue, running, spawned, joined, history>>

PopTask(w) ==
  /\ queue # <<>>
  /\ Go(w, "taking", "execute")
  /\ task' = [task EXCEPT ![w] = Head(queue)]
  /\ queue' = Tail(queue)
  /\ Mon!UnLock(w)
  /\ UNCHANGED <<running, spawned, joined, history>>

(* A faulty variant: no runner is notified. *)
PopFrontSilently(w) == PopTask(w) /\ UNCHANGED waiting

PopFront(w) ==
  /\ PopTask(w)
  /\ IF MaxQueue > 0 THEN Mon!Notify("not_full") ELSE UNCHANGED waiting

TakeNothing(w) ==
  /\ queue = <<>> /\ ~running
  /\ Go(w, "taking", "loop")
  /\ Mon!UnLock(w)
  /\ UNCHANGED <<task, queue, running, spawned, joined, waiting, history>>
-----------------------------------------------------------------------------
Run(t) == RunTest(t) \/ LockRun(t) \/ WaitNotFull(t) \/ PushBack(t) \/ Execute(t)

Take(w) == LockTake(w) \/ WaitNotEmpty(w) \/ PopFront(w) \/ TakeNothing(w)

RunInThread(w) == Begin(w) \/ TestRunning(w) \/ Take(w) \/ Run(w)

Starting == SpawnWorker \/ WorkerStarted \/ FinishStart

Stop == LockStop \/ StopBody \/ Join \/ FinishStop

SpuriousWakeUp(t) ==
  /\ Mon!WakeUp(t)
  /\ UNCHANGED <<pc, task, queue, running, spawned, joined, history>>

Step ==
  \/ Start \/ Starting \/ CallStop \/ Stop \/ Destroy
  \/ \E w \in Workers : RunInThread(w)
  \/ \E c \in Callers : Run(c) \/ \E x \in Tasks : CallRun(c, x)
  \/ \E t \in Threads : SpuriousWakeUp(t)

(* A failed assertion ends the process. *)
Next == pc[Owner] # "aborted" /\ Step

Spec == Init /\ [][Next]_vars

(***************************************************************************)
(* A thread inside a function of the pool is not suspended for ever, tasks *)
(* return, and pthread_cond_wait wakes spuriously finitely often.  Nobody  *)
(* has to call Run, Start or Stop or to destroy the pool.                  *)
(***************************************************************************)
Fairness ==
  /\ WF_vars(Starting) /\ WF_vars(Stop)
  /\ \A w \in Workers : WF_vars(RunInThread(w))
  /\ \A c \in Callers : WF_vars(Run(c))
  /\ <>[][~ \E t \in Threads : SpuriousWakeUp(t)]_vars

FairSpec == Spec /\ Fairness
-----------------------------------------------------------------------------
OwnerPcs == {"new", "spawn", "await", "started", "stop", "stopping", "join",
             "stopped", "destroyed", "aborted"}
RunPcs == {"run", "offer", "offering", "execute"}
WorkerPcs == {"none", "created", "failed", "loop", "take", "taking", "exited"} \cup RunPcs

(* Every variable has its type, a thread has a task in its hands while it  *)
(* is in Run or executes one, and the queue keeps max_queue_size_.         *)
TypeOK ==
  /\ pc \in [Threads -> OwnerPcs \cup WorkerPcs \cup {"idle"}]
  /\ pc[Owner] \in OwnerPcs
  /\ \A w \in Workers : pc[w] \in WorkerPcs
  /\ \A c \in Callers : pc[c] \in RunPcs \cup {"idle"}
  /\ task \in [Threads -> Tasks \cup {NoTask}]
  /\ \A t \in Threads : task[t] # NoTask <=> pc[t] \in RunPcs
  /\ queue \in Seq(Tasks) /\ (MaxQueue > 0 => Len(queue) <= MaxQueue)
  /\ running \in BOOLEAN
  /\ spawned \in 0 .. NumThreads /\ joined \in 0 .. spawned
  /\ holder \in Threads \cup {NoThread}
  /\ waiting \in [{"not_empty", "not_full"} -> SUBSET Threads]
  /\ submitted \in SUBSET Tasks
  /\ ran \in [Tasks -> Nat]

(* A task passed to Run is in exactly one place: in the hands of one       *)
(* thread, or once in the queue, or it was executed, once.  Workers that   *)
(* race for the queue, and Stop, neither lose nor repeat one.              *)
EachTaskOnce == \A x \in Tasks :
  ran[x] + Cardinality({t \in Threads : task[t] = x})
         + Cardinality({i \in DOMAIN queue : queue[i] = x})
  = IF x \in submitted THEN 1 ELSE 0

AwakeWorkers == {w \in Workers : pc[w] \in {"take", "taking"}} \ waiting["not_empty"]
AwakeRunners == {t \in Threads : pc[t] \in {"offer", "offering"}} \ waiting["not_full"]

(* No wakeup of a worker is lost: while one sleeps in Take, the pool has   *)
(* not been stopped, and each queued task has a worker on the way to it    *)
(* (Notify at line 67, NotifyAll at line 44).                              *)
NoLostWakeUpOfWorkers ==
  waiting["not_empty"] # {} => running /\ Len(queue) <= Cardinality(AwakeWorkers)

(* While a thread sleeps in Run, each free place in the queue has a thread *)
(* on the way to it, although Take notifies one thread at a time (line 81).*)
NoLostWakeUpOfRunners ==
  waiting["not_full"] # {} => MaxQueue - Len(queue) <= Cardinality(AwakeRunners)

(* No notification of either condition is missed, one at a time as they are. *)
NoLostWakeUp == NoLostWakeUpOfWorkers /\ NoLostWakeUpOfRunners

(* After Stop no worker is inside the pool any more, so nothing the pool   *)
(* owns is used by one of them after the destructor.                       *)
StopIsBarrier ==
  pc[Owner] \in {"stopped", "destroyed"} => \A w \in Workers : pc[w] \in {"none", "exited"}

(* No assertion of the pool or of its threads fails. *)
NoAssertionFails == pc[Owner] # "aborted"

(* Every worker that could be created waits in Run, called from a task,    *)
(* for room in the full queue: from here on nobody takes a task.           *)
Clogged == \A w \in Workers :
  pc[w] = "failed" \/ (IsFull /\ pc[w] \in {"offer", "offering"})

(* Run returns, unless the pool is stopped or clogged (lines 62 to 64 wait *)
(* for room only, and Stop at line 44 does not notify not_full_).          *)
RunReturns == \A c \in Callers :
  pc[c] \in RunPcs ~> (pc[c] = "idle" \/ ~running \/ Clogged)

(* A queued task is executed, unless the pool is stopped or clogged. *)
QueuedTaskRuns == \A x \in Tasks :
  x \in {queue[i] : i \in DOMAIN queue} ~> (ran[x] = 1 \/ ~running \/ Clogged)

(* Stop returns, or fails the assertion of Join for a thread that could    *)
(* not be created, unless a worker stays in Run for ever: Stop notifies    *)
(* not_empty_ only, and Run does not look at running_.                     *)
StopReturns ==
  pc[Owner] = "stop" ~>
    (pc[Owner] \in {"stopped", "aborted"} \/ \E w \in Workers : [](pc[w] \in {"offer", "offering"}))
=============================================================================
