------------------------- MODULE BlockingQueueTest -------------------------
(***************************************************************************)
(* The program of src/test/blockingqueue/BlockingQueue_test.cc: Main       *)
(* starts the workers, waits until all have counted the latch down, puts   *)
(* its messages and one "stop" for each worker, and joins them.  A worker  *)
(* takes items until it takes a "stop".                                    *)
(*                                                                         *)
(* The latch takes every step of module CountDownLatch, the queue those of *)
(* BlockingQueue.  Of a Thread, Start and Join are steps (module Thread),  *)
(* and pthread_create does not fail.                                       *)
(***************************************************************************)
EXTENDS Naturals, Sequences, FiniteSets

CONSTANTS
  NumWorkers,   \* numThreads
  Messages,     \* what run puts, in order
  Main,         \* the main thread
  StopItem,     \* "stop"
  NoThread, NoItem

Workers == 1 .. NumWorkers
Threads == Workers \cup {Main}

(* Without a worker nobody would take what joinAll leaves; main has five.  *)
ASSUME ProgramAssumption ==
  /\ NumWorkers \in Nat \ {0}
  /\ Messages \in Seq({Messages[i] : i \in DOMAIN Messages})
  /\ Main \notin Workers /\ NoThread \notin Threads
  /\ StopItem \notin {Messages[i] : i \in DOMAIN Messages}
  /\ \A i, j \in DOMAIN Messages : Messages[i] = Messages[j] => i = j

VARIABLES
  line,         \* where each thread is in the program
  puts,         \* how many items Main has passed to Put
  handled,      \* history: the items taken, in the order workers handle them
  at, hand, queue, holder, waiting,                   \* queue_
  in_, count_, pc, cond, mutex_, holder_, asleep      \* latch_

programVars == <<line, puts, handled>>
queueVars == <<at, hand, queue, holder, waiting>>
latchVars == <<in_, count_, pc, cond, mutex_, holder_, asleep>>
vars == <<programVars, queueVars, latchVars>>

Q == INSTANCE BlockingQueue
L == INSTANCE CountDownLatch

Init ==
  /\ line = [t \in Threads |-> IF t = Main THEN "construct" ELSE "none"]
  /\ puts = 0
  /\ handled = <<>>
  /\ Q!InitQueue
  /\ L!InitLatch(NumWorkers)

Items == Messages \o [w \in Workers |-> StopItem]
-----------------------------------------------------------------------------
Goes(t, from, to) == line[t] = from /\ line' = [line EXCEPT ![t] = to]

StartThread ==
  /\ line[Main] = "construct"
  /\ \E w \in Workers :
       /\ \A v \in 1 .. w - 1 : line[v] # "none"
       /\ Goes(w, "none", "started")
  /\ UNCHANGED <<puts, handled, queueVars, latchVars>>

CallLatchWait ==
  /\ \A w \in Workers : line[w] # "none"
  /\ Goes(Main, "construct", "wait")
  /\ L!CallWait(Main)
  /\ UNCHANGED <<puts, handled, queueVars>>

LatchOpens ==
  /\ in_[Main] = "none"
  /\ Goes(Main, "wait", "put")
  /\ UNCHANGED <<puts, handled, queueVars, latchVars>>

(* The loops of run and of joinAll. *)
PutNext ==
  /\ line[Main] = "put" /\ puts < Len(Items)
  /\ Q!CallPut(Main, Items[puts + 1])
  /\ puts' = puts + 1
  /\ UNCHANGED <<line, handled, latchVars>>

JoinAll ==
  /\ puts = Len(Items) /\ at[Main] = "none"
  /\ \A w \in Workers : line[w] = "stopped"
  /\ Goes(Main, "put", "joined")
  /\ UNCHANGED <<puts, handled, queueVars, latchVars>>

(* threadFunc *)
CountDown(w) ==
  /\ Goes(w, "started", "count")
  /\ L!CallCountDown(w)
  /\ UNCHANGED <<puts, handled, queueVars>>

TakeFirst(w) ==
  /\ in_[w] = "none"
  /\ Goes(w, "count", "take")
  /\ Q!CallTake(w)
  /\ UNCHANGED <<puts, handled, latchVars>>

Handle(w) ==
  /\ line[w] = "take" /\ at[w] = "none"
  /\ handled' = Append(handled, hand[w])
  /\ \/ hand[w] = StopItem /\ Goes(w, "take", "stopped") /\ UNCHANGED queueVars
     \/ hand[w] # StopItem /\ Q!CallTake(w) /\ UNCHANGED line
  /\ UNCHANGED <<puts, latchVars>>

MainStep == StartThread \/ CallLatchWait \/ LatchOpens \/ PutNext \/ JoinAll

WorkerStep(w) == CountDown(w) \/ TakeFirst(w) \/ Handle(w)

InQueue(t) == Q!Step(t) /\ UNCHANGED <<programVars, latchVars>>
InLatch(t) == L!Step(t) /\ UNCHANGED <<programVars, queueVars>>

SpuriousWakeUp(t) ==
  \/ Q!WakeUp(t) /\ UNCHANGED <<programVars, latchVars>>
  \/ L!WakeUp(t) /\ UNCHANGED <<programVars, queueVars>>

ThreadStep(t) == InQueue(t) \/ InLatch(t) \/ (t = Main /\ MainStep) \/ (t \in Workers /\ WorkerStep(t))

Next == \E t \in Threads : ThreadStep(t) \/ SpuriousWakeUp(t)

Spec == Init /\ [][Next]_vars

(* No thread is suspended for ever, and spurious wakeups end. *)
FairSpec ==
  /\ Spec
  /\ \A t \in Threads : WF_vars(ThreadStep(t))
  /\ <>[][~ \E t \in Threads : SpuriousWakeUp(t)]_vars
-----------------------------------------------------------------------------
Uncounted == {w \in Workers : line[w] \in {"none", "started"} \/ in_[w] = "CountDown"}

(* Every variable has its type, count_ is the number of workers that have  *)
(* not counted down, and Main puts nothing before they all have.           *)
TypeOK ==
  /\ line \in [Threads -> {"none", "construct", "wait", "put", "joined",
                           "started", "count", "take", "stopped"}]
  /\ puts \in 0 .. Len(Items)
  /\ handled \in Seq({Items[i] : i \in DOMAIN Items})
  /\ hand \in [Threads -> {Items[i] : i \in DOMAIN Items} \cup {NoItem}]
  /\ at \in [Threads -> {"none", "put", "putting", "take", "taking"}]
  /\ queue \in Seq({Items[i] : i \in DOMAIN Items})
  /\ holder \in Threads \cup {NoThread}
  /\ waiting["not_empty"] \subseteq {w \in Workers : at[w] = "take"}
  /\ count_ = Cardinality(Uncounted)
  /\ puts > 0 => Uncounted = {}

(* The threads with item x in their hands: Main in its Put, and a worker   *)
(* that has taken it.                                                      *)
Hands(x) ==
  {t \in Threads : hand[t] = x /\
     \/ at[t] \in {"put", "putting"}
     \/ t \in Workers /\ line[t] = "take" /\ at[t] = "none"}

(* Each item put is in one place, in the queue, in the hands of a thread,  *)
(* or handled; the stops are taken after all messages, so that a worker    *)
(* that stops leaves none to the others; and joinAll leaves nothing.       *)
EachHandledOnce ==
  /\ \A x \in {Items[i] : i \in DOMAIN Items} :
       Cardinality({i \in 1 .. puts : Items[i] = x})
       = Cardinality({i \in DOMAIN queue : queue[i] = x}) + Cardinality(Hands(x))
         + Cardinality({i \in DOMAIN handled : handled[i] = x})
  /\ (\E w \in Workers : line[w] = "stopped") => \A i \in DOMAIN queue : queue[i] = StopItem
  /\ line[Main] = "joined" => queue = <<>>

(* The program ends: the latch opens, no worker sleeps beside an item, and *)
(* each takes a stop.                                                      *)
ProgramEnds == <>(line[Main] = "joined")
=============================================================================
