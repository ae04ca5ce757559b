---------------------- MODULE BlockingQueueTest_proofs ----------------------
(***************************************************************************)
(* Proofs about module BlockingQueueTest, for any number of workers and    *)
(* any messages.                                                           *)
(*                                                                         *)
(* The invariant has five parts.  Lines: where each thread is in the       *)
(* program and in the queue.  LatchCounts: who has not counted the latch   *)
(* down, and that Main is behind it only when all have.  InOrder: the      *)
(* queue is what was put last.  StopsTaken: who has taken a stop, so that  *)
(* all messages were taken before.  Accounted: an item is in one place.    *)
(***************************************************************************)
EXTENDS BlockingQueueTest, DataLemmas

AllItems == {Items[i] : i \in DOMAIN Items}

Lines ==
  /\ line \in [Threads -> {"none", "construct", "wait", "put", "joined",
                           "started", "count", "take", "stopped"}]
  /\ line[Main] \in {"construct", "wait", "put", "joined"}
  /\ \A w \in Workers : line[w] \in {"none", "started", "count", "take", "stopped"}
  /\ puts \in 0 .. Len(Items)
  /\ puts > 0 => line[Main] \in {"put", "joined"}
  /\ at \in [Threads -> {"none", "put", "putting", "take", "taking"}]
  /\ at[Main] \in {"none", "put", "putting"}
  /\ at[Main] # "none" => line[Main] = "put" /\ puts > 0 /\ hand[Main] = Items[puts]
  /\ \A w \in Workers : at[w] \in {"none", "take", "taking"} /\ (at[w] # "none" => line[w] = "take")
  /\ hand \in [Threads -> AllItems \cup {NoItem}]
  /\ \A w \in Workers : line[w] = "take" /\ at[w] = "none" => hand[w] \in AllItems
  /\ queue \in Seq(AllItems) /\ handled \in Seq(AllItems)
  /\ holder \in Threads \cup {NoThread}
  /\ waiting \in [{"not_empty"} -> SUBSET {w \in Workers : at[w] = "take"}]

LatchCounts ==
  /\ in_ \in [Threads -> {"none", "Wait", "CountDown", "notify", "return"}]
  /\ in_[Main] # "CountDown"
  /\ \A w \in Workers : in_[w] = "CountDown" => line[w] = "count"
  /\ count_ = Cardinality(Uncounted)
  /\ line[Main] \in {"put", "joined"} \/ (line[Main] = "wait" /\ in_[Main] # "Wait") => count_ <= 0

(* How many items have entered the queue, and left it. *)
Entered == IF at[Main] = "none" THEN puts ELSE puts - 1
Taken == Entered - Len(queue)

InOrder ==
  /\ Len(queue) <= Entered
  /\ \A i \in 1 .. Len(queue) : queue[i] = Items[Taken + i]

HasStop(w) == line[w] = "stopped" \/ (line[w] = "take" /\ at[w] = "none" /\ hand[w] = StopItem)

Stopped == {w \in Workers : line[w] = "stopped"}

StopsTaken ==
  /\ \A w \in Workers : HasStop(w) => Taken >= Len(Messages)
  /\ Cardinality(Places(handled, StopItem)) = Cardinality(Stopped)
  /\ line[Main] = "joined" => queue = <<>>

Accounted ==
  \A x \in AllItems :
    Cardinality(Where(1 .. puts, Items, x))
    = Cardinality(Places(queue, x)) + Cardinality(Hands(x)) + Cardinality(Places(handled, x))

IInv == Lines /\ LatchCounts /\ InOrder /\ StopsTaken /\ Accounted
-----------------------------------------------------------------------------
LEMMA ItemsFacts ==
  /\ Items \in Seq(AllItems)
  /\ Len(Messages) \in Nat /\ Len(Items) = Len(Messages) + NumWorkers
  /\ \A i \in 1 .. Len(Items) : Items[i] = StopItem <=> i > Len(Messages)
<1> DEFINE Stops == [w \in Workers |-> StopItem]
           E == {Messages[i] : i \in DOMAIN Messages} \cup {StopItem}
<1>1. Messages \in Seq(E) /\ Stops \in Seq(E) /\ Len(Stops) = NumWorkers
  BY ProgramAssumption DEF Workers
<1>2. Items = Messages \o Stops
  BY DEF Items
<1>3. /\ Items \in Seq(E) /\ Len(Items) = Len(Messages) + NumWorkers
      /\ \A i \in 1 .. Len(Messages) : Items[i] = Messages[i]
      /\ \A i \in Len(Messages) + 1 .. Len(Messages) + NumWorkers : Items[i] = Stops[i - Len(Messages)]
  BY <1>1, <1>2
<1>4. \A i \in DOMAIN Items : Items[i] \in AllItems
  BY DEF AllItems
<1>5. Items \in Seq(AllItems)
  BY <1>3, <1>4
<1>6. \A i \in 1 .. Len(Messages) : Messages[i] # StopItem
  BY ProgramAssumption
<1>7. \A i \in Len(Messages) + 1 .. Len(Messages) + NumWorkers : Items[i] = StopItem
  BY <1>1, <1>3, ProgramAssumption DEF Workers
<1>. QED
  BY <1>1, <1>3, <1>5, <1>6, <1>7, ProgramAssumption

(* Main is not a worker, and all threads are finitely many. *)
LEMMA ThreadsFacts ==
  /\ Threads = Workers \cup {Main} /\ Main \notin Workers /\ NoThread \notin Threads
  /\ \A S \in SUBSET Threads : IsFiniteSet(S) /\ Cardinality(S) \in Nat
  /\ Cardinality(Workers) = NumWorkers
<1>1. IsFiniteSet(Workers) /\ Cardinality(Workers) = NumWorkers
  BY ProgramAssumption, FS_Interval DEF Workers
<1>2. IsFiniteSet(Threads)
  BY <1>1, FS_AddElement DEF Threads
<1>. QED
  BY <1>1, <1>2, ProgramAssumption, FS_Subset, FS_CardinalityType DEF Threads
-----------------------------------------------------------------------------
(* Lines *)

LEMMA InitLines == Init => Lines
BY ThreadsFacts, ItemsFacts DEF Init, Q!InitQueue, Q!Mon!Init, Lines

LEMMA ProgramLines ==
  ASSUME Lines, NEW t \in Threads, (t = Main /\ MainStep) \/ (t \in Workers /\ WorkerStep(t))
  PROVE  Lines'
<1> USE ThreadsFacts, ItemsFacts DEF Lines, Goes, queueVars
<1>1. CASE StartThread
  BY <1>1 DEF StartThread
<1>2. CASE CallLatchWait
  BY <1>2 DEF CallLatchWait
<1>3. CASE LatchOpens
  BY <1>3 DEF LatchOpens
<1>4. CASE PutNext
  BY <1>4 DEF PutNext, Q!CallPut, Q!Goes, AllItems
<1>5. CASE JoinAll
  BY <1>5 DEF JoinAll
<1>6. CASE t \in Workers /\ CountDown(t)
  BY <1>6 DEF CountDown
<1>7. CASE t \in Workers /\ TakeFirst(t)
  BY <1>7 DEF TakeFirst, Q!CallTake, Q!Goes
<1>8. CASE t \in Workers /\ Handle(t)
  BY <1>8 DEF Handle, Q!CallTake, Q!Goes
<1>. QED
  BY <1>1, <1>2, <1>3, <1>4, <1>5, <1>6, <1>7, <1>8 DEF MainStep, WorkerStep

LEMMA QueueLines ==
  ASSUME Lines, NEW t \in Threads, InQueue(t)
  PROVE  Lines'
<1> USE ThreadsFacts, ItemsFacts DEF Lines, Q!Goes, programVars
<1>1. CASE Q!Lock(t)
  <2>1. /\ t \notin waiting["not_empty"] /\ holder' = t
        /\ UNCHANGED <<line, puts, handled, hand, queue, waiting>>
        /\ \/ at[t] = "put" /\ at' = [at EXCEPT ![t] = "putting"]
           \/ at[t] = "take" /\ at' = [at EXCEPT ![t] = "taking"]
    BY <1>1 DEF InQueue, Q!Lock, Q!Mon!Lock, Q!Mon!Awake
  <2>2. waiting'["not_empty"] \subseteq {w \in Workers : at'[w] = "take"}
    BY <2>1
  <2>3. waiting' \in [{"not_empty"} -> SUBSET {w \in Workers : at'[w] = "take"}]
    BY <2>1, <2>2
  <2>. QED
    BY <2>1, <2>3
<1>2. CASE Q!PushBack(t)
  BY <1>2 DEF InQueue, Q!PushBack, Q!Mon!Notify, Q!Mon!UnLock
<1>3. CASE Q!WaitNotEmpty(t)
  BY <1>3 DEF InQueue, Q!WaitNotEmpty, Q!Mon!Wait, Q!Mon!UnLock
<1>4. CASE Q!PopFront(t)
  BY <1>4 DEF InQueue, Q!PopFront, Q!Mon!UnLock
<1>. QED
  BY <1>1, <1>2, <1>3, <1>4 DEF InQueue, Q!Step

LEMMA LatchLeaves ==
  ASSUME NEW t \in Threads, InLatch(t)
  PROVE  UNCHANGED <<line, puts, handled, at, hand, queue, holder, waiting>>
BY DEF InLatch, programVars, queueVars

LEMMA SpuriousLines ==
  ASSUME Lines, NEW t \in Threads, SpuriousWakeUp(t)
  PROVE  Lines' /\ UNCHANGED <<line, puts, handled, at, hand, queue, in_, count_>>
<1> USE ThreadsFacts, ItemsFacts DEF Lines, programVars, queueVars
<1>1. CASE Q!WakeUp(t) /\ UNCHANGED <<programVars, latchVars>>
  BY <1>1 DEF Q!WakeUp, Q!Mon!WakeUp, latchVars
<1>2. CASE L!WakeUp(t) /\ UNCHANGED <<programVars, queueVars>>
  BY <1>2 DEF L!WakeUp
<1>. QED
  BY <1>1, <1>2 DEF SpuriousWakeUp

LEMMA NextLines == Lines /\ [Next]_vars => Lines'
<1>1. Lines /\ UNCHANGED vars => Lines'
  BY DEF vars, programVars, queueVars, Lines
<1>2. ASSUME Lines, NEW t \in Threads, ThreadStep(t)
      PROVE  Lines'
  <2>1. CASE InQueue(t)
    BY <1>2, <2>1, QueueLines
  <2>2. CASE InLatch(t)
    BY <1>2, <2>2, LatchLeaves DEF Lines
  <2>3. CASE (t = Main /\ MainStep) \/ (t \in Workers /\ WorkerStep(t))
    BY <1>2, <2>3, ProgramLines
  <2>. QED
    BY <1>2, <2>1, <2>2, <2>3 DEF ThreadStep
<1>. QED
  BY <1>1, <1>2, SpuriousLines DEF Next
-----------------------------------------------------------------------------
(* The latch *)

LEMMA InitLatch == Init => LatchCounts
<1> SUFFICES ASSUME Init
             PROVE  LatchCounts
  OBVIOUS
<1> USE ThreadsFacts DEF Init, L!InitLatch
<1>1. Uncounted = Workers
  BY DEF Uncounted
<1>. QED
  BY <1>1 DEF LatchCounts

(* A step that lets the same workers be counted keeps what is true of the  *)
(* latch if Main goes on only behind an open one.                          *)
LEMMA ProgramLatch ==
  ASSUME Lines, LatchCounts, NEW t \in Threads,
         (t = Main /\ MainStep) \/ (t \in Workers /\ WorkerStep(t))
  PROVE  LatchCounts'
<1> USE ThreadsFacts DEF Lines, LatchCounts, Goes, latchVars
<1>0. ASSUME Uncounted' = Uncounted, count_' = count_
      PROVE  count_' = Cardinality(Uncounted')
  BY <1>0
<1>1. CASE StartThread
  <2>1. Uncounted' = Uncounted
    BY <1>1 DEF StartThread, Uncounted
  <2>. QED
    BY <1>0, <1>1, <2>1 DEF StartThread
<1>2. CASE CallLatchWait
  <2>1. Uncounted' = Uncounted
    BY <1>2 DEF CallLatchWait, L!CallWait, Uncounted
  <2>. QED
    BY <1>0, <1>2, <2>1 DEF CallLatchWait, L!CallWait
<1>3. CASE LatchOpens
  <2>1. Uncounted' = Uncounted
    BY <1>3 DEF LatchOpens, Uncounted
  <2>. QED
    BY <1>0, <1>3, <2>1 DEF LatchOpens
<1>4. CASE PutNext
  <2>1. Uncounted' = Uncounted
    BY <1>4 DEF PutNext, Uncounted
  <2>. QED
    BY <1>0, <1>4, <2>1 DEF PutNext
<1>5. CASE JoinAll
  <2>1. Uncounted' = Uncounted
    BY <1>5 DEF JoinAll, Uncounted
  <2>. QED
    BY <1>0, <1>5, <2>1 DEF JoinAll
<1>6. CASE t \in Workers /\ CountDown(t)
  <2>1. Uncounted' = Uncounted
    BY <1>6 DEF CountDown, L!CallCountDown, Uncounted
  <2>. QED
    BY <1>0, <1>6, <2>1 DEF CountDown, L!CallCountDown
<1>7. CASE t \in Workers /\ TakeFirst(t)
  <2>1. Uncounted' = Uncounted
    BY <1>7 DEF TakeFirst, Uncounted
  <2>. QED
    BY <1>0, <1>7, <2>1 DEF TakeFirst
<1>8. CASE t \in Workers /\ Handle(t)
  <2>1. Uncounted' = Uncounted
    BY <1>8 DEF Handle, Uncounted
  <2>. QED
    BY <1>0, <1>8, <2>1 DEF Handle
<1>. QED
  BY <1>1, <1>2, <1>3, <1>4, <1>5, <1>6, <1>7, <1>8 DEF MainStep, WorkerStep

LEMMA StepLatch ==
  ASSUME Lines, LatchCounts, NEW t \in Threads, InLatch(t)
  PROVE  LatchCounts'
<1> USE ThreadsFacts DEF Lines, LatchCounts
<1>0. UNCHANGED line /\ L!Step(t) /\ IsFiniteSet(Uncounted)
  BY DEF InLatch, programVars, Uncounted
<1>1. CASE L!Decrement(t)
  <2>1. /\ in_[t] = "CountDown" /\ t \in Workers /\ line[t] = "count"
        /\ count_' = count_ - 1
        /\ \E to \in {"notify", "return"} : in_' = [in_ EXCEPT ![t] = to]
    BY <1>1 DEF L!Decrement
  <2>2. Uncounted' = Uncounted \ {t} /\ t \in Uncounted
    BY <1>0, <2>1 DEF Uncounted
  <2>3. Cardinality(Uncounted') = Cardinality(Uncounted) - 1
    BY <1>0, <2>2, FS_RemoveElement
  <2>4. count_ \in Int
    BY DEF Uncounted
  <2>. QED
    BY <1>0, <2>1, <2>3, <2>4
<1>2. CASE UNCHANGED <<in_, count_>>
  BY <1>0, <1>2 DEF Uncounted
<1>3. CASE L!LeaveWait(t)
  <2>1. in_[t] = "Wait" /\ count_ <= 0 /\ in_' = [in_ EXCEPT ![t] = "return"] /\ UNCHANGED count_
    BY <1>3 DEF L!LeaveWait
  <2>2. Uncounted' = Uncounted
    BY <1>0, <2>1 DEF Uncounted
  <2>. QED
    BY <1>0, <2>1, <2>2
<1>4. CASE \E from \in {"notify", "return"}, to \in {"return", "none"} :
             in_[t] = from /\ in_' = [in_ EXCEPT ![t] = to] /\ UNCHANGED count_
  <2>1. Uncounted' = Uncounted
    BY <1>0, <1>4 DEF Uncounted
  <2>. QED
    BY <1>0, <1>4, <2>1
<1>5. L!Lock(t) \/ L!Sleep(t) => UNCHANGED <<in_, count_>>
  BY DEF L!Lock, L!Sleep
<1>6. CASE L!UnLock(t)
  BY <1>2, <1>4, <1>6 DEF L!UnLock
<1>7. CASE L!NotifyAll(t)
  BY <1>4, <1>7 DEF L!NotifyAll
<1>. QED
  BY <1>0, <1>1, <1>2, <1>3, <1>5, <1>6, <1>7 DEF L!Step, L!Wait, L!CountDown

LEMMA NextLatch == Lines /\ LatchCounts /\ [Next]_vars => LatchCounts'
<1>1. LatchCounts /\ UNCHANGED vars => LatchCounts'
  BY DEF vars, programVars, latchVars, LatchCounts, Uncounted
<1>2. ASSUME Lines, LatchCounts, NEW t \in Threads, ThreadStep(t)
      PROVE  LatchCounts'
  <2>1. CASE InQueue(t)
    BY <1>2, <2>1 DEF InQueue, programVars, latchVars, LatchCounts, Uncounted
  <2>. QED
    BY <1>2, <2>1, StepLatch, ProgramLatch DEF ThreadStep
<1>3. ASSUME Lines, LatchCounts, NEW t \in Threads, SpuriousWakeUp(t)
      PROVE  LatchCounts'
  BY <1>3, SpuriousLines DEF LatchCounts, Uncounted
<1>. QED
  BY <1>1, <1>2, <1>3 DEF Next

(* Nothing is put before all workers have counted down. *)
LEMMA OpenIsAllCounted ==
  ASSUME Lines, LatchCounts, puts > 0
  PROVE  Uncounted = {}
<1>1. Uncounted \in SUBSET Threads
  BY ThreadsFacts DEF Uncounted
<1>2. IsFiniteSet(Uncounted) /\ Cardinality(Uncounted) \in Nat /\ Cardinality(Uncounted) <= 0
  BY <1>1, ThreadsFacts DEF Lines, LatchCounts
<1>. QED
  BY <1>2, FS_EmptySet
-----------------------------------------------------------------------------
(* The steps that move an item: Main's Put and its push_back, a worker's   *)
(* pop_front, and its next turn of the loop.  The others leave it in place.*)
Moves ==
  \/ PutNext
  \/ Q!PushBack(Main) /\ UNCHANGED programVars
  \/ \E w \in Workers : (Q!PopFront(w) /\ UNCHANGED programVars) \/ Handle(w)

Quiet ==
  /\ UNCHANGED <<puts, queue, handled, Entered, Stopped>>
  /\ \A x : Hands(x)' = Hands(x)
  /\ \A w \in Workers : HasStop(w)' => HasStop(w)

LEMMA QuietIf ==
  ASSUME Lines, NEW t \in Threads, UNCHANGED <<puts, queue, handled, hand>>,
         \A u \in Threads \ {t} : line'[u] = line[u] /\ at'[u] = at[u],
         at[t] \in {"put", "putting"} <=> at'[t] \in {"put", "putting"},
         t = Main => (at[t] = "none" <=> at'[t] = "none"),
         t \in Workers =>
           /\ line[t] = "stopped" <=> line'[t] = "stopped"
           /\ line[t] = "take" /\ at[t] = "none" <=> line'[t] = "take" /\ at'[t] = "none"
  PROVE  Quiet
<1>1. Entered' = Entered
  BY ThreadsFacts DEF Entered
<1>2. Stopped' = Stopped
  BY ThreadsFacts DEF Stopped
<1>3. ASSUME NEW x
      PROVE  Hands(x)' = Hands(x)
  BY ThreadsFacts DEF Hands
<1>4. ASSUME NEW w \in Workers, HasStop(w)'
      PROVE  HasStop(w)
  BY <1>4, ThreadsFacts DEF HasStop
<1>. QED
  BY <1>1, <1>2, <1>3, <1>4 DEF Quiet

LEMMA OthersAreQuiet ==
  ASSUME Lines, [Next]_vars, ~Moves
  PROVE  Quiet
<1> USE ThreadsFacts DEF Lines, Goes, queueVars, programVars
<1>1. CASE UNCHANGED vars
  BY <1>1, QuietIf DEF vars
<1>2. ASSUME NEW t \in Threads, SpuriousWakeUp(t)
      PROVE  Quiet
  BY <1>2, SpuriousLines, QuietIf
<1>3. ASSUME NEW t \in Threads, InLatch(t)
      PROVE  Quiet
  BY <1>3, LatchLeaves, QuietIf
<1>4. ASSUME NEW t \in Threads, InQueue(t)
      PROVE  Quiet
  <2>1. ~Q!PushBack(t) /\ ~Q!PopFront(t)
    BY <1>4 DEF Moves, InQueue, Q!PushBack, Q!PopFront, Q!Goes
  <2>2. CASE Q!Lock(t)
    BY <1>4, <2>2, QuietIf DEF InQueue, Q!Lock, Q!Goes
  <2>3. CASE Q!WaitNotEmpty(t)
    BY <1>4, <2>3, QuietIf DEF InQueue, Q!WaitNotEmpty, Q!Goes
  <2>. QED
    BY <1>4, <2>1, <2>2, <2>3 DEF InQueue, Q!Step
<1>5. ASSUME MainStep
      PROVE  Quiet
  <2>1. CASE StartThread
    <3>1. PICK w \in Workers : line[w] = "none" /\ line' = [line EXCEPT ![w] = "started"]
      BY <2>1 DEF StartThread
    <3>2. UNCHANGED <<puts, queue, handled, hand, at>>
      BY <2>1 DEF StartThread
    <3>3. /\ w \in Threads /\ w # Main /\ at'[w] = at[w]
          /\ \A u \in Threads \ {w} : line'[u] = line[u] /\ at'[u] = at[u]
          /\ line'[w] = "started"
      BY <3>1, <3>2
    <3>. QED
      BY <3>1, <3>2, <3>3, QuietIf
  <2>2. CASE CallLatchWait \/ LatchOpens \/ JoinAll
    <3>1. /\ \A u \in Threads \ {Main} : line'[u] = line[u]
          /\ UNCHANGED <<puts, queue, handled, hand, at>>
      BY <2>2 DEF CallLatchWait, LatchOpens, JoinAll
    <3>2. Main \in Threads /\ Main \notin Workers
      OBVIOUS
    <3>. HIDE DEF Lines
    <3>. QED
      BY <3>1, <3>2, QuietIf
  <2>. QED
    BY <1>5, <2>1, <2>2 DEF MainStep, Moves
<1>6. ASSUME NEW w \in Workers, WorkerStep(w)
      PROVE  Quiet
  <2>1. CASE CountDown(w)
    BY <2>1, QuietIf DEF CountDown
  <2>2. CASE TakeFirst(w)
    BY <2>2, QuietIf DEF TakeFirst, Q!CallTake, Q!Goes
  <2>. QED
    BY <1>6, <2>1, <2>2 DEF WorkerStep, Moves
<1>. QED
  BY <1>1, <1>2, <1>3, <1>4, <1>5, <1>6 DEF Next, ThreadStep

LEMMA PutFacts ==
  ASSUME Lines, PutNext
  PROVE  /\ puts < Len(Items) /\ puts' = puts + 1 /\ Entered' = Entered
         /\ UNCHANGED <<queue, handled, Stopped>> /\ line' = line /\ line[Main] = "put"
         /\ \A x : /\ Main \notin Hands(x)
                   /\ Hands(x)' = IF Items[puts + 1] = x THEN Hands(x) \cup {Main} ELSE Hands(x)
         /\ \A w \in Workers : HasStop(w)' => HasStop(w)
<1> USE ThreadsFacts DEF Lines
<1>1. /\ puts < Len(Items) /\ puts' = puts + 1 /\ line[Main] = "put"
      /\ UNCHANGED <<line, queue, handled>>
      /\ at[Main] = "none" /\ at' = [at EXCEPT ![Main] = "put"]
      /\ hand' = [hand EXCEPT ![Main] = Items[puts + 1]]
  BY DEF PutNext, Q!CallPut, Q!Goes
<1>2. Entered' = Entered
  BY <1>1 DEF Entered
<1>3. Stopped' = Stopped /\ \A w \in Workers : HasStop(w)' => HasStop(w)
  BY <1>1 DEF Stopped, HasStop
<1>4. \A x : /\ Main \notin Hands(x)
             /\ Hands(x)' = IF Items[puts + 1] = x THEN Hands(x) \cup {Main} ELSE Hands(x)
  BY <1>1 DEF Hands
<1>. QED
  BY <1>1, <1>2, <1>3, <1>4

LEMMA PushBackFacts ==
  ASSUME Lines, Q!PushBack(Main), UNCHANGED programVars
  PROVE  /\ puts \in 1 .. Len(Items) /\ puts' = puts /\ Entered = puts - 1 /\ Entered' = puts
         /\ queue' = Append(queue, Items[puts]) /\ Items[puts] \in AllItems
         /\ UNCHANGED <<handled, Stopped>> /\ line' = line /\ line[Main] = "put"
         /\ \A x : /\ Main \in Hands(x) <=> Items[puts] = x
                   /\ Hands(x)' = Hands(x) \ {Main}
         /\ \A w \in Workers : HasStop(w)' => HasStop(w)
<1> USE ThreadsFacts, ItemsFacts DEF Lines
<1>1. /\ puts \in 1 .. Len(Items) /\ hand[Main] = Items[puts] /\ line[Main] = "put"
      /\ UNCHANGED <<line, puts, handled, hand>>
      /\ at[Main] = "putting" /\ at' = [at EXCEPT ![Main] = "none"]
      /\ queue' = Append(queue, Items[puts])
  BY DEF Q!PushBack, Q!Goes, programVars
<1>2. Entered = puts - 1 /\ Entered' = puts /\ Items[puts] \in AllItems
  BY <1>1 DEF Entered
<1>3. Stopped' = Stopped /\ \A w \in Workers : HasStop(w)' => HasStop(w)
  BY <1>1 DEF Stopped, HasStop
<1>4. \A x : (Main \in Hands(x) <=> Items[puts] = x) /\ Hands(x)' = Hands(x) \ {Main}
  BY <1>1 DEF Hands
<1>. QED
  BY <1>1, <1>2, <1>3, <1>4

LEMMA PopFrontFacts ==
  ASSUME Lines, NEW w \in Workers, Q!PopFront(w), UNCHANGED programVars
  PROVE  /\ queue # <<>> /\ queue' = Tail(queue) /\ puts' = puts /\ Entered' = Entered
         /\ UNCHANGED <<handled, Stopped>> /\ line' = line
         /\ \A x : /\ w \notin Hands(x)
                   /\ Hands(x)' = IF Head(queue) = x THEN Hands(x) \cup {w} ELSE Hands(x)
         /\ \A v \in Workers : HasStop(v)' => HasStop(v) \/ Head(queue) = StopItem
<1> USE ThreadsFacts DEF Lines
<1>1. /\ queue # <<>> /\ queue' = Tail(queue)
      /\ UNCHANGED <<line, puts, handled>>
      /\ at[w] = "taking" /\ at' = [at EXCEPT ![w] = "none"] /\ line[w] = "take"
      /\ hand' = [hand EXCEPT ![w] = Head(queue)]
  BY DEF Q!PopFront, Q!Goes, programVars
<1>2. Entered' = Entered
  BY <1>1 DEF Entered
<1>3. Stopped' = Stopped /\ \A v \in Workers : HasStop(v)' => HasStop(v) \/ Head(queue) = StopItem
  BY <1>1 DEF Stopped, HasStop
<1>4. \A x : /\ w \notin Hands(x)
             /\ Hands(x)' = IF Head(queue) = x THEN Hands(x) \cup {w} ELSE Hands(x)
  BY <1>1 DEF Hands
<1>. QED
  BY <1>1, <1>2, <1>3, <1>4

LEMMA HandleFacts ==
  ASSUME Lines, NEW w \in Workers, Handle(w)
  PROVE  /\ UNCHANGED <<queue, puts, Entered>> /\ line'[Main] = line[Main]
         /\ handled' = Append(handled, hand[w]) /\ hand[w] \in AllItems
         /\ w \notin Stopped
         /\ Stopped' = IF hand[w] = StopItem THEN Stopped \cup {w} ELSE Stopped
         /\ \A x : /\ w \in Hands(x) <=> hand[w] = x
                   /\ Hands(x)' = Hands(x) \ {w}
         /\ \A v \in Workers : HasStop(v)' => HasStop(v)
<1> USE ThreadsFacts DEF Lines, Goes
<1>1. /\ UNCHANGED <<queue, puts, hand>>
      /\ line[w] = "take" /\ at[w] = "none" /\ hand[w] \in AllItems
      /\ handled' = Append(handled, hand[w])
      /\ \/ hand[w] = StopItem /\ line' = [line EXCEPT ![w] = "stopped"] /\ UNCHANGED at
         \/ hand[w] # StopItem /\ at' = [at EXCEPT ![w] = "take"] /\ UNCHANGED line
  BY DEF Handle, Q!CallTake, Q!Goes, queueVars
<1>2. Entered' = Entered
  BY <1>1 DEF Entered
<1>3. w \notin Stopped /\ Stopped' = IF hand[w] = StopItem THEN Stopped \cup {w} ELSE Stopped
  BY <1>1 DEF Stopped
<1>4. \A v \in Workers : HasStop(v)' => HasStop(v)
  BY <1>1 DEF HasStop
<1>5. \A x : (w \in Hands(x) <=> hand[w] = x) /\ Hands(x)' = Hands(x) \ {w}
  BY <1>1 DEF Hands
<1>. QED
  BY <1>1, <1>2, <1>3, <1>4, <1>5
-----------------------------------------------------------------------------
(* InOrder *)

LEMMA OrderFacts ==
  ASSUME Lines, InOrder
  PROVE  /\ Entered \in 0 .. Len(Items) /\ Taken \in 0 .. Len(Items) /\ Len(queue) \in Nat
         /\ Entered = Taken + Len(queue)
         /\ queue # <<>> => Len(queue) >= 1 /\ Head(queue) = queue[1] /\ queue[1] = Items[Taken + 1]
<1> USE ItemsFacts, ProgramAssumption DEF Lines
<1>1. Entered \in 0 .. Len(Items) /\ Len(queue) \in Nat /\ Len(Items) \in Nat
  BY DEF Entered
<1>2. Taken \in 0 .. Len(Items) /\ Entered = Taken + Len(queue)
  BY <1>1 DEF Taken, InOrder
<1>. QED
  BY <1>1, <1>2 DEF InOrder

LEMMA NextInOrder ==
  ASSUME Lines, InOrder, [Next]_vars
  PROVE  InOrder'
<1>0. queue \in Seq(AllItems)
  BY DEF Lines
<1>1. CASE UNCHANGED <<queue, Entered>>
  BY <1>1 DEF InOrder, Taken
<1>2. CASE PutNext
  BY <1>1, <1>2, PutFacts
<1>3. CASE Q!PushBack(Main) /\ UNCHANGED programVars
  <2>1. /\ puts \in Nat /\ Entered = puts - 1 /\ Entered' = puts /\ Items[puts] \in AllItems
        /\ queue' = Append(queue, Items[puts])
    BY <1>3, PushBackFacts
  <2>2. /\ Len(queue') = Len(queue) + 1
        /\ \A i \in 1 .. Len(queue) + 1 : queue'[i] = IF i <= Len(queue) THEN queue[i] ELSE Items[puts]
    BY <1>0, <2>1
  <2>3. Taken' = Taken /\ Taken + (Len(queue) + 1) = puts
    BY <2>1, <2>2, OrderFacts DEF Taken
  <2>. QED
    BY <2>1, <2>2, <2>3, OrderFacts DEF InOrder
<1>4. CASE \E w \in Workers : Q!PopFront(w) /\ UNCHANGED programVars
  <2>1. queue # <<>> /\ queue' = Tail(queue) /\ Entered' = Entered
    BY <1>4, PopFrontFacts
  <2>2. Len(queue') = Len(queue) - 1 /\ \A i \in 1 .. Len(queue) - 1 : queue'[i] = queue[i + 1]
    BY <1>0, <2>1
  <2>3. Taken' = Taken + 1
    BY <2>1, <2>2, OrderFacts DEF Taken
  <2>4. ASSUME NEW i \in 1 .. Len(queue')
        PROVE  queue'[i] = Items[Taken' + i]
    <3>1. i + 1 \in 1 .. Len(queue) /\ Taken + (i + 1) = Taken' + i
      BY <2>2, <2>3, OrderFacts
    <3>. QED
      BY <2>2, <3>1, OrderFacts DEF InOrder
  <2>. QED
    BY <2>1, <2>2, <2>4, OrderFacts DEF InOrder
<1>5. CASE \E w \in Workers : Handle(w)
  BY <1>1, <1>5, HandleFacts
<1>. QED
  BY <1>1, <1>2, <1>3, <1>4, <1>5, OthersAreQuiet DEF Moves, Quiet
-----------------------------------------------------------------------------
(* Accounted *)

LEMMA CountPut ==
  ASSUME NEW f, NEW n \in Nat, NEW x
  PROVE  /\ Cardinality(Where(1 .. n, f, x)) \in Nat
         /\ Cardinality(Where(1 .. n + 1, f, x)) = Cardinality(Where(1 .. n, f, x)) + Hit(f[n + 1], x)
<1>1. /\ n + 1 \notin Where(1 .. n, f, x)
      /\ Where(1 .. n + 1, f, x)
           = IF f[n + 1] = x THEN Where(1 .. n, f, x) \cup {n + 1} ELSE Where(1 .. n, f, x)
  BY DEF Where
<1>2. IsFiniteSet(Where(1 .. n, f, x))
  <2>1. IsFiniteSet(1 .. n) /\ Where(1 .. n, f, x) \in SUBSET (1 .. n)
    BY FS_Interval DEF Where
  <2>. QED
    BY <2>1, FS_Subset
<1>. QED
  BY <1>1, <1>2, FS_AddElement, FS_CardinalityType DEF Hit

LEMMA CountHands ==
  ASSUME NEW x
  PROVE  /\ IsFiniteSet(Hands(x)) /\ Cardinality(Hands(x)) \in Nat
         /\ \A t : t \notin Hands(x) => Cardinality(Hands(x) \cup {t}) = Cardinality(Hands(x)) + 1
         /\ \A t : Cardinality(Hands(x) \ {t})
                  = IF t \in Hands(x) THEN Cardinality(Hands(x)) - 1 ELSE Cardinality(Hands(x))
<1>1. Hands(x) \in SUBSET Threads
  BY DEF Hands
<1>2. IsFiniteSet(Hands(x)) /\ Cardinality(Hands(x)) \in Nat
  BY <1>1, ThreadsFacts
<1>. QED
  BY <1>2, FS_AddElement, FS_RemoveElement

LEMMA NextAccounted ==
  ASSUME Lines, Accounted, [Next]_vars
  PROVE  Accounted'
<1> DEFINE Put(x) == Cardinality(Where(1 .. puts, Items, x))
           Queued(x) == Cardinality(Places(queue, x))
           Held(x) == Cardinality(Hands(x))
           Done(x) == Cardinality(Places(handled, x))
<1> SUFFICES ASSUME NEW x \in AllItems
             PROVE  Put(x)' = Queued(x)' + Held(x)' + Done(x)'
  BY DEF Accounted
<1>0. /\ queue \in Seq(AllItems) /\ handled \in Seq(AllItems) /\ puts \in Nat
      /\ Queued(x) \in Nat /\ Held(x) \in Nat /\ Done(x) \in Nat /\ Put(x) \in Nat
      /\ Put(x) = Queued(x) + Held(x) + Done(x)
  BY FinitePlaces, CountHands, CountPut DEF Lines, Accounted
<1>1. CASE Quiet
  BY <1>0, <1>1 DEF Quiet
<1>2. CASE PutNext
  <2>1. Put(x)' = Put(x) + Hit(Items[puts + 1], x)
    BY <1>0, <1>2, PutFacts, CountPut
  <2>2. Held(x)' = Held(x) + Hit(Items[puts + 1], x)
    <3>1. /\ Main \notin Hands(x)
          /\ Hands(x)' = IF Items[puts + 1] = x THEN Hands(x) \cup {Main} ELSE Hands(x)
      BY <1>2, PutFacts
    <3>2. Cardinality(Hands(x) \cup {Main}) = Held(x) + 1
      BY <3>1, CountHands
    <3>. QED
      BY <1>0, <3>1, <3>2 DEF Hit
  <2>3. Queued(x)' = Queued(x) /\ Done(x)' = Done(x)
    BY <1>2, PutFacts
  <2>. QED
    BY <1>0, <2>1, <2>2, <2>3 DEF Hit
<1>3. CASE Q!PushBack(Main) /\ UNCHANGED programVars
  <2>1. Queued(x)' = Queued(x) + Hit(Items[puts], x)
    <3>1. queue' = Append(queue, Items[puts]) /\ Items[puts] \in AllItems
      BY <1>3, PushBackFacts
    <3>2. Cardinality(Places(Append(queue, Items[puts]), x)) = Queued(x) + Hit(Items[puts], x)
      BY <1>0, <3>1, CountAppend
    <3>. QED
      BY <3>1, <3>2
  <2>2. Held(x)' = Held(x) - Hit(Items[puts], x)
    <3>1. /\ Main \in Hands(x) <=> Items[puts] = x
          /\ Hands(x)' = Hands(x) \ {Main}
      BY <1>3, PushBackFacts
    <3>2. Held(x)' = IF Main \in Hands(x) THEN Held(x) - 1 ELSE Held(x)
      BY <3>1, CountHands
    <3>. QED
      BY <1>0, <3>1, <3>2 DEF Hit
  <2>3. Put(x)' = Put(x) /\ Done(x)' = Done(x)
    BY <1>3, PushBackFacts
  <2>. QED
    BY <1>0, <2>1, <2>2, <2>3 DEF Hit
<1>4. ASSUME NEW w \in Workers, Q!PopFront(w), UNCHANGED programVars
      PROVE  Put(x)' = Queued(x)' + Held(x)' + Done(x)'
  <2>1. Queued(x)' = Queued(x) - Hit(Head(queue), x)
    BY <1>0, <1>4, PopFrontFacts, CountTail
  <2>2. Held(x)' = Held(x) + Hit(Head(queue), x)
    <3>1. /\ w \notin Hands(x)
          /\ Hands(x)' = IF Head(queue) = x THEN Hands(x) \cup {w} ELSE Hands(x)
      BY <1>4, PopFrontFacts
    <3>2. Cardinality(Hands(x) \cup {w}) = Held(x) + 1
      BY <3>1, CountHands
    <3>. QED
      BY <1>0, <3>1, <3>2 DEF Hit
  <2>3. Put(x)' = Put(x) /\ Done(x)' = Done(x)
    BY <1>4, PopFrontFacts
  <2>. QED
    BY <1>0, <2>1, <2>2, <2>3 DEF Hit
<1>5. ASSUME NEW w \in Workers, Handle(w)
      PROVE  Put(x)' = Queued(x)' + Held(x)' + Done(x)'
  <2>1. Done(x)' = Done(x) + Hit(hand[w], x)
    <3>1. handled' = Append(handled, hand[w]) /\ hand[w] \in AllItems
      BY <1>5, HandleFacts
    <3>2. Cardinality(Places(Append(handled, hand[w]), x)) = Done(x) + Hit(hand[w], x)
      BY <1>0, <3>1, CountAppend
    <3>. QED
      BY <3>1, <3>2
  <2>2. Held(x)' = Held(x) - Hit(hand[w], x)
    <3>1. /\ w \in Hands(x) <=> hand[w] = x
          /\ Hands(x)' = Hands(x) \ {w}
      BY <1>5, HandleFacts
    <3>2. Held(x)' = IF w \in Hands(x) THEN Held(x) - 1 ELSE Held(x)
      BY <3>1, CountHands
    <3>. QED
      BY <1>0, <3>1, <3>2 DEF Hit
  <2>3. Put(x)' = Put(x) /\ Queued(x)' = Queued(x)
    BY <1>5, HandleFacts
  <2>. QED
    BY <1>0, <2>1, <2>2, <2>3 DEF Hit
<1>. QED
  BY <1>1, <1>2, <1>3, <1>4, <1>5, OthersAreQuiet DEF Moves
-----------------------------------------------------------------------------
(* StopsTaken *)

(* When Main joins, all items were put and as many stops handled as there  *)
(* are workers: nothing is left.                                           *)
LEMMA JoinFindsEmpty ==
  ASSUME Lines, InOrder, StopsTaken, Accounted, JoinAll
  PROVE  queue = <<>>
<1> SUFFICES ASSUME queue # <<>>
             PROVE  FALSE
  OBVIOUS
<1> USE ThreadsFacts, ItemsFacts, ProgramAssumption
<1>1. puts = Len(Items) /\ at[Main] = "none" /\ \A w \in Workers : line[w] = "stopped"
  BY DEF JoinAll
<1>2. Entered = Len(Items) /\ Stopped = Workers
  BY <1>1 DEF Entered, Stopped
<1>3. StopItem \in AllItems
  <2>1. Len(Items) \in 1 .. Len(Items) /\ Len(Items) > Len(Messages)
    BY <1>1
  <2>2. Len(Items) \in DOMAIN Items /\ Items[Len(Items)] = StopItem
    BY <2>1
  <2>. QED
    BY <2>2 DEF AllItems
<1>4. Cardinality(Where(1 .. puts, Items, StopItem)) = NumWorkers
  <2>1. Where(1 .. puts, Items, StopItem) = Len(Messages) + 1 .. Len(Messages) + NumWorkers
    BY <1>1 DEF Where
  <2>. QED
    BY <2>1, FS_Interval
<1>5. IsFiniteSet(Places(queue, StopItem)) /\ Cardinality(Places(queue, StopItem)) = 0
  <2>1. /\ IsFiniteSet(Places(queue, StopItem))
        /\ Cardinality(Places(queue, StopItem)) \in Nat
        /\ Cardinality(Hands(StopItem)) \in Nat
    BY FinitePlaces, CountHands DEF Lines
  <2>2. Cardinality(Places(handled, StopItem)) = NumWorkers
    BY <1>2 DEF StopsTaken
  <2>. QED
    BY <1>3, <1>4, <2>1, <2>2 DEF Accounted
<1>6. Places(queue, StopItem) = {}
  BY <1>5, FS_EmptySet
<1>7. Taken >= Len(Messages)
  <2>1. 1 \in Workers
    BY DEF Workers
  <2>. QED
    BY <1>1, <2>1 DEF HasStop, StopsTaken
<1>8. queue[1] = Items[Taken + 1] /\ Len(queue) >= 1 /\ Taken + 1 \in 1 .. Len(Items)
  BY <1>2, OrderFacts
<1>9. 1 \in Places(queue, StopItem)
  <2>1. queue[1] = StopItem
    <3>1. Taken \in Nat
      BY OrderFacts
    <3>. QED
      BY <1>7, <1>8, <3>1
  <2>2. 1 \in DOMAIN queue
    BY <1>8 DEF Lines
  <2>. QED
    BY <2>1, <2>2 DEF Places
<1>. QED
  BY <1>6, <1>9

LEMMA MainJoins ==
  ASSUME Lines, [Next]_vars, line[Main] # "joined", line'[Main] = "joined"
  PROVE  JoinAll
<1> USE ThreadsFacts DEF Lines, Goes
<1>1. ASSUME NEW t \in Threads, ThreadStep(t)
      PROVE  JoinAll
  <2>1. ~InQueue(t) /\ ~InLatch(t)
    BY DEF InQueue, InLatch, programVars
  <2>2. CASE t \in Workers /\ WorkerStep(t)
    BY <2>2 DEF WorkerStep, CountDown, TakeFirst, Handle
  <2>3. CASE MainStep
    BY <2>3 DEF MainStep, StartThread, CallLatchWait, LatchOpens, PutNext
  <2>. QED
    BY <1>1, <2>1, <2>2, <2>3 DEF ThreadStep
<1>. QED
  BY <1>1, SpuriousLines DEF Next, vars, programVars

LEMMA NextStopsTaken ==
  ASSUME Lines, InOrder, StopsTaken, Accounted, [Next]_vars
  PROVE  StopsTaken'
<1> USE DEF StopsTaken
<1>0. /\ Len(Messages) \in Nat /\ Taken \in Nat /\ handled \in Seq(AllItems) /\ queue \in Seq(AllItems)
  BY ItemsFacts, OrderFacts DEF Lines
<1>1. ASSUME NEW w \in Workers, HasStop(w)'
      PROVE  Taken' >= Len(Messages)
  <2>1. CASE UNCHANGED <<queue, Entered>> /\ HasStop(w)
    BY <2>1 DEF Taken
  <2>2. CASE Q!PushBack(Main) /\ UNCHANGED programVars
    <3>1. HasStop(w) /\ Entered' = Entered + 1 /\ Len(queue') = Len(queue) + 1
      BY <1>0, <1>1, <2>2, PushBackFacts
    <3>. QED
      BY <1>0, <3>1, OrderFacts DEF Taken
  <2>3. CASE \E v \in Workers : Q!PopFront(v) /\ UNCHANGED programVars
    <3>1. /\ queue # <<>> /\ queue' = Tail(queue) /\ Entered' = Entered
          /\ HasStop(w) \/ Head(queue) = StopItem
      BY <1>1, <2>3, PopFrontFacts
    <3>2. Taken' = Taken + 1
      BY <1>0, <3>1, OrderFacts DEF Taken
    <3>3. CASE Head(queue) = StopItem
      <4>1. Items[Taken + 1] = StopItem /\ Taken + 1 \in 1 .. Len(Items)
        BY <3>1, <3>3, OrderFacts
      <4>. QED
        BY <1>0, <3>2, <4>1, ItemsFacts
    <3>. QED
      BY <1>0, <3>1, <3>2, <3>3
  <2>4. CASE PutNext \/ (\E v \in Workers : Handle(v)) \/ Quiet
    BY <1>1, <2>1, <2>4, PutFacts, HandleFacts DEF Quiet
  <2>. QED
    BY <2>2, <2>3, <2>4, OthersAreQuiet DEF Moves
<1>2. Cardinality(Places(handled, StopItem)') = Cardinality(Stopped')
  <2>1. CASE UNCHANGED <<handled, Stopped>>
    BY <2>1
  <2>2. ASSUME NEW w \in Workers, Handle(w)
        PROVE  Cardinality(Places(handled, StopItem)') = Cardinality(Stopped')
    <3>1. /\ handled' = Append(handled, hand[w]) /\ hand[w] \in AllItems
          /\ w \notin Stopped /\ Stopped' = IF hand[w] = StopItem THEN Stopped \cup {w} ELSE Stopped
      BY <2>2, HandleFacts
    <3>2. Cardinality(Places(Append(handled, hand[w]), StopItem))
          = Cardinality(Places(handled, StopItem)) + Hit(hand[w], StopItem)
      BY <1>0, <3>1, CountAppend
    <3>3. IsFiniteSet(Stopped) /\ Cardinality(Stopped) \in Nat
      BY ThreadsFacts DEF Stopped
    <3>4. Cardinality(Stopped \cup {w}) = Cardinality(Stopped) + 1
      BY <3>1, <3>3, FS_AddElement
    <3>. QED
      BY <3>1, <3>2, <3>3, <3>4 DEF Hit
  <2>3. CASE PutNext \/ (Q!PushBack(Main) /\ UNCHANGED programVars) \/ Quiet
             \/ \E w \in Workers : Q!PopFront(w) /\ UNCHANGED programVars
    BY <2>1, <2>3, PutFacts, PushBackFacts, PopFrontFacts DEF Quiet
  <2>. QED
    BY <2>2, <2>3, OthersAreQuiet DEF Moves
<1>3. ASSUME line'[Main] = "joined"
      PROVE  queue' = <<>>
  <2>1. CASE line[Main] = "joined"
    BY <1>3, <2>1, PutFacts, PushBackFacts, PopFrontFacts, HandleFacts, OthersAreQuiet DEF Moves, Quiet
  <2>2. CASE line[Main] # "joined"
    <3>1. JoinAll
      BY <1>3, <2>2, MainJoins
    <3>2. queue' = queue
      BY <3>1 DEF JoinAll, queueVars
    <3>. QED
      BY <3>1, <3>2, JoinFindsEmpty
  <2>. QED
    BY <2>1, <2>2
<1>. QED
  BY <1>1, <1>2, <1>3
-----------------------------------------------------------------------------
(* The invariant holds initially and is preserved. *)

LEMMA InitIInv == Init => IInv
<1> SUFFICES ASSUME Init
             PROVE  IInv
  OBVIOUS
<1> USE ThreadsFacts DEF Init, Q!InitQueue
<1>1. InOrder
  BY DEF InOrder, Entered
<1>2. Places(queue, StopItem) = {} /\ Places(handled, StopItem) = {} /\ Stopped = {}
  BY DEF Places, Stopped
<1>3. StopsTaken
  BY <1>2 DEF StopsTaken, HasStop
<1>4. ASSUME NEW x
      PROVE  /\ Where(1 .. puts, Items, x) = {} /\ Places(queue, x) = {}
             /\ Hands(x) = {} /\ Places(handled, x) = {}
  BY DEF Where, Places, Hands
<1>5. Accounted
  BY <1>4, FS_EmptySet DEF Accounted
<1>. QED
  BY <1>1, <1>3, <1>5, InitLines, InitLatch DEF IInv

LEMMA NextIInv == IInv /\ [Next]_vars => IInv'
BY NextLines, NextLatch, NextInOrder, NextStopsTaken, NextAccounted DEF IInv

(* The program keeps its invariant: where the threads are, who has counted *)
(* the latch down, and what was put, taken and handled agree.              *)
THEOREM ProgramInvariant == Spec => []IInv
BY InitIInv, NextIInv, PTL DEF Spec

(* The variables have their types, the latch counts the workers, and Main  *)
(* puts nothing before it is open.                                         *)
THEOREM TypeCorrect == Spec => []TypeOK
<1>1. IInv => TypeOK
  BY OpenIsAllCounted, ThreadsFacts DEF IInv, Lines, LatchCounts, TypeOK, AllItems
<1>. QED
  BY <1>1, ProgramInvariant, PTL

(* Each item put is in one place until it is handled; a worker that stops  *)
(* leaves only stops to the others, and joinAll leaves nothing.            *)
THEOREM ItemsAreHandledOnce == Spec => []EachHandledOnce
<1>1. ASSUME IInv
      PROVE  EachHandledOnce
  <2>1. ASSUME NEW x \in AllItems
        PROVE  Cardinality({i \in 1 .. puts : Items[i] = x})
               = Cardinality({i \in DOMAIN queue : queue[i] = x}) + Cardinality(Hands(x))
                 + Cardinality({i \in DOMAIN handled : handled[i] = x})
    BY <1>1 DEF IInv, Accounted, Where, Places
  <2>2. ASSUME NEW w \in Workers, line[w] = "stopped", NEW i \in DOMAIN queue
        PROVE  queue[i] = StopItem
    <3>1. Taken >= Len(Messages)
      BY <1>1, <2>2 DEF IInv, StopsTaken, HasStop
    <3>2. i \in 1 .. Len(queue) /\ queue[i] = Items[Taken + i]
      BY <1>1, <2>2 DEF IInv, Lines, InOrder
    <3>3. Taken + i \in 1 .. Len(Items) /\ Taken + i > Len(Messages)
      BY <1>1, <3>1, <3>2, OrderFacts, ItemsFacts DEF IInv
    <3>. QED
      BY <3>2, <3>3, ItemsFacts
  <2>. QED
    BY <1>1, <2>1, <2>2 DEF EachHandledOnce, IInv, StopsTaken, AllItems
<1>. QED
  BY <1>1, ProgramInvariant, PTL

(* Every step of the latch is one that Mutex allows. *)
LEMMA LatchStepIsMutexStep ==
  ASSUME NEW t \in Threads, L!Step(t) \/ L!WakeUp(t)
  PROVE  [L!M!Next]_(L!mutexVars)
<1>1. CASE L!Lock(t)
  BY <1>1 DEF L!Lock, L!M!Next
<1>2. CASE L!UnLock(t)
  BY <1>2 DEF L!UnLock, L!M!Next
<1>3. CASE L!Wait(t)
  BY <1>3 DEF L!Wait, L!Sleep, L!LeaveWait, L!M!Next
<1>4. CASE L!CountDown(t)
  BY <1>4 DEF L!CountDown, L!Decrement, L!NotifyAll, L!M!Next
<1>5. CASE L!WakeUp(t)
  BY <1>5 DEF L!WakeUp, L!M!Next
<1>. QED
  BY <1>1, <1>2, <1>3, <1>4, <1>5 DEF L!Step

(* The latch uses its mutex and its condition as a client of Mutex may, so *)
(* that what is proved of Mutex, AssertLocked and the refinement of the    *)
(* monitor among it, holds of them in the program.                         *)
THEOREM LatchUsesMutex == Spec => L!M!Spec
<1>1. Init => L!M!Init
  BY DEF Init, L!InitLatch
<1>2. [Next]_vars => [L!M!Next]_(L!mutexVars)
  <2> SUFFICES ASSUME Next, ~UNCHANGED L!mutexVars
               PROVE  L!M!Next
    BY DEF vars, latchVars, L!mutexVars
  <2>1. ASSUME NEW t \in Threads, MainStep \/ WorkerStep(t)
        PROVE  UNCHANGED L!mutexVars
    BY <2>1 DEF MainStep, StartThread, CallLatchWait, LatchOpens, PutNext, JoinAll,
                WorkerStep, CountDown, TakeFirst, Handle, L!CallWait, L!CallCountDown,
                latchVars, L!mutexVars
  <2>2. ASSUME NEW t \in Threads, InQueue(t) \/ (Q!WakeUp(t) /\ UNCHANGED <<programVars, latchVars>>)
        PROVE  UNCHANGED L!mutexVars
    BY <2>2 DEF InQueue, latchVars, L!mutexVars
  <2>. QED
    BY <2>1, <2>2, LatchStepIsMutexStep DEF Next, ThreadStep, SpuriousWakeUp, InLatch
<1>. QED
  BY <1>1, <1>2, PTL DEF Spec, L!M!Spec, L!M!vars, L!mutexVars
=============================================================================
