------------------------------- MODULE Thread -------------------------------
(***************************************************************************)
(* qingyi::Thread (src/qingyi/util/thread_.h, thread_.cc): one object, the *)
(* thread Owner that starts, joins and destroys it, and the thread Child   *)
(* that runs its function.  The object goes away while the child may still *)
(* run; the child reaches it through the pointers tid_ and latch_ of its   *)
(* ThreadData, which is the child's to delete.                             *)
(***************************************************************************)
EXTENDS Naturals

CONSTANTS Owner, Child, NoThread

ASSUME ThreadAssumption == Owner # Child /\ NoThread \notin {Owner, Child}

VARIABLES
  ownerAt,      \* where the owner is
  childAt,      \* where the child is
  started_, joined_, tid_,
  data,         \* the ThreadData: "none" or "allocated"
  threadName,   \* what the child's t_thread_name points to
  reclaims,     \* history: pthread_join and pthread_detach of the child
  in_, count_, pc, cond, mutex_, holder_, asleep    \* latch_

object == <<started_, joined_, tid_>>
latch_ == <<in_, count_, pc, cond, mutex_, holder_, asleep>>
vars == <<ownerAt, childAt, object, data, threadName, reclaims, latch_>>

L == INSTANCE CountDownLatch WITH Threads <- {Owner, Child}

Init ==
  /\ L!InitLatch(1)
  /\ ownerAt = "constructed"
  /\ childAt = "none"
  /\ started_ = FALSE /\ joined_ = FALSE /\ tid_ = NoThread
  /\ data = "none"
  /\ threadName = "unset"
  /\ reclaims = 0

OwnerGoes(from, to) == ownerAt = from /\ ownerAt' = to
ChildGoes(from, to) == childAt = from /\ childAt' = to
-----------------------------------------------------------------------------
Start ==
  /\ OwnerGoes("constructed", "create")
  /\ started_' = TRUE
  /\ data' = "allocated"
  /\ UNCHANGED <<childAt, joined_, tid_, threadName, reclaims, latch_>>

(* A faulty variant: started_ stays set when pthread_create fails. *)
CreateFailsStarted ==
  /\ OwnerGoes("create", "constructed")
  /\ data' = "none"
  /\ UNCHANGED <<childAt, object, threadName, reclaims, latch_>>

CreateFails ==
  /\ OwnerGoes("create", "constructed")
  /\ started_' = FALSE
  /\ data' = "none"
  /\ UNCHANGED <<childAt, joined_, tid_, threadName, reclaims, latch_>>

CreateSucceeds ==
  /\ OwnerGoes("create", "created")
  /\ ChildGoes("none", "begin")
  /\ UNCHANGED <<object, data, threadName, reclaims, latch_>>

CallWait ==
  /\ OwnerGoes("created", "waiting")
  /\ L!CallWait(Owner)
  /\ UNCHANGED <<childAt, object, data, threadName, reclaims>>

(* latch_.Wait() has returned. *)
FinishStart ==
  /\ in_[Owner] = "none"
  /\ OwnerGoes("waiting", "started")
  /\ UNCHANGED <<childAt, object, data, threadName, reclaims, latch_>>

CallJoin ==
  /\ OwnerGoes("started", "joining")
  /\ joined_' = TRUE
  /\ UNCHANGED <<childAt, started_, tid_, data, threadName, reclaims, latch_>>

(* A faulty variant: the thread is detached. *)
JoinWithoutWaiting ==
  /\ OwnerGoes("joining", "joined")
  /\ reclaims' = reclaims + 1
  /\ UNCHANGED <<childAt, object, data, threadName, latch_>>

Join ==
  /\ childAt = "exited"
  /\ OwnerGoes("joining", "joined")
  /\ reclaims' = reclaims + 1
  /\ UNCHANGED <<childAt, object, data, threadName, latch_>>

(* A faulty variant: the destructor does not test joined_. *)
DestroyDetaching ==
  /\ ownerAt \in {"constructed", "started", "joined"}
  /\ ownerAt' = "destroyed"
  /\ reclaims' = reclaims + (IF started_ THEN 1 ELSE 0)
  /\ UNCHANGED <<childAt, object, data, threadName, latch_>>

Destroy ==
  /\ ownerAt \in {"constructed", "started", "joined"}
  /\ ownerAt' = "destroyed"
  /\ reclaims' = reclaims + (IF started_ /\ ~joined_ THEN 1 ELSE 0)
  /\ UNCHANGED <<childAt, object, data, threadName, latch_>>
-----------------------------------------------------------------------------
(* ThreadData::RunInThread and StartThread. *)

SetTid ==
  /\ ChildGoes("begin", "tid set")
  /\ tid_' = Child
  /\ UNCHANGED <<ownerAt, started_, joined_, data, threadName, reclaims, latch_>>

CallCountDown ==
  /\ ChildGoes("tid set", "counting")
  /\ L!CallCountDown(Child)
  /\ UNCHANGED <<ownerAt, object, data, threadName, reclaims>>

SetName ==
  /\ in_[Child] = "none"
  /\ ChildGoes("counting", "func")
  /\ threadName' = "data"
  /\ UNCHANGED <<ownerAt, object, data, reclaims, latch_>>

FinishFunc ==
  /\ ChildGoes("func", "finished")
  /\ threadName' = "literal"
  /\ UNCHANGED <<ownerAt, object, data, reclaims, latch_>>

DeleteData ==
  /\ ChildGoes("finished", "deleted")
  /\ data' = "none"
  /\ UNCHANGED <<ownerAt, object, threadName, reclaims, latch_>>

Exit ==
  /\ ChildGoes("deleted", "exited")
  /\ UNCHANGED <<ownerAt, object, data, threadName, reclaims, latch_>>
-----------------------------------------------------------------------------
LatchStep(t) ==
  /\ L!Step(t)
  /\ UNCHANGED <<ownerAt, childAt, object, data, threadName, reclaims>>

SpuriousWakeUp ==
  /\ L!WakeUp(Owner)
  /\ UNCHANGED <<ownerAt, childAt, object, data, threadName, reclaims>>

OwnerStep ==
  \/ CreateFails \/ CreateSucceeds \/ CallWait \/ FinishStart \/ Join
  \/ LatchStep(Owner)

ChildStep ==
  \/ SetTid \/ CallCountDown \/ SetName \/ FinishFunc \/ DeleteData \/ Exit
  \/ LatchStep(Child)

Next == Start \/ CallJoin \/ Destroy \/ OwnerStep \/ ChildStep \/ SpuriousWakeUp

Spec == Init /\ [][Next]_vars

(***************************************************************************)
(* Neither thread is suspended for ever inside these functions, func_      *)
(* returns, and there are finitely many spurious wakeups.  The owner need  *)
(* not call anything.                                                      *)
(***************************************************************************)
FairSpec ==
  /\ Spec
  /\ WF_vars(OwnerStep) /\ WF_vars(ChildStep)
  /\ <>[][~SpuriousWakeUp]_vars
-----------------------------------------------------------------------------
(* Every variable has its type, and started_, joined_ and the ThreadData   *)
(* agree with where the two threads are.                                   *)
TypeOK ==
  /\ ownerAt \in {"constructed", "create", "created", "waiting", "started",
                 "joining", "joined", "destroyed"}
  /\ childAt \in {"none", "begin", "tid set", "counting", "func", "finished", "deleted", "exited"}
  /\ started_ \in BOOLEAN /\ joined_ \in BOOLEAN /\ tid_ \in {NoThread, Child}
  /\ threadName \in {"unset", "data", "literal"}
  /\ count_ \in 0 .. 1
  /\ ownerAt # "destroyed" =>
       /\ started_ <=> ownerAt # "constructed"
       /\ joined_ <=> ownerAt \in {"joining", "joined"}
  /\ data = IF ownerAt = "create" \/ childAt \notin {"none", "deleted", "exited"}
            THEN "allocated" ELSE "none"

(* When Start returns the child has stored its id: assert(tid_ > 0) at     *)
(* line 151.                                                               *)
TidIsSet == ownerAt \in {"started", "joining", "joined"} => tid_ = Child

(* The child does not use tid_ or latch_ of a Thread that is gone, not     *)
(* even the mutex of the latch on its way out of CountDown: an owner may   *)
(* destroy the object as soon as Start has returned.                       *)
NoUseAfterDestroy ==
  ownerAt = "destroyed" => childAt \notin {"begin", "tid set"} /\ in_[Child] = "none"

(* The name of the thread does not outlive the ThreadData it points into.  *)
NameNeverDangles == threadName = "data" => data = "allocated"

(* What the owner and the child leave each other is there when it is used. *)
PointersAreGood == TidIsSet /\ NoUseAfterDestroy /\ NameNeverDangles

(* A created thread is joined or detached once, at the latest by the       *)
(* destructor, and nothing is detached when no thread was created.         *)
ReclaimedOnce ==
  reclaims = IF childAt # "none" /\ ownerAt \in {"joined", "destroyed"} THEN 1 ELSE 0

(* Start returns, whatever the order in which the two threads reach the    *)
(* latch, and so does Join.                                                *)
StartAndJoinReturn ==
  /\ ownerAt \in {"create", "created", "waiting"} ~> ownerAt \in {"constructed", "started"}
  /\ ownerAt = "joining" ~> ownerAt = "joined"
=============================================================================
