# A TLA+ verification of qingyi

qingyi is a C++ library in the style of muduo: threads, locks, queues and a
thread pool under `src/qingyi/util/`, and the beginnings of an event loop under
`src/qingyi/net/`. This directory holds TLA+ modules that translate its core
logic, TLC configurations that check them on small instances, and TLAPS proofs
of the safety properties for every value of the constants.

Contents: [Components](#components) · [Modules](#modules) ·
[How the modules correspond to the code](#how-the-modules-correspond-to-the-code) ·
[Runs](#runs) · [Fairness](#fairness) · [Disagreements with the code](#disagreements-with-the-code) ·
[Proofs](#proofs) · [Not modelled](#not-modelled) · [Plan](#plan)

To check: `tlc -config MCThreadPool.cfg MCThreadPool`, `tlapm ThreadPool_proofs.tla`.
`PROJECT.json` maps every definition to the lines it translates, names a faulty
variant of the code for every property that the property must reject, and
lists the hazards, each with its line and the properties aimed at it.

## Components

### Mutex and Condition (`mutex_.h`, `condition_.h`, `condition_.cc`)
State: a pthread mutex, `holder_` (the tid of the owner, 0 for nobody), a
pthread condition. Operations: `Lock`, `UnLock`, `IsLockedByThisThread`,
`AssertLocked`, the scope guards, `Wait`, `WaitForSeconds`, `Notify`,
`NotifyAll`. `holder_` is written between the pthread calls, and
`Wait` clears it before it sleeps and sets it when it wakes up (`UnGuard`).
`WaitForSeconds` computes a deadline from the clock. Hard: the interleaving of these writes with other threads; a notification that
falls between the release of the mutex and the sleep, or that races the deadline; the carry of
the nanoseconds and negative times. Correct: `holder_` never
names a thread that does not own the mutex; whoever is inside finds its own id
there; for all its clients `Wait` is atomic; a wait that reports a timeout lasted as
long as it was asked to.

### CountDownLatch (`countdown_latch_.h`, `.cc`)
State: `count_`, a Mutex, a Condition. Operations: `Wait`, `CountDown`. It
notifies exactly when the count becomes 0. Correct: whoever waits leaves once
the count is 0, and not before.

### Thread (`thread_.h`, `thread_.cc`, `current_thread_.*`)
State: `started_`, `joined_`, `tid_`, a latch, and the heap-allocated
`ThreadData` that belongs to the new thread. Operations: `Start` (with a failing
`pthread_create`), `Join`, the destructor, and in the new thread `RunInThread`,
which writes `tid_` through a pointer into the object, counts the latch down
and runs the function. Hard: the object may be destroyed while the new thread
still starts; `t_thread_name` points into `ThreadData`. Correct: `Start` returns
after the id is known; the child never touches the object once it may be gone;
the pthread is reclaimed once.

### BoundedBlockingQueue and BlockingQueue
State: a circular buffer (or deque) under a Mutex with one or two Conditions.
Operations: `Put`, `Take`. One notification per item, never a broadcast. Hard:
barging threads, threads woken and overtaken. Correct: a bounded FIFO in which
nothing is lost or repeated and nobody sleeps beside work he could do. The test
program of BlockingQueue is a small system of its own: a latch that opens when
all workers run, messages, and one "stop" for each worker before the joins.

### ThreadPool (`thread_pool_.h`, `.cc`)
State: `threads_`, `queue_`, `running_`, a Mutex, `not_empty_`, `not_full_`.
Operations: `Start`, `Run`, `Stop`, the destructor; in the workers `RunInThread`
and `Take`. `Run` may be called from a task. Hard: `running_` and `threads_` are
read without the mutex; `Stop` comes at any moment; a full queue that workers
themselves fill; `pthread_create` fails. Correct: every task is executed once or
is still where it was put; no wakeup is lost; after `Stop` no worker is left.

### Channel and PollPoller (`channel_.*`, `poller.*`, `poller/poll_poller_.*`)
State: per channel `events_`, `index_`, `add_to_loop_`; in the poller `pollfds_`
(the argument of `poll(2)`) and `channels_` (descriptor to channel). Operations:
`EnableReading` ... `DisableAll`, `Remove`, the destructor; `UpdateChannel`,
`RemoveChannel`, `Poll`; `HandleEvent` and `Tie`. A channel's `index_` is the
place of its pollfd, which a removal in the middle changes for *another*
channel; a channel without events has its descriptor negated. `Poll` leaves
`revents_` in the channels and a list of plain pointers to them; `HandleEvent`
calls up to four callbacks, which may call any of the above for any channel, and
drop the last reference to the object the channel is tied to and is a member of.
Correct: the three tables agree, nothing a channel waits for is left out of
`poll`, what `poll` reports reaches a callback, and nothing is destroyed while
it runs.

### Buffer (`buffer_.h`, `buffer_.cc`, `endian_.h`)
State: a vector of bytes, `reader_index_`, `writer_index_`. Operations: `Append`,
`BeginWrite`/`HasWritten`, `Prepend`, the `Retrieve` family, `UnWrite`,
`EnsureWriteableBytes`, `Shrink`, searches for the end of a line, integers in network
order, `ReadFd`. Hard: the content is moved or the vector grown inside `Append`,
depending on sums of unsigned sizes; `Prepend` goes below the initial index, to
which `Retrieve` of everything returns; `ReadFd` scatters into two areas. Correct: the content is
what the calls make of it, the indices stay in order, integers survive.

### Date (`date_.h`, `date_.cc`)
State: a Julian day number. Operations: from year, month and day, from a `struct tm`,
back, and the weekday. Hard: eight truncating divisions whose constants must fit
each other over 400 years. Correct: the two directions are inverse, consecutive
days have consecutive numbers.

### StringPiece (`stringpiece_.h`)
A pointer and a length into memory of somebody else: of a Buffer, which makes
and appends pieces, or a C string. Operations: the constructors, `remove_prefix`,
`remove_suffix`, `Compare`, `==`, `StartWith`, `AsString`. Hard: `memcmp` over the shorter of two
lengths, pieces of length 0, pieces that are not terminated or have a 0 inside. Correct: two
pieces compare as their texts do.

### Singleton (`singleton_.h`)
State, per type: `ponce_`, `value_`, a handler of `atexit`. `GetInstance` calls `Init`
under `pthread_once`; `Destroy` deletes the instance at exit, unless the type
has a member `no_destroy`. Hard: first callers race; exit comes while a thread still
holds a reference. Correct: one instance, deleted after its last user.

### ThreadLocal (`threadlocal_.h`)
State: a key, and the value of each thread under it. `Value` makes it at the first
call; it is deleted when its thread exits, and the key with the object. Correct: one value per
thread, none left of a thread that is gone.

### AtomicInt (`atomicint_.h`)
A number that builtins of the compiler change; `AddAndGet` adds again to what the builtin returned. Thread counts
its objects with it to name them. Correct: no two objects get one number.

### The rest
EventLoop (constructor only: `Loop`, `RunInLoop`, `QueueInLoop` and `WakeUp` are
declared and have no body), TimeStamp, WeakCallback, sockets and addresses. See
[Not modelled](#not-modelled).

How they interact: Condition is built over Mutex; CountDownLatch, the queues and
ThreadPool over both; Thread over CountDownLatch, and over AtomicInt for its number; ThreadPool over Thread.
Singleton and ThreadLocal meet Thread where a thread exits and where the process does.
Channel calls EventLoop, which passes the call to its Poller, which writes
`index_` back into channels.

## Modules

```
Monitor  <== implements == Mutex <-- CountDownLatch <-- Thread <== implements == ThreadProgram
   |                         |             |                                          |
   |                       TimedWait       |            Singleton, ThreadLocal, AtomicInt
   |-- BoundedBlockingQueue == implements ==> Fifo
   |-- ThreadPool                          |
   |-- BlockingQueue <------------- BlockingQueueTest
PollPoller <-- Dispatch
StringPiece <-- Buffer == implements ==> ByteQueue,   Buffer <-- BufferReadFd
Date
```

| module | what it is |
|---|---|
| `Monitor` | abstract specification: a mutex with conditions, `Wait` atomic; its steps are conjoined by the modules above it |
| `Mutex` | Mutex, guards and Condition, a step per pthread call and per write of `holder_`; implements `Monitor` |
| `TimedWait` | `WaitForSeconds`: `Mutex` with a clock, deadlines and the value returned |
| `CountDownLatch` | the latch over `Mutex`, with its steps; used by `Thread` and `BlockingQueueTest` |
| `Thread` | one Thread object, its owner, and the thread it starts |
| `Singleton` | `GetInstance` and `Destroy`, for each of a set of types |
| `ThreadLocal` | one object and the value of each thread |
| `AtomicInt` | the counter and the two steps of `AddAndGet` |
| `ThreadProgram` | the program of a Thread: its owner and its child use the three modules above, and the process ends |
| `Fifo` | abstract specification: a bounded FIFO of items |
| `BoundedBlockingQueue` | the queue over `Monitor`; implements `Fifo` |
| `BlockingQueue` | the queue without a limit, over `Monitor` |
| `BlockingQueueTest` | the program of `src/test/blockingqueue`: the queue, the latch and the threads together |
| `ThreadPool` | the pool over `Monitor` |
| `PollPoller` | the channels of a loop and its poller |
| `Dispatch` | `Poll`, `HandleEvent` and callbacks, over `PollPoller` |
| `ByteQueue` | abstract specification: bytes that are added and removed at both ends |
| `StringPiece` | pieces of a memory and their comparison |
| `Buffer` | the buffer and the pieces of it; implements `ByteQueue` |
| `BufferReadFd` | the buffer with `ReadFd` |
| `Date` | the conversions, and a calendar that goes from day to day |
| `DataLemmas` | lemmas about least numbers, recursion, division and cardinalities, which the proofs share |
| `*_proofs` | theorems about the module of that name and their proofs; `Util_proofs` has those of `Mutex`, `TimedWait` and `Date`, `Thread_proofs` those of `ThreadProgram` too, `PollPoller_proofs` those of `Dispatch` |
| `MC*` | instances for TLC |

Definitions commented as "a faulty variant" are not part of a specification:
each is what a plausible mistake would make of the definition after it, and the
property named for it in `PROJECT.json` fails when it takes its place.

## How the modules correspond to the code

**Mutex.** `pc[t]` is the point between two calls: `Lock` is `LockMutex`
(`pthread_mutex_lock`) and `FinishLock` (`AssignHolder`); `UnLock` is
`BeginUnLock` and `UnLockMutex`; `Wait` is `BeginWait` (constructor of UnGuard),
`CondWait` and `CondReturn` (`pthread_cond_wait`, which gives the mutex up and falls
asleep in one step and owns it when it returns), and `FinishWait`. `WakeUp`
is a spurious wakeup or a timeout; `CondRefuse` is a `pthread_cond_timedwait` that refuses its time. The pthread calls
themselves are external and have the meaning POSIX gives them. The refinement
counts a thread as waiting from the moment `BeginWait` clears `holder_`.

**TimedWait.** Every step is one of `Mutex`, together with what it means for the time, or a
tick of the clock. `Deadline` is the arithmetic of `condition_.cc:21-24` with the division of C; the
argument, a `double` of seconds, appears as the nanoseconds it is converted to. `result` is what
`pthread_cond_timedwait` returned: a thread leaves the condition because it was notified, woke up
for no reason (both return 0) or is past its deadline, whichever comes first; that it still has to
get the mutex is `CondReturn` of `Mutex`. A `timespec` whose nanoseconds are negative is refused with
`EINVAL`, without the mutex being released. `WaitForSeconds` returns `result = "ETIMEDOUT"`.

**CountDownLatch, Thread.** `in_[t]` is the function of the latch a thread is in
and how far it is. `Thread` has one action per statement that matters to the
other thread: setting `started_`, the outcome of `pthread_create`, writing `tid_`,
each step of the latch, pointing `t_thread_name` at `ThreadData` and at a literal, deleting
`ThreadData`. The owner may start again after a failure, join, or destroy the
object wherever the code permits.

**Singleton, ThreadLocal, AtomicInt.** `pthread_once` is three steps: one thread enters `Init`, the
others wait, everybody leaves when `Init` has ended. Inside `Init` construction and `atexit` are apart, in
`Destroy` the deletion and the assignment of `value_`, and in `GetInstance` the assertion comes after
`pthread_once`. An instance is a number, so that a second one would be told from the first.
The constructor of `T` calls neither `GetInstance` of the same type nor exits. A value of ThreadLocal
is counted, not named. `GetAndAdd` and `Sum` are the two steps of `AddAndGet`, in two's complement.

**ThreadProgram.** The owner of the Thread is the main thread. It and the child call `GetInstance`
and `Value` and construct further Thread objects (which only takes a number) between the steps of their own code.
The ThreadLocal is a global object. When the owner has destroyed the Thread, `main` returns, which calls `exit`, or calls
`pthread_exit`, as `src/test/threadlocal` does; then the last thread to end calls `exit`. `exit` runs the handlers,
the last one registered first, then the destructors of objects constructed before `main`, and ends all
threads; until then the child, if it was detached, goes on. A failed assertion aborts.

**BoundedBlockingQueue, ThreadPool.** A critical section of these classes has
no visible intermediate state: another thread sees nothing of it until the mutex
is free. So a thread takes the mutex in one step and, at the head of the
`while`, waits or does the rest of the section in another. Everything that is
*not* under the mutex is a step of its own: the reads of `running_`
(`thread_pool_.cc:96`) and of `threads_.empty()` (`:57`), the execution of a task,
the creation and the joining of each worker. `threads_.empty()` is a data race
with `Start`: while `Start` runs, either answer is possible.
`task[t]` is the argument of `Run`, or the task being executed. `Child[x]`
is the task that `x` passes to `Run` as its last act, on the worker that executes it.
`sent`, `received`, `submitted` and `ran` are history variables.

**PollPoller.** Sets stand for the bit masks, `index` counts from 0 as in the
code, and `Place` is the corresponding place in a TLA+ sequence. A client calls
anything in any order; the first assertion of the code that fails is recorded in
`failed` and ends the behaviour. The assertions are of three kinds: those that
constrain the client ("removed while enabled"), those about the poller's own
tables ("removed out of range"), and those about a channel's place ("added twice",
"updated another channel"). Several channels may have one descriptor, as when its number is used
again while a removed channel lives; `Holders(c)` is the one that `channels_` has for the descriptor of
`c`, and lines 59, 70 and 71 ask for it by descriptor as in the code. Several files under `src/qingyi/net/` do not
compile as they stand (misspelt members, missing parentheses, a `HasChannel`
without a `return`). These are modelled as they are evidently meant. The assertion of
`poll_poller_.cc:71` compiles, and is kept as written: it assigns (see
[below](#disagreements-with-the-code)). All of it runs in the thread of the loop
(`AssertInLoopThread`), hence no interleaving.

**BlockingQueue, BlockingQueueTest.** The queue is modelled like the bounded one.
Its program is composed of instances: every step of the latch (a step per
pthread call) and of the queue is a step of the thread that called it, and
`line[t]` is where that thread is in the program. Of a `Thread`, `Start` and `Join` are
single steps, as module `Thread` justifies, and `pthread_create` does not fail.

**Dispatch.** `poll(2)` may report any conditions of what it was asked for, in any
combination. `active` is the list that `FillActiveChannels` fills, `stage` the
callback `HandleEventWithGuard` is in. Between the start of a callback and the
next, and between two polls, the client takes any number of steps: it creates,
ties, enables, disables, removes and destroys channels and drops its reference
to their objects. `EventLoop::Loop` has no body; what is assumed of it is that it
polls, calls `HandleEvent` of the active channels in order, and polls again.
`refs[c]` is the set of holders of the object `c` is tied to: the client, and
the guard on the stack of `HandleEvent`. For the channels in `Members` the object
contains the channel and takes it along when it is destroyed. The client keeps one
rule, because nothing in the code could detect that it is broken: a channel in
the active list is not destroyed (`Unlisted`). Callbacks are set; `POLLRDHUP`
cannot be reported, as no events that are asked for include it. `revents_` of a
channel that was not reported keeps its old value, as in the code.

**Buffer.** A buffer is a record of the vector and the two indices. The functions of the
class are operators that return a buffer (`Appended`, `Prepended`, `Retrieved`, ...) and call
each other as the functions do. The actions say which calls a client may make: what
the code asserts is the guard. `vector::resize` fills with zeros, `std::copy` copies from
the front. `kCRLF` is spelt `"\n\r"` in the code, and `FindEOL(start)` looks at
as many bytes as follow `start`, but from `Peek()` on; both are modelled as they are.
A StringPiece is an offset and a length; `Pieces` are those that a client can
make of the vector: C strings in it, and the content less prefixes and suffixes.
`BufferReadFd` has `vec[1]` uninitialised, as in the code: `readv` may do
anything with it except fill the free part of the vector.

**Date.** `date` is what the constructor makes of `tm`, and `tm` goes through
the Gregorian calendar a day at a time (`NextDay`), which is the reference. Integers
are unbounded: with 32 bits `y * 365` and `4 * a + 3` do not overflow before the year 1 400 000.

## Runs

| run | instance | distinct states | properties |
|---|---|---|---|
| `mutex` | 3 threads, 2 conditions, 2 ns to the second, a clock of 3 ns, durations -3, 1 and 2 ns | 1 282 064 | `IsLockedByThisThreadIsRight`, `WaitForSecondsIsTrue`, `ImplementsMonitor` |
| `thread` | owner and child, a latch of count 1, 2 singletons of which one with `no_destroy`, a ThreadLocal, a counter of 2 bits, 3 calls of each thread | 290 902 | `TypeOK`, `PointersAreGood`, `ReclaimedOnce`, `OneInstance`, `InstanceOutlivesUsers`, `ValuesReclaimed`, `NumbersDiffer`, `StartAndJoinReturn` |
| `bounded_blocking_queue` | 2 producers, 2 consumers, 2 slots, 2 values, 4 Puts | 16 325 | `TypeOK`, `NoLostWakeUp`, `ImplementsFifo`, `NeitherSideHangs` |
| `blocking_queue` | Main, 3 workers, 3 messages | 59 110 | `TypeOK`, `EachHandledOnce`, `ProgramEnds` |
| `thread_pool` | 2 workers each of which may not be created, 1 caller, 6 tasks of which two submit another, a queue of 1 | 218 800 | `TypeOK`, `EachTaskOnce`, `NoLostWakeUp`, `StopIsBarrier`, `RunReturns`, `QueuedTaskRuns`, `StopReturns` |
| `thread_pool_join` | the same with 2 callers, 3 tasks and no limit, safety only | a violation | `NoAssertionFails` |
| `poll_poller` | 4 channels, descriptors 0, 1, 2, 1 | 2 229 220 | `TypeOK`, `PollerAgrees`, `NoEventMissed`, `InternalAssertionsHold`, `OthersUndisturbed` |
| `poll_poller_remove` | the same | a violation | `DisabledCanBeRemoved` |
| `dispatch` | 2 channels, one a member of its object; conditions `in` and `hup` of one, `err` and `out` of the other | 424 193 | `DispatchTypeOK`, `TiedSurvivesItsCallbacks`, `ReportedIsCalled` |
| `buffer` | bytes of 1 bit, chunks of up to 2, vector of 3 to 6 bytes, integers of 1 and 2 bytes | 34 863 | `TypeOK`, `PiecesOrderedAsText`, `ImplementsByteQueue`, `PrependRoomKept`, `IntsSurvive` |
| `buffer_read_fd` | the same, with `extrabuf` of 2 bytes | a violation | `IndicesOrdered` |
| `date` | each day of 1900 to 2500 | 219 511 | `DateIsTm`, `ConsecutiveDays` |

Why the bounds are enough to be of interest:

* `mutex`: one thread can be in `Lock`, one in `Wait`, and the third observes
  both; two conditions, so that a notification can go to the wrong one. With two nanoseconds to the second
  a deadline carries or not; a duration of -3 gives a negative remainder, or a deadline that is past, with
  the clock. `MaxTime` stops the clock at its third tick, later than the deadline of a wait that began with it.
* `thread`: two threads are what the class has, and enough for two first callers and for an exit beside
  a child. `MaxCalls` bounds the calls: with three each, a thread may call both singletons, make a
  value or a name and come again. `MaxInt` 1 makes the counter wrap around.
* `bounded_blocking_queue`: the two variants that notify only on the transition
  from empty, or from full, fail in this instance. They need two sleeping
  threads of one kind and two threads of the other kind that barge in.
  `MaxPuts` is the only bound of the model. It bounds the history variables and, with them, how long
  producers can overtake each other; hence no property says that a `Put` returns which others overtake.
  `NeitherSideHangs` says nothing that the bound could help to: it speaks of the next item to enter, while a thread is in `Put`.
* `thread_pool`: a queue of one place with two workers and two nested tasks is
  the least that lets the workers clog the queue they should empty while a
  caller waits too. Each task is submitted once, which bounds the model.
* `poll_poller`: three descriptors give a removal a pollfd before and one behind
  the one it takes out; descriptor 0 is the one whose negation by sign alone would not be
  negative. Descriptor 1 has two channels, so that a removed channel can meet its own descriptor in the hands of another,
  with a stale index that is right, out of range or another's place. Channels are constructed again, so behaviours are unbounded.
* `blocking_queue`: three workers can all sleep while three items arrive, one worker can
  take them all, and the latch is counted down by several threads. Nothing is bounded
  but the program itself.
* `dispatch`: a callback of one channel changes the other, before and after its
  turn. `hup` demands the close callback alone and, with `in`, the read callback; `err` and `out` demand two, so that a
  client runs between two callbacks of one channel as well. `pri` and `nval` demand what `in` and `err` do.
* `buffer`: with `kCheapPrepend` 2 and an initial size of 1 a call may write in
  place, move the content with and without overlap, or grow; two different bytes
  suffice to tell a misplaced byte. `MaxSize` bounds the vector.
* `date`: 1900 to 2500 is the range the comment of `YearMonthDay` names
  (`date_.h:30`). It has leap centuries and others; all later years are the
  theorems' business.

`CHECK_DEADLOCK FALSE` stands where the system really may stop: the owner has
destroyed the Thread or the pool, the tasks have been submitted, the pool is clogged, an
assertion has failed, the test program has ended, the calendar has come to its last day, a client
makes no more calls. The mutex, the bounded queue and the buffer run with the deadlock check.

What the less obvious properties say:

* `NoLostWakeUp` of the queue: while some consumer sleeps, each item in the buffer
  has a consumer of its own that is awake inside `Take`. It is stronger than "a consumer
  that sleeps finds the buffer empty", which a woken consumer that has
  not yet run makes false. The same for producers and free slots; and in the pool for queued tasks and workers,
  who moreover do not sleep once it has been stopped, and for free places and runners.
* `IsLockedByThisThreadIsRight`: any thread may ask, without a lock; the answer is yes inside a critical section,
  after a `Wait` too, and only there.
* `WaitForSecondsIsTrue`: no early timeout, over the carry; no deadline later than asked for; `EINVAL` for
  negative arguments only. `WaitForSeconds` reports it as a notification.
* `PointersAreGood`: the id is there when `Start` returns; the child never touches an object that
  is gone, not even the mutex of its latch on the way out of `CountDown`; `t_thread_name` does not dangle.
* `InstanceOutlivesUsers`: except where a Thread was destroyed without `Join` and `main` returns. Then exit
  runs beside the child, and the assertion in `GetInstance` fails or a reference dangles. `Orderly`
  states this obligation of the client; TLC finds the failure without it.
* `ValuesReclaimed`: of the child when it has exited, and of the main thread if it calls `pthread_exit`; with the same exception.
* `NumbersDiffer`: as long as the counter has not wrapped around.
* `NeitherSideHangs`: while some thread is in `Put`, another item enters the queue, and every item is taken
  in the end. Not that each `Put` returns: nothing keeps the mutex from going to other producers for ever.
* `InternalAssertionsHold`: with its second part, that where no other channel holds the descriptor no stale index gets
  as far as lines 73 and 75, and nothing is added twice.
* `PiecesOrderedAsText`: `Compare`, `==` and `StartWith` against the order of texts, for any two pieces, overlapping or equal.
* `EachTaskOnce`: counts a task in hands, in the queue and in executions; the sum is
  1 for submitted tasks, over nested `Run`, the unlocked reads and `Stop`.
* `RunReturns`, `QueuedTaskRuns` and `StopReturns` carry the exceptions the code
  really has, as part of their statements. `Stop` notifies `not_empty_` only and `Run` does not
  look at `running_`, so a thread in `Run` can be left waiting by `Stop`; a task
  queued when the pool stops need not be executed; and workers that all wait in `Run` for room
  (`Clogged`) wait for ever.
* `NoEventMissed`: of a channel that waits for events, the pollfd has exactly those, under
  the unmuted descriptor, although `DisableAll` does not tell the poller.
* `EachHandledOnce`: besides the count, the stops are taken after every message, so that
  a worker that stops leaves nothing to workers that may not come.
* `ReportedIsCalled`: each condition `poll` reports is followed by a callback made
  for it, whatever other callbacks do in between; only a tied channel whose
  object is gone is passed over.
* `TiedSurvivesItsCallbacks`: over callbacks that drop the last reference.
* `PrependRoomKept`: no call but `Prepend` itself takes away the room in front.
* `OthersUndisturbed`: a removal that swaps another channel's pollfd changes
  nothing in it. The exception is a channel whose descriptor line 71 gives to another.

## Fairness

All fairness is weak, one condition per thread: a thread inside a function of
the library is not suspended for ever by the scheduler. No fairness is assumed
of the mutex: which of several contenders gets it is arbitrary, each time, so that a thread may be overtaken
for as long as others come. `RunReturns` and `StopReturns` of the pool say that a call returns, with a finite number of tasks. No
client is obliged to call `Put`, `Run`, `Start`, `Stop` or the destructor. Further assumptions:

* consuming threads call `Take` again and again (`WF` of `CallTake`), as the
  consumers in `src/test` do; without it an item may stay in the buffer;
* tasks and thread functions return (they are steps of the fair actions);
* `pthread_cond_wait` wakes up spuriously finitely often. Otherwise a thread that
  keeps waking up and sleeping again could be all that ever happens.

In `blocking_queue` the same holds of every thread of the program. In `dispatch` only
the loop's own steps are fair (`LoopStep`): a callback returns, and then the next
one is called; `Poll` need not happen and clients need not do anything.

In `thread` a call that a thread has begun goes on, `GetInstance` and the constructor included; nobody is
obliged to begin one, and the process may end or not.

The `mutex`, `poll_poller`, `buffer` and `date` runs check safety only.

## Disagreements with the code

* `thread_pool_join`. `ThreadPool::Start` does not look at the outcome of
  `Thread::Start`, which returns nothing. When `pthread_create` fails,
  `Thread::Start` resets `started_`, the element stays in `threads_`, and `Stop`
  joins it: `assert(started_)` in `Thread::Join` (`thread_.cc:156`) fails.
* `poll_poller_remove`. `Channel::DisableAll` clears `events_` and, unlike the other
  Enable and Disable functions, does not `Update`. `Remove` then passes its own
  assertion and fails that of `PollPoller::RemoveChannel` (`poll_poller_.cc:94`),
  which requires the pollfd's events to be the channel's. The same assertion also
  fails, in its other half, for a channel whose first call was a Disable
  function: `UpdateChannel` adds its pollfd unmuted (`:61`). In the model this
  second way is the failure "removed unmuted".

* `buffer_read_fd`. `Buffer::ReadFd` assigns `vec[0]` twice and leaves `vec[1]`
  uninitialised (`buffer_.cc:19-23`), so that what is read never arrives in the
  buffer; and when more bytes come than fit, `writer_index_` is advanced by the size of
  the vector instead of being set to it (`:33`), beyond the end that the picture
  in `buffer_.h:28` promises.

One more is modelled and has no run, as no line of the repository states the
opposite of it: `assert(channels_[channel->get_fd()] = channel)` (`poll_poller_.cc:71`) assigns, where
`RemoveChannel` compares (`:88`). A removed channel whose descriptor was given to another one in
the meantime, and that is enabled again, has an index, as `Remove` does not reset it. It passes `:70` and becomes
the channel of the descriptor. If its old index is the place of the other, it changes
the pollfd of the other, which is in the loop then and unknown to the poller; else `:73` or `:75`
fails. `InternalAssertionsHold` and `OthersUndisturbed` say that this is all that happens.

## Proofs

The proofs hold for all finite sets of threads, any number of workers, tasks,
conditions, channels, descriptors and singletons, any capacity, any width of integers, any bytes and sizes of a buffer, any clock and all years from 1900 on, under the ASSUMEs of the modules:
`NoThread` is not a thread (0 is no tid), the owner of a Thread is not its child, the sets of threads are finite, the roles of the
threads are distinct, a task is submitted by one parent at most, the chunks a client writes consist of bytes and contain the integers it writes, and the program of the
blocking queue has at least one worker and puts messages that differ from "stop" and from each other. No proof uses fairness.

| module | theorems |
|---|---|
| `Util_proofs` | of Mutex and TimedWait: `MutexInvariant`, `TypeCorrect`, `HolderIsOwner`, `AssertLockedNeverFails`, `HolderIsTold`, `MutexImplementsMonitor`, `TimedWaitIsMutex`, `TimeoutsAreTrue`; of Date: `DatesAreDays`, `DaysAreConsecutive` |
| `Thread_proofs` | `ThreadInvariant`, `ProgramUsesThread`, `ProgramInvariant`, `TypeCorrect`, `PointersStayGood`, `ThreadReclaimedOnce`, `OneInstanceForAll`, `InstancesOutliveUsers`, `ValuesAreReclaimed`, `ThreadNumbersDiffer` |
| `BoundedBlockingQueue_proofs` | `QueueInvariant`, `TypeCorrect`, `SleepersAreWoken`, `QueueImplementsFifo` |
| `ThreadPool_proofs` | `PoolInvariant`, `TypeCorrect`, `TasksRunOnce`, `SleepersAreWoken`, `StoppedPoolIsUnused` |
| `PollPoller_proofs` | `TypeCorrect`, `TablesAgree`, `EventsArePolled`, `InternalAssertionsNeverFail`, `OthersAreUndisturbed`; of Dispatch: `DispatchTypeCorrect`, `TiedSurvive`, `PollerAgreesInCallbacks`, `CallbacksMakeCalls`, `CallbacksDisturbNoOther` |
| `Buffer_proofs` | `BufferTypeCorrect`, `BufferIsByteQueue`, `RoomKeptForPrepend`, `IntsAreReadBack`, `PiecesCompareAsText` |
| `BlockingQueueTest_proofs` | `ProgramInvariant`, `TypeCorrect`, `ItemsAreHandledOnce`, `LatchUsesMutex` |

**Mutex.** The invariant says, by `pc`, who owns the pthread mutex (the one
thread that is not outside or asleep) and what `holder_` is at each point. The refinement
maps `BeginWait` to the monitor's `Wait`: between it and `CondWait` the pthread
mutex is still owned, so nobody can notify. `TimedWait` takes only steps of `Mutex` (`TimedWaitIsMutex`),
whose theorems it inherits. For the times it suffices that a deadline with its two parts put together is the sum of the clock
and the duration (`DeadlineIsSum`, which is the arithmetic of a quotient that rounds towards 0), and that the
deadline of a sleeping thread is the one it computed.

**Thread.** `IInv` relates the places of the owner and the child to those of the latch and of its
mutex: `count_` is 1 until the child has decremented it; an owner that has left
`Wait` has had the mutex after the child's decrement, hence after the child let it go, hence the child is no longer in the latch. This
is why the object may be destroyed as soon as `Start` has returned. `ThreadProgram` implements `Thread`
(`ProgramUsesThread`), so `IInv` holds of it. `PInv` adds the rest. `Once`: `ponce_` counts as `made` does, and at
most one thread is inside `Init`. `Lives`: before exit an instance that was made is alive and `value_` is
it. `Gone`: a thread that has left calls nothing, and in an orderly program nobody is left when `exit` runs.
`Reclaimed`: until the key is deleted, a thread has as many values as the key says, one or none.
`ThreadNumbersDiffer` has an invariant of its own, `Numbering`: the numbers given out and those being given
out are the images of 1, 2, ... under `Wrap`, each once, and as many as `num_created_` was incremented.
`Wrap` is injective on fewer than `NumInts` successive integers.

**BoundedBlockingQueue.** The wakeup statements are not inductive alone: they need to
know that sleepers are inside `Take` (`Put`) and that the thread with the mutex
is the one whose `pc` says so, hence awake. Given that, the step of a `Put` adds one
item and, by its notification, one awake consumer (or nobody sleeps any more). A consumer
that goes to sleep found the buffer empty. A consumer that leaves took an item
with it. The counting is done by `DataLemmas`. The refinement needs
`sent = received \o queue`.

**ThreadPool.** The base invariant is `TypeOK`, mutual exclusion, "sleepers are at
their Wait" and "workers beyond `spawned` do not exist". On it rest four more: the life cycle (a pool that
is joined so far has that many exited workers), the two wakeup statements, and the
counting of tasks. The wakeup of workers also needs that `running_` changes only under the mutex, so that a worker
cannot go to sleep after `Stop` has notified. `EachTaskOnce` is proved together with
"a task whose parent was not executed is nowhere", without which a nested `Run` could
submit a task a second time.

**PollPoller.** `PollerAgrees` says that every pollfd has a channel and every
channel a pollfd with its own descriptor, muted or not. `TypeOK` has that `channels_` maps a descriptor to one
channel (`OneOwner`). As no descriptor is the muted form of
another, places are distinct, the owner found for the moved pollfd is the
channel whose place was the last, and the swap keeps the agreement. A takeover by line 71 keeps it too: a pollfd
that passes line 75 has the descriptor in question, so its place is that of the channel that loses it
(`HoldersFacts`). A channel in `channels_` passes lines 59 to 75 (`KnownIsUpdated`), which with `OneOwner` leaves the
failures that `InternalAssertionsHold` admits. The destructor's assertion about the poller needs
`Noted`: what is in `channels_` has `add_to_loop_`. The converse is false after a takeover.

**Dispatch.** Its calls are those of `PollPoller`, so that `IInv` goes on to hold between two callbacks as long as
no assertion has failed. `DispatchInv` adds who holds a tied object: `GuardHeld`, the guard of `HandleEvent` while
the callbacks of a tied channel run; `MembersLive`, a member of a living object lives; and `HandledLives`.
None of the three is true alone: that a callback destroys nothing it runs on follows from the guard, and the guard
is there because the callback could not have been entered otherwise. That `FillActiveChannels` finds a channel for each
reported descriptor is an invariant of its loop (`FoundByLoop`): after k pollfds the channels found are those of the
first k that are reported, in order, and `PollerAgrees` gives each its channel.
`CallbacksMakeCalls` is the other direction of the composition: each step of Dispatch is a call of `PollPoller` or leaves its
state alone (or fails `~Channel`'s assertion on `event_handling_`), from which `OthersUndisturbed` follows for the calls of callbacks.

**Buffer.** A content is known by its length and its bytes (`ContentIs`, `Lies`). For each function of
`buffer_.h` a lemma says what it makes of the content and of the indices: `GrownFacts` and
`MovedFacts` (source and destination may overlap) for `MakeSpace`, `WrittenFacts`, `PrependedFacts`,
`RetrievedFacts` with the reset of both indices, `UnWrittenFacts`, `ShrunkFacts`; one lemma per action then says that the
step is one of `ByteQueue` or a stutter. `TypeOK` is inductive. The searches return a readable byte, because a set of indices has a
least one (`Least`), and `Memcmp` looks at the first difference for the same reason; the order of two texts depends on that difference
alone (`DifferingTexts`, `AgreeingTexts`). For the integers (`IntsFacts`) let q(k) be the integer without its last
n - k bytes: the first k bytes, summed up, are q(k) - q(0) * Base^k, since dividing twice is
dividing by the product (`QuotientTwice`). With k = n this is the integer, or the integer plus Base^n if it is negative, which is what
`NetworkToHost` tells apart.

**BlockingQueueTest.** `EachHandledOnce` is not inductive: it says nothing of the order of the queue, nor of the
worker that has a stop in its hand and has not handled it. Its invariant has five parts. `Lines`: where each thread is in the program
and in the queue, and what it has in its hand there. `LatchCounts`: `count_` is the number of workers that have not
counted down, and Main is behind the latch only with `count_` at 0, so that it puts nothing before. `InOrder`: the queue is the last part of what has entered it,
so that its length alone (`Taken`) tells which items were taken; the stops are put last. `StopsTaken`: once a worker has a stop, all messages were taken, and
as many stops were handled as workers stopped. `Accounted`: each item is in one place, counted by `DataLemmas`. All
but four steps leave the places of the items alone (`Quiet`); one lemma says of each of the four (`PutFacts` to `HandleFacts`) what it
moves. That `joinAll` leaves nothing (`JoinFindsEmpty`) is the two kinds of counting together: every worker has stopped, so as many stops were
handled as were put, none is left, and what is left in the queue would have to be a stop.
With no worker at all this is false, `joinAll` returns and the messages stay where they are: hence
the assumption, which the program meets with its five workers.
`LatchUsesMutex` is the composition: the steps of the latch in this program are steps of `Mutex`, whose theorems hold of its mutex and condition.

**Recursive functions.** The provers have no induction over an operator. An induction is instead a set of
numbers for which the claim is false, whose least element (`Least`) leads to a contradiction; that a recursion has a value at all
(`Power`, the loop of `FillActiveChannels`, the sum in `Unsigned`) is `Recursion`, `EndlessRecursion`, or an explicit function that obeys it.

**Date.** The arithmetic counts years from March, so that the leap day comes last. A
year is taken apart into its cycles of 400, 100 and 4 years, where each quotient is known, and the
lemmas show that the century, the year and the day in it are found again
(`CenturyAndYear`), then the month and the day in it (`RoundTrip`). That the
next day has the next number goes by cases: inside a month, over its end, over
the end of February, over the end of the year (`OneDayLater`). The invariant is that the date was made from a day
of the calendar; the weekday follows if the first day's is right, which is
the assumption of `DatesAreDays` and which TLC evaluates for 1 January 1900.

**Only model-checked**: all liveness, `ReportedIsCalled` included (the prover has no ENABLED), and the three violations, `ReadFd`
among them. Every invariant, action property and refinement of the other runs is stated by a theorem.

## Not modelled

* EventLoop: there is no body to translate except the constructor.
* Sockets, InetAddress: system calls passed on with their errors logged, and conversions of addresses; neither keeps
  a state, and nothing in the library calls them yet (an Acceptor or a Connector would).
* WeakCallback: one lock of a weak pointer around one call. It does not compile (`ARGS` is not expanded,
  `weak_callbacks_.h:13`) and is not used.
* TimeStamp: an integer; `Now` and the formatting are declared only, the differences are in floating point.
* Type aliases and tags: nothing to model.
* In the modelled parts: names of threads and their formatting, logging, the cached tid and its reset
  after fork (`current_thread_.cc`), `SleepUsec`, the thread-init callback of the pool, return values of pure queries, `Get` and `GetAndSet` of AtomicInt,
  a second `Stop` (an assertion fails in every order), a queue of capacity 0 in the liveness runs (nothing excludes
  it, and all `Put` and `Take` sleep for ever).
* What a client must see to, since nothing in the code can detect it: it does not destroy a channel that is in the active list;
  it does not return from `main` beside a detached thread that uses a singleton or a thread-local value; it uses a
  StringPiece only while the memory stays where it is, thus not over an `Append`, and never appends a buffer's own piece to it; its
  pieces are shorter than the `int` that holds their length; a time passed to `WaitForSeconds` fits into 64 bits of nanoseconds.

## Plan

Done, in this order: Monitor and Mutex with the refinement; BoundedBlockingQueue and
Fifo; ThreadPool; CountDownLatch and Thread; PollPoller; the proofs of all these but
CountDownLatch and Thread; Buffer with ByteQueue and ReadFd; Dispatch; Date with its
proofs; BlockingQueue with the program of its test; the deadlines of `WaitForSeconds` with their proofs; Singleton,
ThreadLocal and AtomicInt in the program of a Thread, and the proofs of Thread and that program; StringPiece in Buffer;
the proofs of Dispatch, of the numbers of Threads, of Buffer, and of the program of the BlockingQueue.

Next:

1. The test program of the thread pool as an instance of `ThreadPool` with a
   latch, as `BlockingQueueTest` is for the queue.
2. EventLoop, once its functions have bodies: `QueueInLoop` and `WakeUp` from other threads over
   `Dispatch`.
