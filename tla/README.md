# Verification of the SO-1819v-LI42D libraries

The repository is the code of an operating-systems course: small libraries and
programs for Windows, one directory per class.  Its core is a cooperative
user-thread scheduler that grows over the classes (one processor, then `UtJoin`
and `UtAlive`, then several processors) and the synchronizers built on it.
Around it stand synchronizers over Windows events and semaphores, thread pools,
asynchronous input and output, and classic concurrency exercises.

This directory holds TLA+ modules of all of these, the TLC configurations that
check them, and TLAPS proofs.

    tlc -workers 2 -config UThread.cfg UThread
    tlapm UThread_proofs.tla

## 1. Inventory

| Part | State | Operations | What is hard |
|---|---|---|---|
| Scheduler, one processor (`2019-03-26-src/UThread`, `2019-04-09-src/Uthreads2/UThread`) | ready queue, running thread, main thread, number of threads, thread blocks | `UtInit`, `UtRun`, `UtCreate`, `UtExit`, `UtYield`, `UtSelf`, `UtDeactivate`, `UtActivate` | one `Link` per thread is shared by every list it can be in; `UtRun` can return with blocked threads and be called again; a freed block is reused at the same address |
| Join (`UThreadChangesForUtJoinAndUtAlive.c`) and the library the April tests use (`UThread.cpp`) | `AliveThreads`, joiners of each thread | `UtAlive`, `UtJoin`, the longer `UtExit` and `UtCreate` | joins in a circle, stale handles, a list one build does not initialise |
| Machine level (`UtCreate32/64`, `ContextSwitch`, `InternalExit`, `ctxswitch.asm`, seven builds) | stacks, saved registers | create, switch, exit | a frame that is not the one the switch pops; a stack freed while in use |
| Lists (`Include/List.h`) | `Flink`, `Blink` | insert and remove at both ends | used under everything |
| USynch (`Uthreads2/USynch`) | mutex: owner, recursion, wait list; event: signaled, wait list; semaphore: permits, limit, wait list | acquire/wait, release/set | hand-over before the new owner runs; order of service; what is lost at the limit |
| Scheduler, several processors (`2019-05-21-src/UthreadsMultiCore/UThread`) | per processor: ready queue, running thread, counter, spin lock, idle thread | the same, plus processor and idle threads | wakeup against `UtDeactivate`; counters touched without the lock; shutdown against creation |
| Mutex, several processors (`UthreadsMultiCore/USynch/Mutex.c`) | owner, counter, wait list, lock | acquire, release | the owner is compared outside the lock; the waiter is listed before it has deactivated itself |
| WinSynch (`2019-05-21-src/WinSynch`) | user mutex, barrier, latch, two closable queues over Windows objects | wait, signal, acquire, release, get, put, close | spinning against sleeping; rounds; closing with waiters |
| Thread pools (`2019-05-16-src`) | list, mutex, semaphores, workers | init, put, get, queue item | permits and list disagree between steps |
| Parallel sums (`2019-05-07-src`, `2019-05-09-src`) | parts, partial results, latch | eight adders | the rest of the division; the latch under its last signaler |
| Peterson (`UthreadsMultiCore/ClassicMutex`) | `interested`, `turn`, `count` | enter, leave | store buffers; where the memory barrier stands |
| Philosophers V1 to V3 (`2019-05-23-src`) | five mutexes | take, eat, put back | deadlock, starvation |
| File copy (`2019-05-28-src/CopyFileAsync`) | operations, positions, events | start, read done, write done | what completes at once, what fails, old completion events |
| Search (`2019-06-04-src`) | operation contexts, completion port | start, complete, dispatch | whose the context is |
| Test programs of the user threads, priorities test, mapped copy, asynchronous read, shared integer | of each program | of each program | verdicts on the wrong library; starvation; failures in the middle |
| Class demonstrations | none that lasts | | nothing to model |

The synchronizers call the scheduler and are called by user threads: a wait puts
a wait block on the thread's own stack into the synchronizer's list and calls
`UtDeactivate`; a release takes it out and calls `UtActivate`.  On one processor
nothing preempts, so between two scheduler calls a user thread is atomic.  On
several processors only what stands under a lock is.  The Windows programs are
preempted anywhere: their steps are single accesses to shared memory and single
calls of the system.

## 2. Modules

| Module | What it models | Builds on |
|---|---|---|
| `SchedulerSpec` | what a scheduler promises: a thread is free, ready, running or blocked, and which step may change that | |
| `UThread` | `UThread.c` of one processor; implements `SchedulerSpec` through `status` and `active` | |
| `UThreadJoin` | `UtJoin`, `UtAlive` and the joining `UtExit` | `UThread` |
| `UThreadApril` | `UThread.cpp` as Uthreads2 builds it, 32 and 64 bits | `UThreadJoin` |
| `UThreadTests` | the test programs, statement by statement, on either library | `UThreadApril` |
| `ContextSwitch` | stacks and saved registers in the seven builds | |
| `ListEntry` | `List.h` as pointers | |
| `Mutex`, `Event`, `Semaphore` | the synchronizers of USynch | `UThread` |
| `USynch` | the three together, used by the same threads | these |
| `UThreadMC` | the multiprocessor `UThread.c` | |
| `MutexMC` | the mutex of several processors | `UThreadMC` |
| `WinThreads` | preempted threads, their places in the code | |
| `UserMutex`, `CyclicBarrier`, `CountDownLatch`, `Queue`, `SimpleQueue` | WinSynch | `WinThreads` |
| `WinSynch` | one of them in each behavior | these |
| `ThreadPool`, `ParallelSum` | both pools; the adders over threads, the system's pool and ours | |
| `AsyncCopy`, `SearchIOCP`, `ClassicMutex`, `Philosophers`, `SchedTestRT`, `MapCopy`, `AsyncRead`, `SharedInt` | a program each | |
| `Programs` | one of the programs, the list or the machine level in each behavior | these |
| `DataLemmas` and the modules `*_proofs` | the proofs | |

Correspondence.  A user thread is the address of its block, an element of
`Threads`; `Allocated` are the blocks that `UtCreate` obtained and the exit has
not freed, so a freed address can come back.  User programs are arbitrary:
whenever a user thread runs it may make any call the library allows it.  A
context switch is one step with the call that causes it, because nothing happens
between the choice of the next thread and its first instruction that another
thread could see; that the switch itself restores what it should is what
`ContextSwitch` checks.  `Parked` in `UThread` is who called `UtDeactivate` and
has not been activated: what waits in the lists of synchronizers.  The lists are
sequences; `ListIsRing` is the reason that they may be.

In `UThreadMC` and `MutexMC` processors interleave between any two accesses to
shared state.  A stretch of code under a lock is one step when everything it
touches is protected by that lock.  `NumberOfThreads` is not: `UtCreate`
increments it without the lock, so the decrement of `UtExit` is a read
(`UtExit`) and a write (`UtExitSwitch`), and the scan of `GetTargetProcessor` is
one step per counter.  `Announce` stands for a synchronizer that lets others see
its waiter before it calls `UtDeactivate`; `MutexMC` is one.  `mayCreate`
separates programs that create threads while others run from those that create
all before `UtRun`, as the tests do; it never changes in a behavior.

One program in each behavior of `Programs`: the variable `program` names it, and a
step of it leaves the variables of the others alone.  `UThreadTests` has a
specification of its own too, `TestsSpec`, as has the use of the latch in rounds,
`CDL_ReuseSpec`.

In the Windows modules `pc` (`counter`, `worker`, `mapPc` ...) says where a
thread is.  Events, semaphores, mutexes, overlapped requests and the completion
port are modelled by what the code uses of them, and marked external.  Failing
calls are modelled where the code handles them: the copies, the search, the
asynchronous read, the shared section.  In `AsyncCopy` a request can be refused
when it is made, which `DoIO` answers with FALSE, or fail when it is pending, which
`AsyncReadDone` and `AsyncWriteDone` see in the result and answer by ending the
loop, their counters left as they are then; a write that fails has written a part
of its buffer or nothing.  In `CountDownLatch` the two writes of `CDL_Reset` are two
steps of any thread at any time, whoever is in another call; `disturbed` remembers
that some call met the reset that began the round.  In `ClassicMutex` a processor keeps its
stores in a buffer, in order, and `StoreReachesMemory` is a step of its own.

Operators named after another with a suffix, such as `UtYieldInternal_Idle`, are
faults: no specification uses them, and each states a plausible mistake that a
property rules out.

## 3. Runs

| Run | Instance | What it shows |
|---|---|---|
| `UThread` | 4 threads | `OnePlace`: no thread is in two places. `ReadyThreadRuns`: no starvation. `KeepsPromise`: it implements `SchedulerSpec` |
| `UThreadJoin` | 3 threads | `ParkedAreJoining`: no joiner is lost or queued twice. `JoinReturns`: a join ends unless joins close a circle |
| `USynch` | 3 threads, one mutex, event and semaphore | `WaitersAreParked`: no waiter is lost or waits twice between the three lists. `OwnerIsExact`, `AcquireReturns` of the mutex; `SignalsAreExact` of the event; `HeadMustWait`, `NoPermitInvented`, `HeadOvertakenBySmaller` of the semaphore |
| `UThreadMC` | 2 processors, 3 threads | `HomeOnly`, `NoThreadLost` for all programs; `ReadyThreadRuns` for those that create before `UtRun` |
| `MutexMC` | 2 processors, 3 threads | `OwnerIsExact`, `WaitersAreKnown`, `AcquireReturns` whatever is read outside the lock |
| `WinSynch` | 3 threads | `UMtxExclusion`, `UMtxNoLostWakeup`; `CB_Rendezvous`: no peer leaves a round early; `CDL_WaitsForAll`: a wait on the latch returns when all signals of its round are given, in the first round and in each whose reset met no other call; `QueuePermitsMatch`, `SQueueAccounts`: items and permits with a close at any time; `CallsReturn` |
| `Programs` | see below | One program in each behavior. Safety: `SumIsComplete`, `PoolPermitsMatch`; `CopyIsComplete`: the whole input when nothing was refused or failed, and nothing but the input whatever failed; `SearchAnswersOnce`, `PetersonExclusion`, `ListIsRing`, `ContextRestored`. Progress: `SumsReturn`, `CopyEnds`, `SearchesEnd`, `PetersonEnters`, `PhilosophersEat` (V1 up to the circle), `TestsPass`, `PrioritiesEnd`. `ResultsAreTrue`: what the mapped copy, the asynchronous read and the shared integer report at their end |
| `UThreadMCShutdown` | 2 processors, 2 threads | finding 2 |
| `QueueClose` | 3 threads, 3 puts | finding 3 |
| `CopySynchronous` | files of up to 5 bytes | finding 4 |
| `UThreadApril64` | 2 threads | finding 5 |
| `LatchReuse` | 3 threads, one reset | finding 6 |

Some properties that a run could check are stated in the modules and only proved,
for every instance: `CountIsExact`, `FirstComeFirstServed` (`UThread`), `AliveExact`,
`JoinWaitsForExit` (`UThreadJoin`), `EndsWithLastThread` (`UThreadMC`),
`PermitsNeverLost`, `WaitersInOrder` (`USynch`).

Five more configurations show the remaining findings.  TLC ends each of them with the
counterexample:

| Command | Instance | Finding |
|---|---|---|
| `tlc -config SemaphoreFifo.cfg USynch` | as `USynch`, no set | 1 |
| `tlc -config CopyEmpty.cfg AsyncCopy` | files of up to 5 bytes, nothing fails | 7 |
| `tlc -config TestsSwitchCount.cfg UThreadTests` | 2 threads, `UThread.cpp` | 8 |
| `tlc -config TestsSelfAlive.cfg UThreadTests` | the same | 9 |
| `tlc -config TestsLeaveNobody.cfg UThreadTests` | the same | 10 |

The bounds.

* Four threads let one run while three wait in the queue, the least with which
  order in the queue and position are different things.  Three threads on a
  synchronizer are an owner and two waiters, or a waiter at the head, one behind
  it and a third that releases; in `UThreadJoin` three make the shortest circle
  with somebody outside who joins into it.  Addresses are reused, so the number
  of threads created in a behavior has no bound.
* Two processors are what the source sets (`processorsNumber`), and three threads
  put two on one of them.  `MaxDWORD` is the width of the counter, far above what
  is reached; a decrement of zero would wrap to it.
* `MaxRecursion` 2: a recursive hold and its first and last release.  `MaxSets`,
  `MaxSupply`, `MaxPuts`, `MaxSQueuePuts`, `MaxRounds`, `MaxResets` bound what a
  program supplies: one set of the event, 2 permits beyond the initial one with a
  limit of 2, so that the limit cuts; 3 puts with 3 threads, so that getters
  block and are woken by the close; 4 puts into a simple queue of 2, so that
  putters block; two rounds of the barrier, so that a round can meet the next; two
  resets of the latch, so that a round that a reset disturbed is followed by one
  that begins undisturbed.  `MaxULong` 7 is the width of the permit counter, not
  reached.  `SpinCount` 1: one failed try, then sleep.
* Files of 0 to 5 bytes with a buffer of 2: empty, shorter than a buffer, a
  multiple of it and not.  Arrays of 1, 4 and 5 values in two parts: fewer than
  parts, even, uneven.  Two calls of an adder: contexts and latch of the first
  are reused by the second.  Two searches of files of 0 to 2 blocks by two port
  threads: a context changes hands.  `CounterTries` 2: a thread comes back while
  its last stores are still in the buffer.  Five sticks and the addresses, builds
  and libraries are those of the source.  `Width` 3 holds the lengths and -1.

`UThread` is checked for deadlock.  The others say `CHECK_DEADLOCK FALSE`: their
programs may stop, because they end, because every thread waits for another, or
because a bound is used up.

Fairness.  On one processor only the running thread acts, and fairness says that
it does not compute for ever.

* `UThread`: weak fairness of the steps by which a user thread gives up the
  processor (`GiveUp`) and of the return of `UtRun`.  Main need not call `UtRun`.
* `UThreadJoin`, `USynch`: the same, and strong fairness that a thread which
  gets the processor again and again ends in exiting, or an owner in releasing.
  Without that no implementation could keep `JoinReturns` or `AcquireReturns`,
  which moreover excuse a circle of joins and an owner that goes to wait for
  something else.
* `UThreadMC`, `MutexMC`: Windows runs every processor's thread, so each has weak
  fairness of what its code does next; owners release as above.
* `WinSynch`: Windows runs every thread.  A thread that waits for an auto-reset
  event goes on if the event is set again and again (strong fairness of
  `UMtxWait`; without it spinners could starve it for ever), and owners release.
* `Programs`: every thread and pending request goes on, stores do not stay in a
  buffer, a philosopher who can continue does.  As a behavior has one program, the
  steps of threads of several programs share a condition.  In `SchedTestRT` the scheduler
  itself is modelled, and only a thread that the priorities let run continues.
* The runs of the findings check safety and assume no fairness, but for `CopyEmpty`:
  there the thread runs and every request is completed (`FairCopySpec`).

### Findings

1. `Semaphore.c:98` stops at the first request that cannot be met "to ensure FIFO
   ordering", but `SemaphoreAcquire` (line 55) does not look at the list.
   `HeadOvertakenBySmaller` says what does hold.
2. The multiprocessor `ProcFunc` asserts that its ready queue is empty when it
   ends (`UThread.c:208-210`).  The idle thread leaves on a counter it reads
   without the lock, and a thread created meanwhile goes to the processor with
   the fewest threads, the one that ends.
3. `QueueGet` is to block while the queue is empty (`WinSynch.h:91`).  A getter
   that `QueueClose` woke takes an item without its permit, and a later getter
   uses that permit to remove from an empty list (`Queue.cpp:48`).
4. `DoIO` continues synchronously completed reads with a write of the size it
   asked for, not of what was read (`CopyFileAsync.cpp:103`): the copy gets longer
   than the file.
5. `UtCreate64` of `UThread.cpp` never initialises `WaitingJoiners`; `UtExit` moves
   what it links to the ready queue (lines 593 and 210).
6. `CDL_Wait` returns on a counter of 0 (`CountDownLatch.cpp:26`), before the last
   signal has set the event (line 38).  A thread that resets the latch when its
   wait has returned, all signals are given and nobody waits can have that
   `SetEvent` come after its `ResetEvent`: the waits of the next round return before
   its signals.  `CDL_ReuseSpec` is that program, and `CDL_Completion` what it expects.
7. Of an empty file `CopyAsync` starts no read (`CopyFileAsync.cpp:78`) and waits for an
   event for ever: the loop looks at its counters only after the wait.
8. `TestCtxSwitchCnt1` asserts that `UtGetSwitchCount()` is 4
   (`UthreadLabTests.cpp:54-60`); the function returns 0 (`UThread.cpp:318-320`).  The
   scheduler does switch four times: `SwitchesMade`.
9. `RunningThreadIsAliveTest` asserts that a running thread is alive
   (`UthreadLabTests.cpp:70`, `unittest1.cpp:40`); `UtAlive` of `UThread.cpp` is a stub that
   returns FALSE (272-276).  With the changes for `UtJoin` the test passes, which
   `TestsPass` says.
10. `UtRun` "resumes execution only when all user threads have exited"
    (`UThread.cpp:160`) and asserts so (189); it resumes when none is ready, and in
    `InitSynchro`, whose `EventSet` is a comment, one is left waiting.

Two more show as exceptions in properties.  `SumIsComplete` excepts the later calls of the adders with a latch,
whose `CDL_Wait` may return before the last worker's `SetEvent`, which then opens
the latch of the next call; and `ParallelAdder`, `ParallelAdderTP`, which leave out
the rest of an uneven division.

## 4. Proofs

A theorem holds for every value of the constants that the named assumptions
admit: distinct addresses, natural numbers, a processor at least.  Two of the
assumptions are there for the proofs: `FiniteThreads` of `Semaphore` (a sum over
all threads is only defined for finitely many), and that `NoUnit` of `ParallelSum`
is none of the parts.  Where a theorem has a hypothesis of its own it stands in
its statement and is explained below.

| Module of proofs | Theorems | About |
|---|---|---|
| `UThread_proofs` | `TypeCorrect`, `PlacesExclusive`, `CountCorrect`, `UtRunLast`, `ArrivalOrder`, `ImplementsScheduler` | `Spec` of `UThread` |
| `UThreadJoin_proofs` | `AliveIsExact`, `NobodyIsLost`, `JoinEndsByExit` | `SpecJoin` |
| `USynch_proofs` | `TypeCorrectUSynch`, `OwnerExact`, `NobodyLostWaiting`, `SignalsExact`, `HeadWaits`, `PermitsSupplied`, `PermitsKept`, `MutexInOrder`, `OvertakenBySmaller` | `SpecUSynch` |
| `UThreadMC_proofs` | `TypeCorrect`, `ThreadsStayHome`, `NoWakeupLost`, `EndsAfterAll`; `MutexUsesScheduler`, `OwnerExactMC`, `WaitersKnownMC` | `Spec` of `UThreadMC`; `SpecMutexMC` |
| `WinSynch_proofs` | `MutexExcludes`, `SleeperIsWoken`, `ItemsHavePermits`, `PlacesAreKept`, `LatchWaitsForAll`, `PeersMeet` | `WinSynchSpec` |
| `ParallelSum_proofs` | `SumComplete`, `PermitsMatch` | `SumSpec` |
| `Programs_proofs` | `PetersonExcludes`, `CopiesAreComplete`, `OnlyInputIsWritten`, `SearchesAnsweredOnce`, `LinksMakeRing`, `ContextsAreRestored` | the specification of each program |

With them every invariant that a passing run checks is also proved, and so are the
seven properties that no run checks.  The
specifications of the last two rows are what a behavior of `Programs` does with
the program of that name.  `DataLemmas` has the facts all of them cite: a queue
that is appended to, beheaded, joined or split; sums over finite sets.

`UThread_proofs`: the inductive invariant `IInv` adds to `TypeOK`, `OnePlace` and
`CountIsExact` what the code relies on without saying it: `MainRunsLast` (the main
thread runs only with an empty queue) and `MainKnown` (it is set exactly while
`UtRun` is active).  Without the two `OnePlace` is not preserved by an exit with an
empty queue.  `ImplementsScheduler` is the refinement of `SchedulerSpec`, one step
of the proof per action.

`UThreadJoin_proofs`: `JoinIInv` is `IInv` with the type of the lists, `AliveExact`
and `ParkedAreJoining`; the steps of the scheduler are covered by
`UThread_proofs!NextKeeps`, those that move threads between lists are proved
apart.

`USynch_proofs`: `SynchIInv` is `IInv` with an invariant of each object and
`WaitersAreParked`, which binds them: what an object does to a waiter is a call of
`UtActivate`, allowed only for a parked thread.  `MutexInv` adds that who waits
holds nothing and that a mutex with waiters has an owner; `SemInv` adds
`Permits <= Limit`, without which the sum of a release could wrap and leave a
request at the head that could be served.  The loop of `SemaphoreRelease` serves a
beginning of the queue; the proof splits the queue there and moves the sum of
what was asked for from one side to the other.  `PermitsKept` has the hypothesis
that the limit and any release together fit in a ULONG.  Without it the property
is false: the source adds before it compares.

`UThreadMC_proofs`: the invariant adds where the code of each processor is
(`ControlKnown`), that a waiting thread is in no queue and runs only at its
announcement (`WaitersKnown`), that an announced thread is waiting or already
woken (`AnnouncedKnown`), and that a thread being created is known to its creator
only (`CreatedKnown`).  `EndsAfterAll` needs `CountsKnown`: between the read and the
write of `UtExit` nothing else changes the counter, and a processor comes back to
its main thread only by the end of its idle thread, which is the last one.  Its
hypothesis `ThreadsFit`, fewer threads than a DWORD counts, keeps the counters
from wrapping.

The mutex over it: each of its steps is a step of the scheduler or leaves it alone
(`MutexUsesScheduler`), so `NoWakeupLost` and the others hold with the mutex in the
program.  `InMutex` says why what the source reads outside the lock still holds when
it is used: nobody but the thread itself makes it the owner, or takes the
ownership from it.

`WinSynch_proofs`: each object has its invariant, and `WinIInv` says that the object
in use keeps its own and the others are as they were initialised.

* `UMtxIInv` of the mutex: at most one thread is where only the owner is, the
  count of waiters is the number of threads that announced themselves, and
  `SomebodyToWake`: while threads wait, there is an owner, a set event or a
  thread between the two that will signal;
* `BarrierIInv`: there is a round that every peer is in or one call ahead of; the
  count is what is missing in it, one thread completes it, and an event that is set
  belongs to a peer that arrived.  The peers that were signaled first may be
  waiting in the next round while the last one still signals;
* `QueueIInv`: `LengthIsKnown` relates `nItems`, the list, the permits and the
  threads between a permit and the lock, before and after the close;
* `SQueueIInv` counts places in the same way;
* `LatchIInv` has in every state that the counter is what is missing of the signals of
  the round, and of an undisturbed round (`Undisturbed`) that the event is set, or
  about to be, only when nothing is missing.  A round is undisturbed when its
  reset meets no call of another thread and none starts during it: then no
  `SetEvent` of an earlier round is left to come, and no call of this one runs while
  its event is being reset (`CallMeetsNoReset`).  Of a disturbed one nothing more is true, as finding 6 shows.

`ParallelSum_proofs`: `PoolIInv` counts the items and places of the pool's queue with
the workers between a permit and the list.  `CallIInv` says where the parts of the
vector are: to be handed over, with the system, in the queue or with a worker, in
one of these only (`PendingOnce`); that the event of a part is set only when its
sum is known (`EventsTell`), or that the latch counts the parts that are not
(`LatchTells`); and that the total so far is the end of the last part added.
It holds of every call, with a latch only of the first (`Guarded`), as
`SumIsComplete` says.

`Programs_proofs`:

* Peterson: a buffer always holds a stretch of the four stores of a round in
  their order (count, FALSE, TRUE, turn), so the invariant says of each thread
  which is the first not yet in memory (`Mine`).  A thread holds the section from
  the loop to the moment its store of FALSE is in memory, which is later than the
  code says; `Both` says that one thread at most holds it, that a holder has been
  given the turn by one that competes, and that the increments are all in `count`
  or in a buffer;
* the copy: `CopyPhase` names what the operation can be in: reading, writing,
  either one pending or answered, and for each how far the output is copied and
  that the buffer holds what follows; a phase `Broken`, of a copy in which a request
  was refused or failed, keeps only what is then still claimed (`OnlyInputIsWritten`):
  what is written, or still to be written, was read at its place.  `CopyIsComplete` says
  both.  `CopiesAreComplete` has the hypothesis
  `NOPERS = 1`, the value in the source.  With two operations the property is
  false: an event stays set when `DoIO` starts nothing at the end of the file, the
  loop takes it for another answer, counts `readOpers` down to 0 while the other
  read is pending, and ends;
* the search: `OneHand` says that a search that is not answered is in one place, a
  read under way, a packet in the port or a thread; `CountsBlocks` and
  `CompletionTells` that its context says how far it is;
* the list: `Flink` and `Blink` join the places of the ring, whose first and last is
  the sentinel;
* the machine level: the stack of a thread that is switched out ends with its
  context (`HasContext`): the return address, then the registers in the order of
  the pushes.  In the 64 bit builds `CleanupThread` may write in
  its home space: where `InternalExit` reserves one it lies above the context and is
  given up after the call; in `March64` it is the top of the context itself, so it
  destroys registers but never the return address.

Data of any length need induction, and a theorem with an operator as parameter
cannot be cited.  `DataLemmas` goes around it where a fact is about numbers: of the
sizes for which it fails there would be a least one (`LeastNat`).  So the sums over
sets, defined by folds, are proved and not assumed.

Left to TLC: the liveness properties (`AcquireReturns`, `SumsReturn` and the
others), as fairness needs ENABLED, which the provers do not reason about; the
properties that the code violates (`FifoOrder`, `CopySameLength` and the others of
the findings), which have no theorem; and the programs without an invariant of
their own (`Philosophers`, `UThreadTests`, `SchedTestRT`, `MapCopy`, `AsyncRead`,
`SharedInt`), of which the progress properties say how they end.

## 5. Not modelled

* The class demonstrations (`Texec`, `mem`, `VmAlloc`, `Mapfile`, `calc`, `Shell`,
  `FirstThread`, `TLSTest`, `SchedTest`): sequential programs that print what the
  operating system does.
* `Event.c` and `Semaphore.c` of the multiprocessor library: they have no lock, so
  two processors inside them race on the links, and nothing claims otherwise.
* `IsReadyThread`, `UtJoin0` of `UThread.cpp`, reachable only through a `UtAlive` that
  is still a stub; `UtEnd` and the destroy functions that close handles; failing
  allocation, which the source does not test for.
* The ULONG sum of `SemaphoreRelease` close to 2^32: the run stays below the width,
  and `PermitsKept` has as a hypothesis that it does.
* A thread that exits while it owns a mutex or stands in a list is outside what
  the library promises and not among the programs considered.
* A call of `UtActivate` by a program itself with a handle that does not wait: that the
  handle waits is the contract of the call.  The synchronizers are shown to keep it.
* Several threads that put into the pool's queue: in the programs of the repository
  one does, and its wait for space and its insertion are one step.
* Calls whose failure changes nothing: `WorkerFunc` sets an event that `ParallelAdder`
  never creates (`ParallelizationExperience.cpp:35`), and `SearchFileAsync` closes a
  handle twice when it fails (`SearchIntFilesIOCP.cpp:35-36`).
* Printing and the measuring of times.  At the end of a line of 16
  bytes `ShowBuffer` prints the characters one place too early, from `buf[-1]` in the
  first line (`ShowBuffer.cpp:21`).
