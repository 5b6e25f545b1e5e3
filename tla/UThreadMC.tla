------------------------------ MODULE UThreadMC ------------------------------
(***************************************************************************)
(* The multiprocessor scheduler, 2019-05-21-src/UthreadsMultiCore/UThread.   *)
(*                                                                         *)
(* Each processor is a Windows thread with its own ready queue, counter and *)
(* spin lock, and runs the user threads whose Processor it is.  Processors  *)
(* interleave freely.  What a processor does under its spin lock is one step*)
(* when it touches only what the lock protects; NumberOfThreads is also     *)
(* incremented by others without the lock, so the decrement of UtExit, which*)
(* is not interlocked, is a read and a later write.  The idle thread that   *)
(* InitProcessor creates for processor p is written p.                      *)
(***************************************************************************)
EXTENDS Naturals, Sequences, FiniteSets, Functions

CONSTANTS Threads,             \* addresses for the threads the program creates
          processorsNumber,
          Main, NULL,
          MaxDWORD

Processors == 0 .. processorsNumber - 1
Users == Threads \cup Processors

ASSUME MCAssumption ==
  /\ processorsNumber \in Nat \ {0} /\ MaxDWORD \in Nat /\ MaxDWORD > 1
  /\ Main \notin Users /\ NULL \notin Users /\ Main # NULL
  /\ Threads \cap Nat = {}

VARIABLES NumberOfThreads, ReadyQueue, RunningThread, Lock,   \* by processor
          step,       \* where the code that runs on each processor is
          local,      \* its local variables
          Processor,  \* of each thread that exists
          waiting,    \* threads that others know as waiting to be activated
          mayCreate   \* whether the program's threads create threads: never changes

data == <<NumberOfThreads, ReadyQueue, RunningThread, Lock, step, local,
          Processor, waiting>>
vars == <<data, mayCreate>>

Steps == {"suspended", "resumed", "user", "idling", "leaving", "announced",
          "exiting", "scanning", "counting", "linking", "main", "done"}

NoLocals == [next |-> 0, count |-> 0, target |-> 0, thread |-> NULL]

\* InitProcessor for every processor: the idle thread is created and counted.
UtInit ==
  /\ NumberOfThreads = [p \in Processors |-> 1]
  /\ ReadyQueue = [p \in Processors |-> <<p>>]
  /\ RunningThread = [p \in Processors |-> NULL]
  /\ Lock = [p \in Processors |-> FALSE]
  /\ step = [p \in Processors |-> "suspended"]
  /\ local = [p \in Processors |-> NoLocals]
  /\ Processor = [t \in Threads |-> NULL]
  /\ waiting = {}
  /\ mayCreate \in BOOLEAN

-----------------------------------------------------------------------------
\* DWORD arithmetic.
Increment(n) == IF n = MaxDWORD THEN 0 ELSE n + 1
Decrement(n) == IF n = 0 THEN MaxDWORD ELSE n - 1

NotCreated == {t \in Threads : Processor[t] = NULL}
OfProcessor(p) == {t \in Threads : Processor[t] = p}

\* A thread of the program, and not the idle thread, runs its own code on p.
UserRuns(p) == step[p] = "user" /\ RunningThread[p] \in Threads

Goto(p, s) == step' = [step EXCEPT ![p] = s]

\* ExtractNextReadyThread on the queue q of p, and the switch to the result.
SwitchFrom(p, q) ==
  LET next == IF q = <<>> THEN Main ELSE Head(q)
  IN /\ RunningThread' = [RunningThread EXCEPT ![p] = next]
     /\ ReadyQueue' =
          [ReadyQueue EXCEPT ![p] = IF q = <<>> THEN q ELSE Tail(q)]
     /\ Goto(p, IF next = Main THEN "main" ELSE "user")

-----------------------------------------------------------------------------
\* UtCreate by the program before UtRun, when no processor runs yet.
UtCreateBefore(t) ==
  /\ \A p \in Processors : step[p] = "suspended"
  /\ t \in NotCreated
  /\ \E p \in Processors :
       /\ \A o \in Processors :
            \/ NumberOfThreads[p] < NumberOfThreads[o]
            \/ NumberOfThreads[p] = NumberOfThreads[o] /\ p <= o
       /\ Processor' = [Processor EXCEPT ![t] = p]
       /\ NumberOfThreads' = [NumberOfThreads EXCEPT ![p] = Increment(@)]
       /\ ReadyQueue' = [ReadyQueue EXCEPT ![p] = Append(@, t)]
  /\ UNCHANGED <<RunningThread, Lock, step, local, waiting>>

\* One ResumeThread of UtRun.
UtRun(p) ==
  /\ step[p] = "suspended"
  /\ \A o \in Processors : o < p => step[o] # "suspended"
  /\ Goto(p, "resumed")
  /\ UNCHANGED <<NumberOfThreads, ReadyQueue, RunningThread, Lock, local,
                 Processor, waiting>>

\* The Windows thread starts and switches to its first user thread; the ready
\* queue holds at least the idle thread.
ProcFunc(p) ==
  /\ step[p] = "resumed"
  /\ ReadyQueue[p] # <<>>
  /\ ~Lock[p]
  /\ SwitchFrom(p, ReadyQueue[p])
  /\ UNCHANGED <<NumberOfThreads, Lock, local, Processor, waiting>>

\* MainThread has been switched back in, and the Windows thread ends.
ProcFuncEnd(p) ==
  /\ step[p] = "main"
  /\ RunningThread' = [RunningThread EXCEPT ![p] = NULL]
  /\ Goto(p, "done")
  /\ UNCHANGED <<NumberOfThreads, ReadyQueue, Lock, local, Processor, waiting>>

-----------------------------------------------------------------------------
\* A fault: the idle thread leaves one thread too early.
IdleFunc_Leaves(p) ==
  /\ step[p] = "user" /\ RunningThread[p] = p
  /\ Goto(p, IF NumberOfThreads[p] <= 2 THEN "leaving" ELSE "idling")
  /\ UNCHANGED <<NumberOfThreads, ReadyQueue, RunningThread, Lock, local,
                 Processor, waiting>>

\* The loop of the idle thread: it leaves when it reads that it is alone.
IdleFunc(p) ==
  /\ step[p] = "user" /\ RunningThread[p] = p
  /\ Goto(p, IF NumberOfThreads[p] <= 1 THEN "leaving" ELSE "idling")
  /\ UNCHANGED <<NumberOfThreads, ReadyQueue, RunningThread, Lock, local,
                 Processor, waiting>>

\* A fault: the idle thread does not let others run.
UtYieldInternal_Idle(p) ==
  /\ UserRuns(p) \/ step[p] = "idling"
  /\ ~Lock[p]
  /\ IF ReadyQueue[p] = <<>> \/ step[p] = "idling"
     THEN Goto(p, "user") /\ UNCHANGED <<ReadyQueue, RunningThread>>
     ELSE SwitchFrom(p, Append(ReadyQueue[p], RunningThread[p]))
  /\ UNCHANGED <<NumberOfThreads, Lock, local, Processor, waiting>>

\* UtYield, and the yield of the idle thread; with an empty ready queue it
\* returns at once.
UtYieldInternal(p) ==
  /\ UserRuns(p) \/ step[p] = "idling"
  /\ ~Lock[p]
  /\ IF ReadyQueue[p] = <<>>
     THEN Goto(p, "user") /\ UNCHANGED <<ReadyQueue, RunningThread>>
     ELSE SwitchFrom(p, Append(ReadyQueue[p], RunningThread[p]))
  /\ UNCHANGED <<NumberOfThreads, Lock, local, Processor, waiting>>

\* A thread that is about to block first makes itself known to those who will
\* wake it: MutexAcquire leaves its lock with the wait block already in the list
\* (USynch/Mutex.c:90-105), and calls UtDeactivate afterwards.
Announce(p) ==
  /\ UserRuns(p)
  /\ waiting' = waiting \cup {RunningThread[p]}
  /\ Goto(p, "announced")
  /\ UNCHANGED <<NumberOfThreads, ReadyQueue, RunningThread, Lock, local, Processor>>

UtDeactivate(p) ==
  /\ step[p] = "announced"
  /\ ~Lock[p]
  /\ SwitchFrom(p, ReadyQueue[p])
  /\ UNCHANGED <<NumberOfThreads, Lock, local, Processor, waiting>>

\* Faults: a wakeup that arrives while its thread still runs is dropped; the
\* woken thread enters the ready queue of the processor of its waker.
UtActivate_OnlyBlocked(p, t) ==
  LET cp == Processor[t]
  IN /\ UserRuns(p)
     /\ t \in waiting
     /\ ~Lock[cp]
     /\ waiting' = waiting \ {t}
     /\ ReadyQueue' = IF RunningThread[cp] = t THEN ReadyQueue
                      ELSE [ReadyQueue EXCEPT ![cp] = Append(@, t)]
     /\ UNCHANGED <<NumberOfThreads, RunningThread, Lock, step, local, Processor>>

UtActivate_OnCaller(p, t) ==
  /\ UserRuns(p)
  /\ t \in waiting
  /\ ~Lock[p]
  /\ waiting' = waiting \ {t}
  /\ ReadyQueue' = [ReadyQueue EXCEPT ![p] = Append(@, t)]
  /\ UNCHANGED <<NumberOfThreads, RunningThread, Lock, step, local, Processor>>

\* A thread of any processor wakes a waiting one, which may still be between
\* its announcement and its call of UtDeactivate.
UtActivate(p, t) ==
  LET cp == Processor[t]
  IN /\ UserRuns(p)
     /\ t \in waiting
     /\ ~Lock[cp]
     /\ waiting' = waiting \ {t}
     /\ ReadyQueue' = [ReadyQueue EXCEPT ![cp] = Append(@, t)]
     /\ UNCHANGED <<NumberOfThreads, RunningThread, Lock, step, local, Processor>>

-----------------------------------------------------------------------------
\* UtExit down to the read of the counter, by a thread or by the idle thread.
UtExit(p) ==
  /\ UserRuns(p) \/ step[p] = "leaving"
  /\ ~Lock[p]
  /\ Lock' = [Lock EXCEPT ![p] = TRUE]
  /\ local' = [local EXCEPT ![p].count = NumberOfThreads[p]]
  /\ Goto(p, "exiting")
  /\ UNCHANGED <<NumberOfThreads, ReadyQueue, RunningThread, Processor, waiting>>

\* The rest of UtExit: the counter is written, the lock left, the next thread
\* switched in and the block of the old one freed on its stack.
UtExitSwitch(p) ==
  LET t == RunningThread[p]
  IN /\ step[p] = "exiting"
     /\ NumberOfThreads' = [NumberOfThreads EXCEPT ![p] = Decrement(local[p].count)]
     /\ SwitchFrom(p, ReadyQueue[p])
     /\ Lock' = [Lock EXCEPT ![p] = FALSE]
     /\ local' = [local EXCEPT ![p] = NoLocals]
     /\ Processor' = [u \in Threads |-> IF u = t THEN NULL ELSE Processor[u]]
     /\ UNCHANGED waiting

-----------------------------------------------------------------------------
\* UtCreate by a user thread.  GetTargetProcessor reads the counters one after
\* another, with no lock.
GetTargetProcessor(p) ==
  LET l == local[p]
      n == NumberOfThreads[l.next]
      first == l.next = 0 \/ n < l.count
  IN /\ \/ mayCreate /\ UserRuns(p) /\ NotCreated # {}
        \/ step[p] = "scanning"
     /\ local' = [local EXCEPT ![p] =
          [l EXCEPT !.next = (l.next + 1) % processorsNumber,
                    !.count = IF first THEN n ELSE l.count,
                    !.target = IF first THEN l.next ELSE l.target]]
     /\ Goto(p, IF l.next + 1 = processorsNumber THEN "counting" ELSE "scanning")
     /\ UNCHANGED <<NumberOfThreads, ReadyQueue, RunningThread, Lock, Processor,
                    waiting>>

\* UtCreateInternal down to InterlockedIncrement, which does not take the lock.
UtCreateInternal(p, t) ==
  /\ step[p] = "counting"
  /\ t \in NotCreated
  /\ Processor' = [Processor EXCEPT ![t] = local[p].target]
  /\ NumberOfThreads' = [NumberOfThreads EXCEPT ![local[p].target] = Increment(@)]
  /\ local' = [local EXCEPT ![p].thread = t]
  /\ Goto(p, "linking")
  /\ UNCHANGED <<ReadyQueue, RunningThread, Lock, waiting>>

\* The end of UtCreateInternal: the new thread enters its ready queue.
UtActivateInternal(p) ==
  LET l == local[p]
  IN /\ step[p] = "linking"
     /\ ~Lock[l.target]
     /\ ReadyQueue' = [ReadyQueue EXCEPT ![l.target] = Append(@, l.thread)]
     /\ local' = [local EXCEPT ![p] = NoLocals]
     /\ Goto(p, "user")
     /\ UNCHANGED <<NumberOfThreads, RunningThread, Lock, Processor, waiting>>

-----------------------------------------------------------------------------
Next ==
  /\ \/ \E t \in Threads : UtCreateBefore(t)
     \/ \E p \in Processors :
          \/ UtRun(p) \/ ProcFunc(p) \/ ProcFuncEnd(p)
          \/ IdleFunc(p) \/ UtYieldInternal(p)
          \/ Announce(p) \/ UtDeactivate(p)
          \/ UtExit(p) \/ UtExitSwitch(p)
          \/ GetTargetProcessor(p) \/ UtActivateInternal(p)
          \/ \E t \in Threads : UtActivate(p, t) \/ UtCreateInternal(p, t)
  /\ UNCHANGED mayCreate

Spec == UtInit /\ [][Next]_vars

\* Windows runs every processor's thread, and on a processor nothing preempts:
\* each user thread is assumed to yield, block or return in the end.
GiveUp(p) ==
  /\ \/ UtYieldInternal(p) \/ UtDeactivate(p) \/ UtExit(p) \/ UtExitSwitch(p)
     \/ ProcFunc(p) \/ ProcFuncEnd(p) \/ IdleFunc(p)
  /\ UNCHANGED mayCreate
StartNext(p) == step[0] # "suspended" /\ UtRun(p) /\ UNCHANGED mayCreate

FairSpec ==
  /\ Spec
  /\ \A p \in Processors : WF_vars(GiveUp(p)) /\ WF_vars(StartNext(p))

-----------------------------------------------------------------------------
\* Type invariant.
TypeOK ==
  /\ NumberOfThreads \in [Processors -> 0 .. MaxDWORD]
  /\ ReadyQueue \in [Processors -> Seq(Users)]
  /\ RunningThread \in [Processors -> Users \cup {Main, NULL}]
  /\ Lock \in [Processors -> BOOLEAN]
  /\ step \in [Processors -> Steps]
  /\ local \in [Processors -> [next : Processors, count : 0 .. MaxDWORD,
                               target : Processors, thread : Threads \cup {NULL}]]
  /\ Processor \in [Threads -> Processors \cup {NULL}]
  /\ waiting \subseteq Threads
  /\ mayCreate \in BOOLEAN

\* A thread is queued and runs only on its own processor, at most once, so that
\* no second processor resumes it before its context has been saved.  It is
\* queued while it runs only when it was woken between its announcement and
\* UtDeactivate.
HomeOnly ==
  \A p \in Processors :
    /\ IsInjective(ReadyQueue[p])
    /\ Range(ReadyQueue[p]) \subseteq OfProcessor(p) \cup {p}
    /\ RunningThread[p] \in OfProcessor(p) \cup {p, Main, NULL}
    /\ RunningThread[p] \in Range(ReadyQueue[p]) =>
         step[p] = "announced" /\ RunningThread[p] \notin waiting

\* No thread is lost, however the wakeup and UtDeactivate of two processors
\* interleave: one that exists runs, is ready, waits to be activated, or is
\* being created.
NoThreadLost ==
  \A p \in Processors : \A t \in OfProcessor(p) :
    \/ RunningThread[p] = t
    \/ t \in Range(ReadyQueue[p])
    \/ t \in waiting
    \/ \E o \in Processors : local[o].thread = t

\* NumberOfThreads is the number of threads of the processor, the idle thread
\* among them while it exists, in every program that creates its threads before
\* UtRun, as the tests do.
IdleExists(p) == p \in Range(ReadyQueue[p]) \cup {RunningThread[p]}
CountIsExact ==
  ~mayCreate =>
    \A p \in Processors :
      NumberOfThreads[p] =
        Cardinality(OfProcessor(p)) + (IF IdleExists(p) THEN 1 ELSE 0)

\* What UtRun promises (Include/UThread.h:42-44), for the same programs: its
\* counters being exact, it resumes only when all user threads have exited,
\* blocked ones included.
EndsWithLastThread ==
  /\ CountIsExact
  /\ ~mayCreate /\ (\A p \in Processors : step[p] = "done") => NotCreated = Threads

\* The assertion of ProcFunc when its thread is switched back in (UThread.c:210),
\* after the comment "When we get here, there are no more runnable user threads".
NothingReadyAtEnd ==
  \A p \in Processors : step[p] = "main" => ReadyQueue[p] = <<>>

\* In programs that create their threads before UtRun a ready thread gets its
\* processor, past the idle thread that never blocks.
ReadyThreadRuns ==
  \A t \in Threads, p \in Processors :
    (~mayCreate /\ t \in Range(ReadyQueue[p]) /\ step[0] # "suspended")
      ~> RunningThread[p] = t
=============================================================================
