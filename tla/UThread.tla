------------------------------- MODULE UThread -------------------------------
(***************************************************************************)
(* The cooperative user-thread scheduler of 2019-03-26-src/UThread/UThread.c *)
(* (the same code is the core of 2019-04-09-src/Uthreads2/UThread).         *)
(*                                                                         *)
(* One operating system thread runs everything, and control moves from one *)
(* user thread to another only inside ContextSwitch and InternalExit.  What *)
(* a thread does between two of them is therefore one action.  A thread is *)
(* the address of its UTHREAD block: a freed address may be allocated again.*)
(* Stacks and saved registers are left out.                                *)
(***************************************************************************)
EXTENDS Naturals, Sequences, FiniteSets, Functions

CONSTANTS Threads,      \* the addresses malloc can give a UTHREAD block
          Main,         \* the UTHREAD on the stack of UtRun
          NULL

ASSUME ThreadsAssumption ==
  Main \notin Threads /\ NULL \notin Threads /\ Main # NULL

VARIABLES Allocated,        \* the UTHREAD blocks allocated and not yet freed
          NumberOfThreads,
          ReadyQueue,
          RunningThread,    \* Main: UtRun has been switched back in
          MainThread

utvars == <<Allocated, NumberOfThreads, ReadyQueue, RunningThread, MainThread>>

UtInit ==
  /\ Allocated = {}
  /\ NumberOfThreads = 0
  /\ ReadyQueue = <<>>
  /\ RunningThread = NULL
  /\ MainThread = NULL

-----------------------------------------------------------------------------
\* Who executes: a user thread, or the code that called UtInit, outside UtRun.
UserRuns == RunningThread \in Threads
Executing == UserRuns \/ RunningThread = NULL

\* Existing threads that neither run nor wait for the processor: they called
\* UtDeactivate and only a call of UtActivate can make them run again.
Parked == Allocated \ (Range(ReadyQueue) \cup {RunningThread})

\* Faults a change of the two operators could bring in: the thread is left in
\* the queue, the last one is left behind, the newest one is taken; a woken
\* thread goes to the front.
SwitchFrom_Peek(q) ==
  \/ q = <<>> /\ RunningThread' = MainThread /\ ReadyQueue' = q
  \/ q # <<>> /\ RunningThread' = Head(q) /\ ReadyQueue' = q
SwitchFrom_OffByOne(q) ==
  \/ Len(q) <= 1 /\ RunningThread' = MainThread /\ ReadyQueue' = q
  \/ Len(q) > 1 /\ RunningThread' = Head(q) /\ ReadyQueue' = Tail(q)
SwitchFrom_Newest(q) ==
  \/ q = <<>> /\ RunningThread' = MainThread /\ ReadyQueue' = q
  \/ /\ q # <<>>
     /\ RunningThread' = q[Len(q)]
     /\ ReadyQueue' = SubSeq(q, 1, Len(q) - 1)
Activated_AtHead(t) == <<t>> \o ReadyQueue

\* ExtractNextReadyThread on the queue q, then the switch to what it returns.
SwitchFrom(q) ==
  \/ /\ q = <<>>
     /\ RunningThread' = MainThread
     /\ ReadyQueue' = q
  \/ /\ q # <<>>
     /\ RunningThread' = Head(q)
     /\ ReadyQueue' = Tail(q)

\* The ready queue after UtActivate(t).
Activated(t) == Append(ReadyQueue, t)

-----------------------------------------------------------------------------

UtCreate(t) ==
  /\ Executing
  /\ t \notin Allocated
  /\ Allocated' = Allocated \cup {t}
  /\ NumberOfThreads' = NumberOfThreads + 1
  /\ ReadyQueue' = Activated(t)
  /\ UNCHANGED <<RunningThread, MainThread>>

\* From the call to the switch to the first user thread; with an empty ready
\* queue UtRun returns at once and changes nothing.
UtRun ==
  /\ RunningThread = NULL
  /\ ReadyQueue # <<>>
  /\ MainThread' = Main
  /\ SwitchFrom(ReadyQueue)
  /\ UNCHANGED <<Allocated, NumberOfThreads>>

\* The rest of UtRun, when MainThread has been switched back in.
UtRunReturn ==
  /\ RunningThread = Main
  /\ RunningThread' = NULL
  /\ MainThread' = NULL
  /\ UNCHANGED <<Allocated, NumberOfThreads, ReadyQueue>>

ExitWaking_Uncounted(woken) ==
  /\ UserRuns
  /\ Allocated' = Allocated \ {RunningThread}
  /\ SwitchFrom(ReadyQueue \o woken)
  /\ UNCHANGED <<NumberOfThreads, MainThread>>

\* UtExit with the threads of the sequence woken activated first, down to the
\* release of the block on the stack of the next thread.  A user function that
\* returns ends here too (InternalStart).
ExitWaking(woken) ==
  /\ UserRuns
  /\ NumberOfThreads' = NumberOfThreads - 1
  /\ Allocated' = Allocated \ {RunningThread}
  /\ SwitchFrom(ReadyQueue \o woken)
  /\ UNCHANGED MainThread

UtExit == ExitWaking(<<>>)

\* With an empty ready queue UtYield returns at once and changes nothing.
UtYield ==
  /\ UserRuns
  /\ ReadyQueue # <<>>
  /\ SwitchFrom(Append(ReadyQueue, RunningThread))
  /\ UNCHANGED <<Allocated, NumberOfThreads, MainThread>>

UtDeactivate ==
  /\ UserRuns
  /\ SwitchFrom(ReadyQueue)
  /\ UNCHANGED <<Allocated, NumberOfThreads, MainThread>>

\* Called for a thread that has deactivated itself: the link of any other
\* thread is in use in a queue.
UtActivate(t) ==
  /\ Executing
  /\ t \in Parked
  /\ ReadyQueue' = Activated(t)
  /\ UNCHANGED <<Allocated, NumberOfThreads, RunningThread, MainThread>>

-----------------------------------------------------------------------------
Next ==
  \/ \E t \in Threads : UtCreate(t) \/ UtActivate(t)
  \/ UtRun \/ UtRunReturn
  \/ UtExit \/ UtYield \/ UtDeactivate

Spec == UtInit /\ [][Next]_utvars

\* The scheduler does not preempt: a thread gets the processor only because the
\* running one gives it up.  What is assumed is that every user thread, once
\* running, ends by yielding, blocking or returning, and that the code of UtRun
\* goes on when it is switched in.
GiveUp == UtExit \/ UtYield \/ UtDeactivate
FairSpec == Spec /\ WF_utvars(GiveUp) /\ WF_utvars(UtRunReturn)

-----------------------------------------------------------------------------
\* Type invariant.
TypeOK ==
  /\ Allocated \subseteq Threads
  /\ NumberOfThreads \in Nat
  /\ ReadyQueue \in Seq(Threads)
  /\ RunningThread \in Threads \cup {Main, NULL}
  /\ MainThread \in {Main, NULL}

\* A thread's single Link puts it in at most one place: it is queued at most
\* once, the running thread is not queued, and a queued or running thread has
\* not been freed (UThread.c: Link is shared by every queue a thread can be in).
OnePlace ==
  /\ IsInjective(ReadyQueue)
  /\ RunningThread \notin Range(ReadyQueue)
  /\ Range(ReadyQueue) \subseteq Allocated
  /\ UserRuns => RunningThread \in Allocated

\* The counter UtRun asserts on is the number of threads that exist.
CountIsExact ==
  /\ IsFiniteSet(Allocated)
  /\ NumberOfThreads = Cardinality(Allocated)

\* UtRun is switched back in only when no thread can run: its first assertion
\* holds, and every thread that still exists is parked.
MainRunsLast == RunningThread = Main => ReadyQueue = <<>> /\ Allocated = Parked

\* MainThread is set exactly while UtRun is active, so that ExtractNextReadyThread
\* never hands out a null thread to ContextSwitch or InternalExit.
MainKnown == MainThread = NULL <=> RunningThread = NULL

\* The processor is given in arrival order: of two threads in the ready queue
\* the one behind never runs while the one in front still waits.
FirstComeFirstServed ==
  [][\A i, j \in DOMAIN ReadyQueue :
        i < j /\ RunningThread' = ReadyQueue[j]
          => ReadyQueue[i] \notin Range(ReadyQueue')]_utvars

\* A thread that is ready while UtRun is active gets the processor, however
\* often the others yield, block, wake each other or create new threads.
ReadyThreadRuns ==
  \A t \in Threads :
    (t \in Range(ReadyQueue) /\ MainThread = Main) ~> RunningThread = t

\* The scheduler implements SchedulerSpec: the queue, the counter and the proxy
\* of the main thread are only its means.
ThreadStatus ==
  [h \in Threads |->
     CASE h \notin Allocated -> "free"
       [] h = RunningThread -> "running"
       [] h \in Range(ReadyQueue) -> "ready"
       [] h \in Parked -> "blocked"]

Promise == INSTANCE SchedulerSpec
  WITH status <- ThreadStatus, active <- MainThread # NULL

KeepsPromise == Promise!Spec
=============================================================================
