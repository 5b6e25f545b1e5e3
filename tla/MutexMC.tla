------------------------------- MODULE MutexMC -------------------------------
(***************************************************************************)
(* The mutex of 2019-05-21-src/UthreadsMultiCore/USynch/Mutex.c over the   *)
(* scheduler for several processors.                                       *)
(*                                                                         *)
(* Mutex->Lock is a critical section that a processor enters and leaves    *)
(* without switching threads, so what stands under it is one step.  The    *)
(* comparison of Owner in MutexAcquire, the countdown in MutexRelease and  *)
(* the wakeup are outside it and are steps of their own; the wait block is *)
(* in the list before UtDeactivate (Announce of UThreadMC).                *)
(*                                                                         *)
(* The programs create their threads before UtRun, release what they own   *)
(* and own nothing when they exit.  held is a history variable: the calls  *)
(* of MutexAcquire by each thread that returned, less those of MutexRelease.*)
(***************************************************************************)
EXTENDS UThreadMC

CONSTANT MaxRecursion   \* bound of the model on nested acquisitions

ASSUME MaxRecursionAssumption == MaxRecursion \in Nat \ {0}

VARIABLES Owner, RecursionCounter, WaitListHead,
          at,           \* where each processor is in the mutex code
          woken,        \* WaitBlock->Thread of MutexRelease, by processor
          acquiring,    \* threads from the insertion in the list to the return
          held

mutexvars == <<Owner, RecursionCounter, WaitListHead, at, woken, acquiring, held>>
allvars == <<vars, mutexvars>>

self(p) == RunningThread[p]

\* MutexInit(Mutex, FALSE) before the threads are created.
InitMutexMC ==
  /\ UtInit /\ mayCreate = FALSE
  /\ Owner = NULL
  /\ RecursionCounter = 0
  /\ WaitListHead = <<>>
  /\ at = [p \in Processors |-> "program"]
  /\ woken = [p \in Processors |-> NULL]
  /\ acquiring = {}
  /\ held = [t \in Threads |-> 0]

-----------------------------------------------------------------------------
InProgram(p) == UserRuns(p) /\ at[p] = "program" /\ self(p) \notin acquiring

MutexGoto(p, s) == at' = [at EXCEPT ![p] = s]

\* The comparison at the head of MutexAcquire, and the recursive acquisition.
MutexAcquireAgain(p) ==
  /\ InProgram(p)
  /\ Owner = self(p)
  /\ RecursionCounter < MaxRecursion
  /\ RecursionCounter' = RecursionCounter + 1
  /\ held' = [held EXCEPT ![self(p)] = @ + 1]
  /\ UNCHANGED <<vars, Owner, WaitListHead, at, woken, acquiring>>

MutexAcquireTest(p) ==
  /\ InProgram(p)
  /\ Owner # self(p)
  /\ MutexGoto(p, "acquiring")
  /\ UNCHANGED <<vars, Owner, RecursionCounter, WaitListHead, woken, acquiring, held>>

\* EnterCriticalSection to LeaveCriticalSection, of a free mutex.
MutexAcquireFree(p) ==
  /\ at[p] = "acquiring"
  /\ Owner = NULL
  /\ Owner' = self(p)
  /\ RecursionCounter' = 1
  /\ held' = [held EXCEPT ![self(p)] = @ + 1]
  /\ MutexGoto(p, "program")
  /\ UNCHANGED <<vars, WaitListHead, woken, acquiring>>

\* Faults: the wait block is not inserted; it is inserted at the head.
MutexAcquireBusy_NotQueued(p) ==
  /\ at[p] = "acquiring"
  /\ Owner # NULL
  /\ acquiring' = acquiring \cup {self(p)}
  /\ MutexGoto(p, "program")
  /\ Announce(p) /\ UNCHANGED mayCreate
  /\ UNCHANGED <<Owner, RecursionCounter, WaitListHead, woken, held>>
MutexAcquireBusy_AtHead(p) ==
  /\ at[p] = "acquiring"
  /\ Owner # NULL
  /\ WaitListHead' = <<self(p)>> \o WaitListHead
  /\ acquiring' = acquiring \cup {self(p)}
  /\ MutexGoto(p, "program")
  /\ Announce(p) /\ UNCHANGED mayCreate
  /\ UNCHANGED <<Owner, RecursionCounter, woken, held>>

\* The same of a busy one: the wait block goes into the list.
MutexAcquireBusy(p) ==
  /\ at[p] = "acquiring"
  /\ Owner # NULL
  /\ WaitListHead' = Append(WaitListHead, self(p))
  /\ acquiring' = acquiring \cup {self(p)}
  /\ MutexGoto(p, "program")
  /\ Announce(p) /\ UNCHANGED mayCreate
  /\ UNCHANGED <<Owner, RecursionCounter, woken, held>>

\* MutexAcquire goes on after UtDeactivate, and returns.
MutexAcquired(p) ==
  /\ UserRuns(p)
  /\ self(p) \in acquiring
  /\ acquiring' = acquiring \ {self(p)}
  /\ held' = [held EXCEPT ![self(p)] = @ + 1]
  /\ UNCHANGED <<vars, Owner, RecursionCounter, WaitListHead, at, woken>>

\* MutexRelease down to the comparison of the counter, outside the lock.
MutexReleaseCount(p) ==
  /\ InProgram(p)
  /\ Owner = self(p)
  /\ RecursionCounter' = RecursionCounter - 1
  /\ held' = [held EXCEPT ![self(p)] = @ - 1]
  /\ MutexGoto(p, IF RecursionCounter > 1 THEN "program" ELSE "releasing")
  /\ UNCHANGED <<vars, Owner, WaitListHead, woken, acquiring>>

\* Under the lock: nobody waits.
MutexReleaseFree(p) ==
  /\ at[p] = "releasing"
  /\ WaitListHead = <<>>
  /\ Owner' = NULL
  /\ MutexGoto(p, "program")
  /\ UNCHANGED <<vars, RecursionCounter, WaitListHead, woken, acquiring, held>>

\* A fault: the mutex is left free for the thread that is woken.
MutexReleaseHandOver_LeavesFree(p) ==
  /\ at[p] = "releasing"
  /\ WaitListHead # <<>>
  /\ Owner' = NULL
  /\ WaitListHead' = Tail(WaitListHead)
  /\ woken' = [woken EXCEPT ![p] = Head(WaitListHead)]
  /\ MutexGoto(p, "waking")
  /\ UNCHANGED <<vars, RecursionCounter, acquiring, held>>

\* Under the lock: the first waiter becomes the owner.
MutexReleaseHandOver(p) ==
  /\ at[p] = "releasing"
  /\ WaitListHead # <<>>
  /\ Owner' = Head(WaitListHead)
  /\ RecursionCounter' = 1
  /\ WaitListHead' = Tail(WaitListHead)
  /\ woken' = [woken EXCEPT ![p] = Head(WaitListHead)]
  /\ MutexGoto(p, "waking")
  /\ UNCHANGED <<vars, acquiring, held>>

\* The lock is left, and UtActivate called.
MutexReleaseWake(p) ==
  /\ at[p] = "waking"
  /\ UtActivate(p, woken[p]) /\ UNCHANGED mayCreate
  /\ woken' = [woken EXCEPT ![p] = NULL]
  /\ MutexGoto(p, "program")
  /\ UNCHANGED <<Owner, RecursionCounter, WaitListHead, acquiring, held>>

-----------------------------------------------------------------------------
\* The thread's own calls of the scheduler, and what the processors do by
\* themselves.
Exit(p) == InProgram(p) /\ held[self(p)] = 0 /\ UtExit(p)
Yield(p) == (InProgram(p) \/ step[p] = "idling") /\ UtYieldInternal(p)
ByItself(p) ==
  \/ ProcFunc(p) \/ ProcFuncEnd(p) \/ IdleFunc(p) \/ UtDeactivate(p)
  \/ step[p] = "leaving" /\ UtExit(p)
  \/ UtExitSwitch(p)

MutexStep(p) ==
  \/ MutexAcquireAgain(p) \/ MutexAcquireTest(p) \/ MutexAcquireFree(p)
  \/ MutexAcquireBusy(p) \/ MutexAcquired(p)
  \/ MutexReleaseCount(p) \/ MutexReleaseFree(p) \/ MutexReleaseHandOver(p)
  \/ MutexReleaseWake(p)

Scheduler(p) ==
  /\ UtRun(p) \/ Exit(p) \/ Yield(p) \/ ByItself(p)
  /\ UNCHANGED <<mayCreate, mutexvars>>

NextMutexMC ==
  \/ \E t \in Threads : UtCreateBefore(t) /\ UNCHANGED <<mayCreate, mutexvars>>
  \/ \E p \in Processors : Scheduler(p) \/ MutexStep(p)

SpecMutexMC == InitMutexMC /\ [][NextMutexMC]_allvars

\* Windows runs every processor's thread, a call of the library goes on, a user
\* thread gives the processor up in the end, and the owner that runs again and
\* again releases what it holds, once for each acquisition.
Continues(p) ==
  MutexAcquireFree(p) \/ MutexAcquireBusy(p) \/ MutexAcquired(p)
  \/ MutexReleaseFree(p) \/ MutexReleaseHandOver(p) \/ MutexReleaseWake(p)
Resumes(p) ==
  /\ \/ ByItself(p) \/ Yield(p) \/ Exit(p)
     \/ step[0] # "suspended" /\ UtRun(p)
  /\ UNCHANGED <<mayCreate, mutexvars>>

FairSpecMutexMC ==
  /\ SpecMutexMC
  /\ \A p \in Processors : WF_allvars(Continues(p)) /\ WF_allvars(Resumes(p))
  /\ \A n \in 1 .. MaxRecursion :
       SF_allvars(RecursionCounter = n /\ \E p \in Processors : MutexReleaseCount(p))

-----------------------------------------------------------------------------
\* The mutex knows its owner, whatever is read outside the lock: who holds it is
\* the owner and the counter is what it has to release; a thread that comes back
\* from UtDeactivate is the owner (Mutex.c:114), and the mutex is given away
\* only by a processor whose thread released it last.
OwnerIsExact ==
  /\ \A t \in Threads : held[t] > 0 => Owner = t /\ RecursionCounter = held[t]
  /\ \A p \in Processors : at[p] = "releasing" => Owner = self(p) /\ held[Owner] = 0
  /\ Owner # NULL /\ held[Owner] = 0 =>
       \/ Owner \in acquiring /\ RecursionCounter = 1
       \/ \E p \in Processors : at[p] = "releasing"
  /\ \A t \in acquiring : t \in Range(WaitListHead) \/ Owner = t

\* No waiter is lost between two processors: a thread that waits to be activated
\* is in the list, once, or a releasing processor is about to wake it, and the
\* list is not left behind by a mutex that is free.
WaitersAreKnown ==
  /\ IsInjective(WaitListHead)
  /\ waiting = Range(WaitListHead) \cup (Range(woken) \ {NULL})
  /\ Range(WaitListHead) \cap Range(woken) = {}
  /\ \A p, o \in Processors : p # o /\ woken[p] # NULL => woken[p] # woken[o]
  /\ WaitListHead # <<>> => Owner # NULL

\* Every call of MutexAcquire returns, wherever the other processor is.
AcquireReturns ==
  \A t \in Threads : (t \in acquiring) ~> (t \notin acquiring)
=============================================================================
