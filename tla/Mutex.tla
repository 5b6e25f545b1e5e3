-------------------------------- MODULE Mutex --------------------------------
(***************************************************************************)
(* The recursive mutex of 2019-04-09-src/Uthreads2/USynch/Mutex.c, for     *)
(* threads of the cooperative scheduler.  A call runs without interruption *)
(* up to UtDeactivate, so it is one action, and what MutexAcquire does     *)
(* after UtDeactivate is another.                                          *)
(*                                                                         *)
(* The program is any one that releases only what it owns (the assertion   *)
(* at the head of MutexRelease) and whose threads own nothing when they    *)
(* exit.  held is a history variable: the calls of MutexAcquire by each    *)
(* thread that returned, less its calls of MutexRelease.                   *)
(***************************************************************************)
EXTENDS UThread

CONSTANT MaxRecursion   \* bound of the model on nested acquisitions

ASSUME MaxRecursionAssumption == MaxRecursion \in Nat \ {0}

VARIABLES Owner, RecursionCounter,
          MutexWaitList,    \* WaitListHead: the threads of the wait blocks, in
                            \* list order
          acquiring,        \* threads between UtDeactivate and the return of
                            \* MutexAcquire
          held

mutexvars == <<Owner, RecursionCounter, MutexWaitList, acquiring, held>>

self == RunningThread

\* MutexInit(Mutex, FALSE), before the threads run.
InitMutex ==
  /\ Owner = NULL
  /\ RecursionCounter = 0
  /\ MutexWaitList = <<>>
  /\ acquiring = {}
  /\ held = [t \in Threads |-> 0]

-----------------------------------------------------------------------------
\* The running thread executes the program, not the end of MutexAcquire.
InProgram == UserRuns /\ self \notin acquiring

Holds(t) == held[t] > 0

\* MutexInit(Mutex, TRUE) by a user thread, of a mutex nobody uses.
MutexInitOwned ==
  /\ InProgram
  /\ Owner = NULL
  /\ MutexWaitList' = <<>>
  /\ Owner' = self
  /\ RecursionCounter' = 1
  /\ held' = [held EXCEPT ![self] = 1]
  /\ UNCHANGED <<utvars, acquiring>>

MutexAcquireAgain ==
  /\ InProgram
  /\ Owner = self
  /\ RecursionCounter < MaxRecursion
  /\ RecursionCounter' = RecursionCounter + 1
  /\ held' = [held EXCEPT ![self] = @ + 1]
  /\ UNCHANGED <<utvars, Owner, MutexWaitList, acquiring>>

MutexAcquireFree ==
  /\ InProgram
  /\ Owner = NULL
  /\ Owner' = self
  /\ RecursionCounter' = 1
  /\ held' = [held EXCEPT ![self] = @ + 1]
  /\ UNCHANGED <<utvars, MutexWaitList, acquiring>>

MutexAcquireBusy_AtHead ==
  /\ InProgram
  /\ Owner \notin {self, NULL}
  /\ MutexWaitList' = <<self>> \o MutexWaitList
  /\ acquiring' = acquiring \cup {self}
  /\ UtDeactivate
  /\ UNCHANGED <<Owner, RecursionCounter, held>>

MutexAcquireBusy ==
  /\ InProgram
  /\ Owner \notin {self, NULL}
  /\ MutexWaitList' = Append(MutexWaitList, self)
  /\ acquiring' = acquiring \cup {self}
  /\ UtDeactivate
  /\ UNCHANGED <<Owner, RecursionCounter, held>>

\* MutexAcquire goes on after UtDeactivate, and returns.
MutexAcquired ==
  /\ UserRuns
  /\ self \in acquiring
  /\ acquiring' = acquiring \ {self}
  /\ held' = [held EXCEPT ![self] = @ + 1]
  /\ UNCHANGED <<utvars, Owner, RecursionCounter, MutexWaitList>>

\* The counter is not 0 here (OwnerIsExact), so the decrement does not wrap.
Releasing ==
  /\ InProgram
  /\ Owner = self
  /\ held' = [held EXCEPT ![self] = @ - 1]
  /\ UNCHANGED acquiring

MutexReleaseOnce ==
  /\ Releasing
  /\ RecursionCounter > 1
  /\ RecursionCounter' = RecursionCounter - 1
  /\ UNCHANGED <<utvars, Owner, MutexWaitList>>

MutexReleaseFree ==
  /\ Releasing
  /\ RecursionCounter = 1
  /\ MutexWaitList = <<>>
  /\ Owner' = NULL
  /\ RecursionCounter' = 0
  /\ UNCHANGED <<utvars, MutexWaitList>>

\* Faults: the mutex is left free for the waiter to take, the counter is not
\* set for it, or the waiter is not activated.
MutexReleaseHandOver_LeavesFree ==
  /\ Releasing
  /\ RecursionCounter = 1
  /\ MutexWaitList # <<>>
  /\ Owner' = NULL
  /\ RecursionCounter' = 0
  /\ MutexWaitList' = Tail(MutexWaitList)
  /\ UtActivate(Head(MutexWaitList))
MutexReleaseHandOver_NotCounted ==
  /\ Releasing
  /\ RecursionCounter = 1
  /\ MutexWaitList # <<>>
  /\ Owner' = Head(MutexWaitList)
  /\ RecursionCounter' = 0
  /\ MutexWaitList' = Tail(MutexWaitList)
  /\ UtActivate(Head(MutexWaitList))
MutexReleaseHandOver_NotWoken ==
  /\ Releasing
  /\ RecursionCounter = 1
  /\ MutexWaitList # <<>>
  /\ Owner' = Head(MutexWaitList)
  /\ RecursionCounter' = 1
  /\ MutexWaitList' = Tail(MutexWaitList)
  /\ UNCHANGED utvars

\* Ownership goes to the first waiter, which is activated.
MutexReleaseHandOver ==
  /\ Releasing
  /\ RecursionCounter = 1
  /\ MutexWaitList # <<>>
  /\ Owner' = Head(MutexWaitList)
  /\ RecursionCounter' = 1
  /\ MutexWaitList' = Tail(MutexWaitList)
  /\ UtActivate(Head(MutexWaitList))

MutexRelease == MutexReleaseOnce \/ MutexReleaseFree \/ MutexReleaseHandOver

NextMutex ==
  \/ MutexInitOwned
  \/ MutexAcquireAgain \/ MutexAcquireFree \/ MutexAcquireBusy \/ MutexAcquired
  \/ MutexRelease

-----------------------------------------------------------------------------
\* Type invariant.
MutexTypeOK ==
  /\ Owner \in Threads \cup {NULL}
  /\ RecursionCounter \in 0 .. MaxRecursion
  /\ MutexWaitList \in Seq(Threads)
  /\ acquiring \subseteq Threads
  /\ held \in [Threads -> 0 .. MaxRecursion]

\* The mutex knows who is inside and how deep: a thread that holds it is the
\* owner, so that there is at most one, and the counter is its number of
\* acquisitions to be released (1 while ownership has been handed to a thread
\* that has not run yet).  A thread that leaves the wait list does so as the
\* owner: the assertion after UtDeactivate holds (Mutex.c:59).
OwnerIsExact ==
  /\ \A t \in Threads : Holds(t) => Owner = t /\ RecursionCounter = held[t]
  /\ Owner # NULL /\ ~Holds(Owner) => Owner \in acquiring /\ RecursionCounter = 1
  /\ Owner = NULL => RecursionCounter = 0
  /\ \A t \in acquiring : t \in Range(MutexWaitList) \/ Owner = t

=============================================================================
