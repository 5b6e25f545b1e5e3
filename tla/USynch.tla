-------------------------------- MODULE USynch --------------------------------
(***************************************************************************)
(* The three synchronizers of 2019-04-09-src/Uthreads2/USynch used by the  *)
(* same threads: any of them may hold the mutex, wait for the event and    *)
(* take permits of the semaphore, in any order.                            *)
(*                                                                         *)
(* A thread that gets the processor at the end of MutexAcquire finishes the*)
(* call before it does anything else (InProgram), releases only what it    *)
(* owns and owns nothing when it exits.                                    *)
(***************************************************************************)
EXTENDS Mutex, Event, Semaphore

synchvars == <<mutexvars, eventvars, semvars>>
vars == <<utvars, synchvars>>

Init == UtInit /\ InitMutex /\ InitEvent /\ InitSemaphore

Exit == InProgram /\ ~Holds(self) /\ UtExit /\ UNCHANGED synchvars
Yield == InProgram /\ UtYield /\ UNCHANGED synchvars
Return == UtRunReturn /\ UNCHANGED synchvars
Create(t) == RunningThread \notin acquiring /\ UtCreate(t) /\ UNCHANGED synchvars

UseMutex == NextMutex /\ UNCHANGED <<eventvars, semvars>>
UseEvent ==
  RunningThread \notin acquiring /\ NextEvent /\ UNCHANGED <<mutexvars, semvars>>
UseSemaphore ==
  RunningThread \notin acquiring /\ NextSemaphore /\ UNCHANGED <<mutexvars, eventvars>>

NextUSynch ==
  \/ UseMutex \/ UseEvent \/ UseSemaphore
  \/ Exit \/ Yield \/ Return
  \/ UtRun /\ UNCHANGED synchvars
  \/ \E t \in Threads : Create(t)

SpecUSynch == Init /\ [][NextUSynch]_vars

\* A running thread ends by giving the processor up, a call of MutexAcquire and
\* UtRun go on when they are switched in, and a critical section ends: the owner
\* that runs again and again takes back what it acquired, and then leaves.
GiveUpUSynch ==
  \/ Yield \/ Exit
  \/ (MutexAcquireBusy /\ UNCHANGED <<eventvars, semvars>>)
  \/ (InProgram /\ EventWaitBlocks /\ UNCHANGED <<mutexvars, semvars>>)
  \/ \E n \in Requests :
       InProgram /\ SemaphoreAcquireBlocks(n) /\ UNCHANGED <<mutexvars, eventvars>>
FairSpecUSynch ==
  /\ SpecUSynch
  /\ WF_vars(GiveUpUSynch)
  /\ WF_vars(MutexAcquired /\ UNCHANGED <<eventvars, semvars>>)
  /\ WF_vars(Return)
  /\ SF_vars(MutexReleaseOnce /\ UNCHANGED <<eventvars, semvars>>)
  /\ SF_vars(/\ MutexReleaseFree \/ MutexReleaseHandOver
             /\ UNCHANGED <<eventvars, semvars>>)

-----------------------------------------------------------------------------
\* Type invariant.
USynchTypeOK == TypeOK /\ MutexTypeOK /\ EventTypeOK /\ SemTypeOK

\* No thread is lost and none waits twice: those that neither run nor are ready
\* are exactly the ones in the three wait lists, each once and in one of them.
WaitersAreParked ==
  /\ IsInjective(MutexWaitList) /\ IsInjective(EventWaitList) /\ IsInjective(Queued)
  /\ Range(MutexWaitList) \cup Range(EventWaitList) \cup Range(Queued) = Parked
  /\ Range(MutexWaitList) \cap Range(EventWaitList) = {}
  /\ Range(MutexWaitList) \cap Range(Queued) = {}
  /\ Range(EventWaitList) \cap Range(Queued) = {}

\* Every call of MutexAcquire returns, recursive holders and yields included,
\* while UtRun is active, unless the owner goes to wait for the event or for
\* permits.
OwnerWaits == Owner \in Range(EventWaitList) \cup Range(Queued)
AcquireReturns ==
  \A t \in Threads :
    (t \in acquiring /\ MainThread = Main) ~> (t \notin acquiring \/ OwnerWaits)

\* Nobody overtakes a waiter: of two threads in the wait list the one behind is
\* not made owner while the one in front still waits, and neither is a newcomer.
WaitersInOrder ==
  [][\A i \in DOMAIN MutexWaitList :
        Owner' # Owner /\ MutexWaitList[i] \in Range(MutexWaitList')
          => \E j \in 1 .. i - 1 : Owner' = MutexWaitList[j]]_vars
=============================================================================
