------------------------------- MODULE WinSynch -------------------------------
(***************************************************************************)
(* The synchronizers of 2019-05-21-src/WinSynch, side by side: the threads *)
(* of a behavior share one of them, which object names, and call nothing of*)
(* the others.                                                             *)
(***************************************************************************)
EXTENDS UserMutex, CyclicBarrier, CountDownLatch, Queue, SimpleQueue

VARIABLE object

winvars == <<pc, umtxvars, cbvars, cdlvars, qvars, sqvars, object>>

WinSynchInit ==
  /\ pc = [t \in Threads |-> "program"]
  /\ UMtxInit /\ CB_Init /\ CDL_Init /\ QueueInit /\ SQueueInit
  /\ object \in {"mutex", "barrier", "latch", "queue", "simple queue"}

\* A step A of the object in use leaves the others alone.
OfMutex(A) ==
  object = "mutex" /\ A /\ UNCHANGED <<cbvars, cdlvars, qvars, sqvars, object>>
OfBarrier(A) ==
  object = "barrier" /\ A /\ UNCHANGED <<umtxvars, cdlvars, qvars, sqvars, object>>
OfLatch(A) ==
  object = "latch" /\ A /\ UNCHANGED <<umtxvars, cbvars, qvars, sqvars, object>>
OfQueue(A) ==
  object = "queue" /\ A /\ UNCHANGED <<umtxvars, cbvars, cdlvars, sqvars, object>>
OfSimpleQueue(A) ==
  /\ object = "simple queue" /\ A
  /\ UNCHANGED <<umtxvars, cbvars, cdlvars, qvars, object>>

WinSynchNext ==
  \/ OfMutex(UMtxNext) \/ OfBarrier(CB_Next) \/ OfLatch(CDL_Next)
  \/ OfQueue(QueueNext) \/ OfSimpleQueue(SQueueNext)

WinSynchSpec == WinSynchInit /\ [][WinSynchNext]_winvars

\* Windows runs every thread, and lets one that waits for an auto-reset event go
\* on if the event is set again and again; the owner of the mutex releases it as
\* often as it acquired it.  A peer of the barrier need not come back.
FairWinSynchSpec ==
  /\ WinSynchSpec
  /\ \A t \in Threads :
       /\ WF_winvars(OfMutex(UMtxStep(t)))
       /\ WF_winvars(OfMutex(UMtxReleaseOnce(t)))
       /\ SF_winvars(OfMutex(UMtxWait(t)))
       /\ SF_winvars(OfMutex(UMtxRelease(t)))
       /\ WF_winvars(OfBarrier(CB_Continue(t)))
       /\ WF_winvars(OfLatch(CDL_SetEvent(t) \/ CDL_WaitEvent(t) \/ CDL_ResetEvent(t)))

-----------------------------------------------------------------------------
\* Every call returns that has to: an acquisition of the mutex, a wait at the
\* barrier when all peers have come, a wait for the latch when all have signaled
\* and no reset meets it.
CallsReturn == UMtxAcquireReturns /\ CB_WaitReturns /\ CDL_WaitReturns
=============================================================================
