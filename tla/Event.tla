-------------------------------- MODULE Event --------------------------------
(***************************************************************************)
(* The auto-reset event of 2019-04-09-src/Uthreads2/USynch/Event.c, for    *)
(* threads of the cooperative scheduler; each call is one action.  The     *)
(* program outside UtRun may set the event too.                            *)
(*                                                                         *)
(* sets and passed are history variables: the calls of EventSet, and the   *)
(* calls of EventWait that were let through.                               *)
(***************************************************************************)
EXTENDS UThread

CONSTANTS InitialState,     \* the argument of EventInit
          MaxSets           \* bound of the model on the calls of EventSet

ASSUME EventAssumption == InitialState \in BOOLEAN /\ MaxSets \in Nat

VARIABLES Signaled,
          EventWaitList,          \* the threads of the wait blocks, in list order
          sets, passed

eventvars == <<Signaled, EventWaitList, sets, passed>>

InitEvent ==
  /\ Signaled = InitialState
  /\ EventWaitList = <<>>
  /\ sets = 0
  /\ passed = 0

-----------------------------------------------------------------------------
\* A fault: the signal is not consumed.
EventWaitSignaled_Keeps ==
  /\ UserRuns
  /\ Signaled
  /\ passed' = passed + 1
  /\ UNCHANGED <<utvars, Signaled, EventWaitList, sets>>

EventWaitSignaled ==
  /\ UserRuns
  /\ Signaled
  /\ Signaled' = FALSE
  /\ passed' = passed + 1
  /\ UNCHANGED <<utvars, EventWaitList, sets>>

EventWaitBlocks ==
  /\ UserRuns
  /\ ~Signaled
  /\ EventWaitList' = Append(EventWaitList, RunningThread)
  /\ UtDeactivate
  /\ UNCHANGED <<Signaled, sets, passed>>

EventSetNoWaiter ==
  /\ Executing
  /\ EventWaitList = <<>>
  /\ sets < MaxSets
  /\ Signaled' = TRUE
  /\ sets' = sets + 1
  /\ UNCHANGED <<utvars, EventWaitList, passed>>

EventSetWakes ==
  /\ EventWaitList # <<>>
  /\ sets < MaxSets
  /\ EventWaitList' = Tail(EventWaitList)
  /\ UtActivate(Head(EventWaitList))
  /\ sets' = sets + 1
  /\ passed' = passed + 1
  /\ UNCHANGED Signaled

-----------------------------------------------------------------------------
NextEvent ==
  \/ EventWaitSignaled \/ EventWaitBlocks
  \/ EventSetNoWaiter \/ EventSetWakes

\* Type invariant.
EventTypeOK ==
  /\ Signaled \in BOOLEAN
  /\ EventWaitList \in Seq(Threads)
  /\ sets \in 0 .. MaxSets
  /\ passed \in Nat

\* A signal is never kept while somebody waits for it; and each call of EventSet
\* lets at most one call of EventWait through, a signal that is still there none:
\* sets collapse, they do not add up.
SignalsAreExact ==
  /\ Signaled => EventWaitList = <<>>
  /\ passed + (IF Signaled THEN 1 ELSE 0) <= sets + (IF InitialState THEN 1 ELSE 0)
=============================================================================
