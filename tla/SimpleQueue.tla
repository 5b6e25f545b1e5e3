----------------------------- MODULE SimpleQueue -----------------------------
(***************************************************************************)
(* The bounded queue of 2019-05-21-src/WinSynch/SimpleQueue.cpp: a list    *)
(* under a lock, a semaphore for its items, one for its free places, and a *)
(* manual-reset event that SQueueClose sets.                               *)
(*                                                                         *)
(* A place is a permit of one of the semaphores or with a thread on its way*)
(* between them.  lost is a history variable: the places of the puts that  *)
(* were refused, which SQueuePut does not give back.                       *)
(***************************************************************************)
EXTENDS WinThreads

CONSTANTS maxItems, MaxSQueuePuts   \* MaxSQueuePuts: bound of the model

ASSUME SimpleQueueAssumption == maxItems \in Nat

VARIABLES slist, snItems,
          sitemsAvaiable, spaceAvaiable,
          sterminated,          \* the flag; the event is set with it
          sputs, lost

sqvars == <<slist, snItems, sitemsAvaiable, spaceAvaiable, sterminated, sputs, lost>>

SQueueInit ==
  /\ slist = <<>>
  /\ snItems = 0
  /\ sitemsAvaiable = 0
  /\ spaceAvaiable = maxItems
  /\ sterminated = FALSE
  /\ sputs = 0
  /\ lost = 0

-----------------------------------------------------------------------------
\* SQueuePut: the wait for a free place, which SQueueClose does not end.
SQueueWaitSpace(t) ==
  /\ sputs < MaxSQueuePuts
  /\ sputs' = sputs + 1
  /\ Goto(t, "program", "put")
  /\ spaceAvaiable > 0
  /\ spaceAvaiable' = spaceAvaiable - 1
  /\ UNCHANGED <<slist, snItems, sitemsAvaiable, sterminated, lost>>

\* Under the lock; "filled" is before ReleaseSemaphore.
SQueuePut(t) ==
  /\ \/ /\ ~sterminated
        /\ Goto(t, "put", "filled")
        /\ slist' = Append(slist, t)
        /\ snItems' = snItems + 1
        /\ UNCHANGED lost
     \/ /\ sterminated
        /\ Goto(t, "put", "program")
        /\ lost' = lost + 1
        /\ UNCHANGED <<slist, snItems>>
  /\ UNCHANGED <<sitemsAvaiable, spaceAvaiable, sterminated, sputs>>

SQueueReleaseItem(t) ==
  /\ Goto(t, "filled", "program")
  /\ sitemsAvaiable' = sitemsAvaiable + 1
  /\ UNCHANGED <<slist, snItems, spaceAvaiable, sterminated, sputs, lost>>

\* SQueueGet: index 0 of WaitForMultipleObjects before index 1.  A getter that
\* the event woke returns NULL.
SQueueWait(t) ==
  /\ \/ /\ sitemsAvaiable > 0
        /\ sitemsAvaiable' = sitemsAvaiable - 1
        /\ Goto(t, "program", "get")
     \/ /\ sitemsAvaiable = 0 /\ sterminated
        /\ InProgram(t) /\ UNCHANGED <<pc, sitemsAvaiable>>
  /\ UNCHANGED <<slist, snItems, spaceAvaiable, sterminated, sputs, lost>>

SQueueGet(t) ==
  /\ Goto(t, "get", "emptied")
  /\ slist' = IF slist = <<>> THEN <<>> ELSE Tail(slist)
  /\ snItems' = snItems - 1
  /\ UNCHANGED <<sitemsAvaiable, spaceAvaiable, sterminated, sputs, lost>>

\* A fault: the getter gives back an item's permit instead of a place's.
SQueueReleaseSpace_Item(t) ==
  /\ Goto(t, "emptied", "program")
  /\ sitemsAvaiable' = sitemsAvaiable + 1
  /\ UNCHANGED <<slist, snItems, spaceAvaiable, sterminated, sputs, lost>>

SQueueReleaseSpace(t) ==
  /\ Goto(t, "emptied", "program")
  /\ spaceAvaiable' = spaceAvaiable + 1
  /\ UNCHANGED <<slist, snItems, sitemsAvaiable, sterminated, sputs, lost>>

SQueueClose(t) ==
  /\ InProgram(t) /\ UNCHANGED pc
  /\ ~sterminated
  /\ sterminated' = TRUE
  /\ UNCHANGED <<slist, snItems, sitemsAvaiable, spaceAvaiable, sputs, lost>>

SQueueNext ==
  \E t \in Threads :
    \/ SQueueWaitSpace(t) \/ SQueuePut(t) \/ SQueueReleaseItem(t)
    \/ SQueueWait(t) \/ SQueueGet(t) \/ SQueueReleaseSpace(t) \/ SQueueClose(t)

-----------------------------------------------------------------------------
\* The two semaphores agree with the list whatever the order of puts, gets and
\* the close: the list never holds more than maxItems, a getter that has a permit
\* finds an item, and the places are all accounted for, those of refused puts
\* being gone for good.
SQueueAccounts ==
  /\ snItems = Len(slist)
  /\ Len(slist) = sitemsAvaiable + Cardinality(At("filled") \cup At("get"))
  /\ maxItems = spaceAvaiable + Len(slist) + lost
                  + Cardinality(At("put") \cup At("emptied"))
=============================================================================
