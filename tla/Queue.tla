-------------------------------- MODULE Queue --------------------------------
(***************************************************************************)
(* The closable queue of 2019-05-21-src/WinSynch/Queue.cpp: a list and its *)
(* length under a mutex, a semaphore that counts the items, and a          *)
(* manual-reset event that QueueClose sets.                                *)
(*                                                                         *)
(* Threads put, get and close at any time.  QueueDestroy is called once, by*)
(* the owner of the queue, when no other call is in progress.              *)
(***************************************************************************)
EXTENDS WinThreads

CONSTANT MaxPuts    \* bound of the model on the items put

VARIABLES list,             \* the items, written as the threads that put them
          nItems,
          itemsAvaiable,    \* the semaphore
          terminated,       \* the flag; the event is set with it
          destroyed,
          puts,             \* calls of QueuePut so far
          refusedGet        \* history: QueueGet has returned NULL

qvars == <<list, nItems, itemsAvaiable, terminated, destroyed, puts, refusedGet>>

QueueInit ==
  /\ list = <<>>
  /\ nItems = 0
  /\ itemsAvaiable = 0
  /\ terminated = FALSE
  /\ destroyed = FALSE
  /\ puts = 0
  /\ refusedGet = FALSE

-----------------------------------------------------------------------------
\* QueuePut down to ReleaseMutex; "release" is before ReleaseSemaphore.  After
\* QueueClose the item is refused.
QueuePut(t) ==
  /\ ~destroyed
  /\ puts < MaxPuts
  /\ puts' = puts + 1
  /\ \/ /\ ~terminated
        /\ Goto(t, "program", "release")
        /\ list' = Append(list, t)
        /\ nItems' = nItems + 1
     \/ /\ terminated
        /\ InProgram(t) /\ UNCHANGED <<pc, list, nItems>>
  /\ UNCHANGED <<itemsAvaiable, terminated, destroyed, refusedGet>>

QueueRelease(t) ==
  /\ Goto(t, "release", "program")
  /\ itemsAvaiable' = itemsAvaiable + 1
  /\ UNCHANGED <<list, nItems, terminated, destroyed, puts, refusedGet>>

\* WaitForMultipleObjects: the semaphore, index 0, is taken before the event is
\* looked at.
QueueWait(t) ==
  /\ ~destroyed
  /\ \/ /\ itemsAvaiable > 0
        /\ itemsAvaiable' = itemsAvaiable - 1
        /\ Goto(t, "program", "index0")
     \/ /\ itemsAvaiable = 0 /\ terminated
        /\ Goto(t, "program", "index1")
        /\ UNCHANGED itemsAvaiable
  /\ UNCHANGED <<list, nItems, terminated, destroyed, puts, refusedGet>>

\* A fault: a getter that the event woke takes nothing.
QueueTake_OnlyPermits(t) ==
  /\ \/ /\ pc[t] = "index0"
        /\ list' = IF list = <<>> THEN <<>> ELSE Tail(list)
        /\ nItems' = nItems - 1
        /\ UNCHANGED refusedGet
     \/ /\ pc[t] = "index1"
        /\ refusedGet' = TRUE
        /\ UNCHANGED <<list, nItems>>
  /\ pc' = [pc EXCEPT ![t] = "program"]
  /\ UNCHANGED <<itemsAvaiable, terminated, destroyed, puts>>

\* The rest of QueueGet, under the mutex.  RemoveHeadList of an empty list
\* leaves it empty, and the caller gets the queue itself for an item.
QueueTake(t) ==
  /\ \/ /\ pc[t] = "index0" \/ (pc[t] = "index1" /\ nItems > 0)
        /\ list' = IF list = <<>> THEN <<>> ELSE Tail(list)
        /\ nItems' = nItems - 1
        /\ UNCHANGED refusedGet
     \/ /\ pc[t] = "index1" /\ nItems <= 0
        /\ refusedGet' = TRUE
        /\ UNCHANGED <<list, nItems>>
  /\ pc' = [pc EXCEPT ![t] = "program"]
  /\ UNCHANGED <<itemsAvaiable, terminated, destroyed, puts>>

\* A later QueueClose changes nothing.
QueueClose(t) ==
  /\ InProgram(t) /\ UNCHANGED pc
  /\ ~destroyed /\ ~terminated
  /\ terminated' = TRUE
  /\ UNCHANGED <<list, nItems, itemsAvaiable, destroyed, puts, refusedGet>>

\* The call that succeeds; any other changes nothing.
QueueDestroy ==
  /\ \A t \in Threads : InProgram(t)
  /\ ~destroyed
  /\ terminated /\ nItems = 0
  /\ destroyed' = TRUE
  /\ UNCHANGED <<pc, list, nItems, itemsAvaiable, terminated, puts, refusedGet>>

QueueNext ==
  \/ \E t \in Threads :
       \/ QueuePut(t) \/ QueueRelease(t) \/ QueueWait(t) \/ QueueTake(t)
       \/ QueueClose(t)
  \/ QueueDestroy

QueueSpec ==
  pc = [t \in Threads |-> "program"] /\ QueueInit /\ [][QueueNext]_<<pc, qvars>>

-----------------------------------------------------------------------------
\* The permits of the semaphore and the items agree: until the queue is closed
\* each item in the list has its permit in the semaphore, with the putter that
\* is about to release it, or with a getter that is about to take it; and
\* afterwards no item is without one.  QueueGet answers NULL only when nothing is
\* left and nothing will come: an item put before QueueClose is not left behind.
QueuePermitsMatch ==
  LET permits == itemsAvaiable + Cardinality(At("release") \cup At("index0"))
  IN /\ Len(list) <= permits
     /\ ~terminated => Len(list) = permits /\ nItems = Len(list)
     /\ refusedGet => terminated /\ list = <<>>

\* What Include/WinSynch.h:91 says of QueueGet: it blocks the calling thread
\* while the queue is empty.
QueueTakesOnlyItems ==
  At("index0") # {} => list # <<>>
=============================================================================
