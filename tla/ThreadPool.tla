------------------------------ MODULE ThreadPool ------------------------------
(***************************************************************************)
(* The two thread pools of 2019-05-16-src: workers that take work units    *)
(* from a blocking queue.  The queue of ThreadPool0 holds at most MAXITEMS *)
(* units and makes a putter wait for space; the queue of ThreadPool is     *)
(* unbounded.  A unit is the argument its function is called with.         *)
(*                                                                         *)
(* The main thread initializes the pool before it queues the first unit and*)
(* is the only one that queues.  BQ_Put is two steps, down to the release  *)
(* of the mutex and the release of hasItems; its caller keeps the control. *)
(***************************************************************************)
EXTENDS Naturals, Sequences, FiniteSets

CONSTANTS Workers,      \* the threads of the pool
          NoUnit,
          MAXITEMS

ASSUME ThreadPoolAssumption == IsFiniteSet(Workers) /\ MAXITEMS \in Nat \ {0}

VARIABLES bounded,      \* the version: ThreadPool0 or ThreadPool
          bqueue,       \* q->list
          hasItems, hasSpace,   \* the semaphores
          worker,       \* of each worker: where it is
          unit,         \* of each worker: the unit it executes
          putting       \* the caller of BQ_Put has yet to release hasItems

queuevars == <<bounded, bqueue, hasItems, hasSpace, putting>>
poolvars == <<queuevars, worker, unit>>

TpInit ==
  /\ bounded \in BOOLEAN
  /\ bqueue = <<>>
  /\ hasItems = 0
  /\ hasSpace = MAXITEMS
  /\ worker = [w \in Workers |-> "get"]
  /\ unit = [w \in Workers |-> NoUnit]
  /\ putting = FALSE

-----------------------------------------------------------------------------
BQ_Insert(item) ==
  /\ ~putting
  /\ bqueue' = Append(bqueue, item)
  /\ putting' = TRUE
  /\ UNCHANGED <<bounded, hasItems, worker, unit>>

BQ_Put(item) == ~bounded /\ BQ_Insert(item) /\ UNCHANGED hasSpace

BQ_Put0(item) ==
  /\ bounded
  /\ hasSpace > 0 /\ hasSpace' = hasSpace - 1
  /\ BQ_Insert(item)

BQ_Released ==
  /\ putting /\ putting' = FALSE
  /\ hasItems' = hasItems + 1
  /\ UNCHANGED <<bounded, bqueue, hasSpace, worker, unit>>

TpQueueItem(item) == BQ_Put(item) \/ BQ_Put0(item)

\* A worker waits for an item ("get"), takes it under the mutex ("take"), gives
\* the space back ("space", ThreadPool0 only) and calls the function ("call").
WorkerGoes(w, from, to) == worker[w] = from /\ worker' = [worker EXCEPT ![w] = to]

BQ_Wait(w) ==
  /\ hasItems > 0 /\ hasItems' = hasItems - 1
  /\ WorkerGoes(w, "get", "take")
  /\ UNCHANGED <<bounded, bqueue, hasSpace, putting, unit>>

\* A fault: the item is read and not removed.
BQ_Get_Peek(w) ==
  /\ WorkerGoes(w, "take", IF bounded THEN "space" ELSE "call")
  /\ unit' = [unit EXCEPT ![w] = IF bqueue = <<>> THEN NoUnit ELSE bqueue[1]]
  /\ UNCHANGED queuevars

\* RemoveHeadList of an empty list would leave it empty.
BQ_Get(w) ==
  /\ WorkerGoes(w, "take", IF bounded THEN "space" ELSE "call")
  /\ unit' = [unit EXCEPT ![w] = IF bqueue = <<>> THEN NoUnit ELSE Head(bqueue)]
  /\ bqueue' = IF bqueue = <<>> THEN <<>> ELSE Tail(bqueue)
  /\ UNCHANGED <<bounded, hasItems, hasSpace, putting>>

BQ_Get0(w) ==
  /\ WorkerGoes(w, "space", "call")
  /\ hasSpace' = hasSpace + 1
  /\ UNCHANGED <<bounded, bqueue, hasItems, putting, unit>>

WorkerGets(w) == BQ_Wait(w) \/ BQ_Get(w) \/ BQ_Get0(w)

\* The function returned: WorkerThreadFunc frees the unit and loops.
WorkerThreadFunc(w) ==
  /\ WorkerGoes(w, "return", "get")
  /\ unit' = [unit EXCEPT ![w] = NoUnit]
  /\ UNCHANGED queuevars

TpOk == bqueue = <<>>

-----------------------------------------------------------------------------
\* The items in the queue have their permits in hasItems, with the putter that is
\* about to release it or with a worker that is about to take one, which makes
\* the assertion of ThreadPool0/BQueue.cpp:46 true: nobody takes from an empty
\* queue.  The space is in hasSpace, taken by an item, or about to be given back.
PoolPermitsMatch ==
  LET takers == {w \in Workers : worker[w] = "take"}
      givers == {w \in Workers : worker[w] = "space"}
  IN /\ Len(bqueue) = hasItems + Cardinality(takers) + (IF putting THEN 1 ELSE 0)
     /\ bounded => hasSpace + Len(bqueue) + Cardinality(givers) = MAXITEMS
     /\ \A w \in Workers : worker[w] \in {"space", "call"} => unit[w] # NoUnit
=============================================================================
