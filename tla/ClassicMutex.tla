----------------------------- MODULE ClassicMutex -----------------------------
(***************************************************************************)
(* Peterson's mutual exclusion between two Windows threads on two          *)
(* processors, 2019-05-21-src/UthreadsMultiCore/ClassicMutex.  A processor *)
(* keeps its stores in a buffer, in order, and they reach the memory later;*)
(* MemoryBarrier waits until they have.                                    *)
(***************************************************************************)
EXTENDS Naturals, Sequences

CONSTANT CounterTries       \* NTRIES

ASSUME ClassicMutexAssumption == CounterTries \in Nat

VARIABLES memory,       \* interested[0], interested[1], turn, count
          stores,       \* of each processor: the buffer
          counter,      \* of each thread: where CounterThread is
          tmp,          \* of each thread: the value of count it read
          tries         \* of each thread: the loop variable i

petersonvars == <<memory, stores, counter, tmp, tries>>

Ids == {0, 1}
interested(i) == IF i = 0 THEN "interested0" ELSE "interested1"

PetersonInit ==
  /\ memory = [interested0 |-> FALSE, interested1 |-> FALSE, turn |-> 0, count |-> 0]
  /\ stores = [i \in Ids |-> <<>>]
  /\ counter = [i \in Ids |-> "loop"]
  /\ tmp = [i \in Ids |-> 0]
  /\ tries = [i \in Ids |-> 0]

-----------------------------------------------------------------------------
CounterGoes(i, from, to) == counter[i] = from /\ counter' = [counter EXCEPT ![i] = to]

Store(i, variable, value) ==
  stores' = [stores EXCEPT ![i] = Append(@, [var |-> variable, val |-> value])]

\* A processor reads its own last store of the variable before the memory.
Own(i, variable) == {k \in DOMAIN stores[i] : stores[i][k].var = variable}
Load(i, variable) ==
  IF Own(i, variable) = {} THEN memory[variable]
  ELSE LET last == CHOOSE k \in Own(i, variable) : \A l \in Own(i, variable) : l <= k
       IN stores[i][last].val

StoreReachesMemory(i) ==
  /\ stores[i] # <<>>
  /\ memory' = [memory EXCEPT ![Head(stores[i]).var] = Head(stores[i]).val]
  /\ stores' = [stores EXCEPT ![i] = Tail(@)]
  /\ UNCHANGED <<counter, tmp, tries>>

-----------------------------------------------------------------------------
EnterCritical(i) ==
  /\ tries[i] < CounterTries
  /\ CounterGoes(i, "loop", "turn")
  /\ Store(i, interested(i), TRUE)
  /\ UNCHANGED <<memory, tmp, tries>>

GiveTurn(i) ==
  /\ CounterGoes(i, "turn", "barrier")
  /\ Store(i, "turn", 1 - i)
  /\ UNCHANGED <<memory, tmp, tries>>

\* A fault: without the barrier the loads overtake the stores.
MemoryBarrier_Not(i) ==
  /\ CounterGoes(i, "barrier", "other")
  /\ UNCHANGED <<memory, stores, tmp, tries>>

MemoryBarrier(i) ==
  /\ stores[i] = <<>>
  /\ CounterGoes(i, "barrier", "other")
  /\ UNCHANGED <<memory, stores, tmp, tries>>

\* The two operands of the loop's condition.
OtherInterested(i) ==
  /\ CounterGoes(i, "other", IF Load(i, interested(1 - i)) THEN "whose" ELSE "critical")
  /\ UNCHANGED <<memory, stores, tmp, tries>>

WhoseTurn(i) ==
  /\ CounterGoes(i, "whose", IF Load(i, "turn") = 1 - i THEN "other" ELSE "critical")
  /\ UNCHANGED <<memory, stores, tmp, tries>>

\* count += 1.
CountRead(i) ==
  /\ CounterGoes(i, "critical", "add")
  /\ tmp' = [tmp EXCEPT ![i] = Load(i, "count")]
  /\ UNCHANGED <<memory, stores, tries>>

CountWritten(i) ==
  /\ CounterGoes(i, "add", "leave")
  /\ Store(i, "count", tmp[i] + 1)
  /\ UNCHANGED <<memory, tmp, tries>>

\* A fault: the thread stays interested.
LeaveCritical_Stays(i) ==
  /\ CounterGoes(i, "leave", "loop")
  /\ tries' = [tries EXCEPT ![i] = @ + 1]
  /\ UNCHANGED <<memory, stores, tmp>>

LeaveCritical(i) ==
  /\ CounterGoes(i, "leave", "loop")
  /\ Store(i, interested(i), FALSE)
  /\ tries' = [tries EXCEPT ![i] = @ + 1]
  /\ UNCHANGED <<memory, tmp>>

\* _tmain, when both threads have ended, begins again.
CounterEnded == \A i \in Ids : tries[i] = CounterTries /\ stores[i] = <<>>

StartAgain ==
  /\ CounterEnded
  /\ memory' = [memory EXCEPT !.count = 0]
  /\ tries' = [i \in Ids |-> 0]
  /\ UNCHANGED <<stores, counter, tmp>>

CounterThread(i) ==
  \/ EnterCritical(i) \/ GiveTurn(i) \/ MemoryBarrier(i)
  \/ OtherInterested(i) \/ WhoseTurn(i)
  \/ CountRead(i) \/ CountWritten(i) \/ LeaveCritical(i)

PetersonNext ==
  StartAgain \/ \E i \in Ids : CounterThread(i) \/ StoreReachesMemory(i)

PetersonSpec == PetersonInit /\ [][PetersonNext]_petersonvars

-----------------------------------------------------------------------------
\* Between the loop and the store that leaves, a thread is alone, and no
\* increment is lost although a store of count may still be in the buffer when
\* its thread has left (the commented assertion of ClassicMutex.cpp:64).
PetersonExclusion ==
  /\ ~\A i \in Ids : counter[i] \in {"critical", "add", "leave"}
  /\ CounterEnded => memory.count = 2 * CounterTries

\* Whoever wants to enter does.
PetersonEnters == \A i \in Ids : counter[i] = "turn" ~> counter[i] = "critical"
=============================================================================
