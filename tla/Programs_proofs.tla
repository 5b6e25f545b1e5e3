---------------------------- MODULE Programs_proofs ----------------------------
(* Theorems about the programs of the course and what they stand on: Peterson's *)
(* mutual exclusion, the asynchronous file copy, the search with a completion  *)
(* port, the linked lists and the context switch.                             *)
EXTENDS ClassicMutex, AsyncCopy, SearchIOCP, ListEntry, ContextSwitch, DataLemmas

-----------------------------------------------------------------------------
(* Peterson's mutual exclusion with store buffers, for any number of tries.   *)

Vars == {"interested0", "interested1", "turn", "count"}
Stored ==
  [var : {"interested0", "interested1"}, val : BOOLEAN]
    \cup [var : {"turn"}, val : Ids] \cup [var : {"count"}, val : Nat]

\* The four stores of a thread, in the order of a round that begins with the count.
Round(i) ==
  << [var |-> "count", val |-> memory["count"] + 1],
     [var |-> interested(i), val |-> FALSE],
     [var |-> interested(i), val |-> TRUE],
     [var |-> "turn", val |-> 1 - i] >>

\* The last of them that a thread has made, by its place.
Made ==
  [loop |-> 2, turn |-> 3, barrier |-> 4, other |-> 4, whose |-> 4,
   critical |-> 4, add |-> 4, leave |-> 1]

\* The buffer of thread i holds the stores f to l of a round.
Buffered(i, f, l) ==
  /\ f \in 1 .. l + 1 /\ Len(stores[i]) = l + 1 - f
  /\ \A k \in 1 .. Len(stores[i]) : stores[i][k] = Round(i)[f + k - 1]

\* Thread i, the first of whose stores not yet in memory is the one at f.
Mine(i, f) ==
  /\ Buffered(i, f, Made[counter[i]])
  /\ counter[i] \in {"other", "whose", "critical", "add"} => f = 5
  /\ memory[interested(i)] = FALSE <=> f = 3
  /\ counter[i] = "add" => tmp[i] = memory["count"]
  /\ tries[i] <= CounterTries
  /\ counter[i] # "loop" => tries[i] < CounterTries

\* A thread holds the critical section until its store of FALSE is in memory, and
\* competes for it once its store of the turn is.
Holding(i, f) == f <= 2 \/ counter[i] \in {"critical", "add"}
Competing(i, f) == f = 5 /\ counter[i] \in {"barrier", "other", "whose"}

Done(i) == tries[i] + (IF counter[i] = "leave" THEN 1 ELSE 0)
Pending(f) == IF f = 1 THEN 1 ELSE 0

\* At most one holds, one that competes has given it the turn, and every increment
\* is in the count or still in a buffer.
Both(i, f, h) ==
  /\ Holding(i, f) => /\ ~Holding(1 - i, h)
                      /\ Competing(1 - i, h) => memory["turn"] = i
  /\ Holding(1 - i, h) => (Competing(i, f) => memory["turn"] = 1 - i)
  /\ memory["count"] + (Pending(f) + Pending(h)) = Done(0) + Done(1)

\* Type invariant.
PetersonTypeOK ==
  /\ memory = [v \in Vars |-> memory[v]]
  /\ memory["interested0"] \in BOOLEAN /\ memory["interested1"] \in BOOLEAN
  /\ memory["turn"] \in Ids /\ memory["count"] \in Nat
  /\ stores \in [Ids -> Seq(Stored)]
  /\ counter \in [Ids -> DOMAIN Made]
  /\ tmp \in [Ids -> Nat]
  /\ tries \in [Ids -> Nat]

\* The inductive invariant, from either thread.
Known(i) == \E f, h \in 1 .. 5 : Mine(i, f) /\ Mine(1 - i, h) /\ Both(i, f, h)
PetersonIInv == PetersonTypeOK /\ Known(0)

-----------------------------------------------------------------------------
\* The two threads, and the flags they have in memory.
LEMMA Names ==
  ASSUME NEW i \in Ids
  PROVE  /\ 1 - i \in Ids /\ 1 - i # i /\ 1 - (1 - i) = i
         /\ Ids = {i, 1 - i} /\ i \in Nat
         /\ interested(i) \in {"interested0", "interested1"}
         /\ interested(i) # interested(1 - i)
         /\ interested(i) # "turn" /\ interested(i) # "count"
BY DEF Ids, interested

\* What is known of both is the same seen from either thread.
LEMMA Symmetric ==
  ASSUME NEW i \in Ids
  PROVE  (Known(i) <=> Known(0)) /\ (Known(i) <=> Known(0))'
<1>1. CASE i = 0
  BY <1>1
<1>2. CASE i = 1
  <2>1. 1 - i = 0 /\ 1 - 0 = i
    BY <1>2
  <2>2. ASSUME NEW f \in 1 .. 5, NEW h \in 1 .. 5
        PROVE  (Both(i, f, h) <=> Both(0, h, f)) /\ (Both(i, f, h) <=> Both(0, h, f))'
    <3>1. Both(i, f, h) <=> Both(0, h, f)
      BY <1>2, <2>1 DEF Both, Pending
    <3>2. (Both(i, f, h) <=> Both(0, h, f))'
      BY <1>2, <2>1 DEF Both, Pending
    <3> QED BY <3>1, <3>2
  <2> QED BY <1>2, <2>1, <2>2 DEF Known
<1> QED BY <1>1, <1>2 DEF Ids

\* The four stores one by one.
LEMMA RoundIs ==
  ASSUME NEW i \in Ids, PetersonTypeOK
  PROVE  /\ Round(i)[1] = [var |-> "count", val |-> memory["count"] + 1]
         /\ Round(i)[2] = [var |-> interested(i), val |-> FALSE]
         /\ Round(i)[3] = [var |-> interested(i), val |-> TRUE]
         /\ Round(i)[4] = [var |-> "turn", val |-> 1 - i]
         /\ \A k \in 1 .. 4 : Round(i)[k] \in Stored
<1>1. /\ Round(i)[1] = [var |-> "count", val |-> memory["count"] + 1]
      /\ Round(i)[2] = [var |-> interested(i), val |-> FALSE]
      /\ Round(i)[3] = [var |-> interested(i), val |-> TRUE]
      /\ Round(i)[4] = [var |-> "turn", val |-> 1 - i]
  BY DEF Round
<1>2. Round(i)[1] \in Stored
  BY <1>1 DEF Stored, PetersonTypeOK
<1>3. Round(i)[2] \in Stored /\ Round(i)[3] \in Stored
  <2>1. \A v \in {"interested0", "interested1"}, b \in BOOLEAN :
          [var |-> v, val |-> b] \in Stored
    BY DEF Stored
  <2>2. Round(i)[2] \in Stored
    BY <1>1, <2>1, Names, Zenon
  <2>3. Round(i)[3] \in Stored
    BY <1>1, <2>1, Names, Zenon
  <2> QED BY <2>2, <2>3
<1>4. Round(i)[4] \in Stored
  BY <1>1, Names DEF Stored
<1> QED BY <1>1, <1>2, <1>3, <1>4

\* A step of one thread that leaves the memory alone leaves the other as it was.
LEMMA OtherKept ==
  ASSUME NEW i \in Ids, NEW f, Mine(i, f),
         memory' = memory, stores'[i] = stores[i], counter'[i] = counter[i],
         tmp'[i] = tmp[i], tries'[i] = tries[i]
  PROVE  Mine(i, f)'
BY DEF Mine, Buffered, Round

\* A step that appends the next store of the round.
LEMMA Appended ==
  ASSUME PetersonTypeOK, NEW i \in Ids, NEW l \in 0 .. 3, NEW n, n = l + 1,
         NEW f, Buffered(i, f, l),
         memory' = memory, stores' = [stores EXCEPT ![i] = Append(@, Round(i)[n])]
  PROVE  /\ stores' \in [Ids -> Seq(Stored)] /\ stores'[1 - i] = stores[1 - i]
         /\ Buffered(i, f, n)'
<1>1. Round(i)[n] \in Stored /\ Round(i)' = Round(i)
  <2>1. n \in 1 .. 4
    OBVIOUS
  <2> QED BY <2>1, RoundIs DEF Round
<1>2. stores[i] \in Seq(Stored) /\ stores'[i] = Append(stores[i], Round(i)[n])
  BY DEF PetersonTypeOK
<1>3. stores' \in [Ids -> Seq(Stored)] /\ stores'[1 - i] = stores[1 - i]
  BY <1>1, <1>2, Names DEF PetersonTypeOK
<1>4. /\ f \in 1 .. l + 1 /\ Len(stores[i]) = l + 1 - f
      /\ \A k \in 1 .. Len(stores[i]) : stores[i][k] = Round(i)[f + k - 1]
  BY DEF Buffered
<1>5. f \in 1 .. n + 1 /\ Len(stores'[i]) = n + 1 - f
  BY <1>2, <1>4
<1>6. ASSUME NEW k \in 1 .. Len(stores'[i])
      PROVE  stores'[i][k] = Round(i)[f + k - 1]
  <2>1. CASE k = Len(stores'[i])
    BY <1>2, <1>4, <1>5, <2>1
  <2>2. CASE k # Len(stores'[i])
    BY <1>2, <1>4, <1>5, <2>2
  <2> QED BY <2>1, <2>2
<1>7. Buffered(i, f, n)'
  BY <1>1, <1>5, <1>6, Zenon DEF Buffered
<1> QED BY <1>3, <1>7

\* A step of thread i that makes the next store of its round.
LEMMA StoreMade ==
  ASSUME PetersonTypeOK, NEW i \in Ids, NEW h, Mine(1 - i, h),
         NEW l \in 0 .. 3, NEW n, n = l + 1, NEW f, Buffered(i, f, l),
         memory[interested(i)] = FALSE <=> f = 3,
         NEW to \in {"loop", "turn", "barrier", "leave"}, Made[to] = n,
         counter' = [counter EXCEPT ![i] = to],
         stores' = [stores EXCEPT ![i] = Append(@, Round(i)[n])],
         memory' = memory, tmp' = tmp, NEW m \in Nat, tries' = [tries EXCEPT ![i] = m],
         m <= CounterTries, to # "loop" => m < CounterTries
  PROVE  /\ PetersonTypeOK' /\ Mine(i, f)' /\ Mine(1 - i, h)'
         /\ counter'[i] = to /\ counter'[1 - i] = counter[1 - i]
         /\ tries'[i] = m /\ tries'[1 - i] = tries[1 - i]
<1>1. to \in DOMAIN Made /\ to \notin {"other", "whose", "critical", "add"}
  BY DEF Made
<1>2. /\ counter' \in [Ids -> DOMAIN Made] /\ counter'[i] = to
      /\ counter'[1 - i] = counter[1 - i]
  BY <1>1, Names DEF PetersonTypeOK
<1>3. tries' \in [Ids -> Nat] /\ tries'[i] = m /\ tries'[1 - i] = tries[1 - i]
  BY Names DEF PetersonTypeOK
<1>4. /\ stores' \in [Ids -> Seq(Stored)] /\ stores'[1 - i] = stores[1 - i]
      /\ Buffered(i, f, n)'
  BY Appended, Zenon
<1>5. PetersonTypeOK'
  BY <1>2, <1>3, <1>4 DEF PetersonTypeOK
<1>6. Mine(1 - i, h)'
  BY <1>2, <1>3, <1>4, Names, OtherKept
<1>7. Mine(i, f)'
  BY <1>1, <1>2, <1>3, <1>4 DEF Mine
<1> QED BY <1>2, <1>3, <1>5, <1>6, <1>7

\* A step of thread i that only moves, its stores all in memory.
LEMMA OnlyMoved ==
  ASSUME PetersonTypeOK, NEW i \in Ids, NEW h, Mine(1 - i, h), Mine(i, 5),
         NEW to \in {"other", "whose", "critical", "add"}, Made[counter[i]] = 4,
         counter[i] # "loop", counter' = [counter EXCEPT ![i] = to],
         tmp' \in [Ids -> Nat], tmp'[1 - i] = tmp[1 - i],
         to = "add" => tmp'[i] = memory["count"],
         memory' = memory, stores' = stores, tries' = tries
  PROVE  /\ PetersonTypeOK' /\ Mine(i, 5)' /\ Mine(1 - i, h)'
         /\ counter'[i] = to /\ counter'[1 - i] = counter[1 - i]
<1>1. to \in DOMAIN Made /\ Made[to] = 4 /\ to # "loop"
  BY DEF Made
<1>2. /\ counter' \in [Ids -> DOMAIN Made] /\ counter'[i] = to
      /\ counter'[1 - i] = counter[1 - i]
  BY <1>1, Names DEF PetersonTypeOK
<1>3. PetersonTypeOK'
  BY <1>2 DEF PetersonTypeOK
<1>4. Mine(1 - i, h)'
  BY <1>2, OtherKept, Names
<1>5. Mine(i, 5)'
  <2>1. Buffered(i, 5, 4)' <=> Buffered(i, 5, 4)
    BY DEF Buffered, Round
  <2> QED BY <1>1, <1>2, <2>1 DEF Mine
<1> QED BY <1>2, <1>3, <1>4, <1>5

-----------------------------------------------------------------------------
\* One lemma per step.
LEMMA EnterCriticalKeeps ==
  ASSUME PetersonTypeOK, NEW i \in Ids, Known(i), EnterCritical(i)
  PROVE  PetersonTypeOK' /\ Known(i)'
<1>1. PICK f \in 1 .. 5, h \in 1 .. 5 : Mine(i, f) /\ Mine(1 - i, h) /\ Both(i, f, h)
  BY DEF Known
<1>2. /\ counter[i] = "loop" /\ counter' = [counter EXCEPT ![i] = "turn"]
      /\ memory' = memory /\ tmp' = tmp /\ tries[i] < CounterTries
      /\ tries' = [tries EXCEPT ![i] = tries[i]] /\ tries[i] \in Nat
  BY DEF EnterCritical, CounterGoes, PetersonTypeOK
<1>3. stores' = [stores EXCEPT ![i] = Append(@, Round(i)[3])]
  BY RoundIs, Zenon DEF EnterCritical, Store
<1>4. Buffered(i, f, 2) /\ (memory[interested(i)] = FALSE <=> f = 3)
  BY <1>1, <1>2 DEF Mine, Made
<1>5. /\ PetersonTypeOK' /\ Mine(i, f)' /\ Mine(1 - i, h)'
      /\ counter'[i] = "turn" /\ counter'[1 - i] = counter[1 - i]
      /\ tries'[i] = tries[i] /\ tries'[1 - i] = tries[1 - i]
  <2>1. /\ 2 \in 0 .. 3 /\ 3 = 2 + 1 /\ Made["turn"] = 3 /\ tries[i] <= CounterTries
        /\ "turn" \in {"loop", "turn", "barrier", "leave"}
    BY <1>1, <1>2 DEF Made, Mine
  <2> QED BY <1>1, <1>2, <1>3, <1>4, <2>1, StoreMade, Zenon
<1>6. Both(i, f, h)'
  <2>1. counter'[i] # "leave" /\ counter[i] # "leave"
    BY <1>2, <1>5
  <2>2. Done(0)' = Done(0) /\ Done(1)' = Done(1)
    BY <1>5, <2>1 DEF Done, Ids
  <2>3. (memory["count"] + (Pending(f) + Pending(h)) = Done(0) + Done(1))'
    BY <1>1, <1>2, <2>2 DEF Both
  <2> QED BY <1>1, <1>2, <1>5, <2>3 DEF Both, Holding, Competing
<1> QED BY <1>5, <1>6 DEF Known

\* The store of the turn joins the buffer of its thread.
LEMMA GiveTurnKeeps ==
  ASSUME PetersonTypeOK, NEW i \in Ids, Known(i), GiveTurn(i)
  PROVE  PetersonTypeOK' /\ Known(i)'
<1>1. PICK f \in 1 .. 5, h \in 1 .. 5 : Mine(i, f) /\ Mine(1 - i, h) /\ Both(i, f, h)
  BY DEF Known
<1>2. /\ counter[i] = "turn" /\ counter' = [counter EXCEPT ![i] = "barrier"]
      /\ memory' = memory /\ tmp' = tmp
      /\ tries' = [tries EXCEPT ![i] = tries[i]] /\ tries[i] \in Nat
  BY DEF GiveTurn, CounterGoes, PetersonTypeOK
<1>3. stores' = [stores EXCEPT ![i] = Append(@, Round(i)[4])]
  BY RoundIs, Zenon DEF GiveTurn, Store
<1>4. Buffered(i, f, 3) /\ (memory[interested(i)] = FALSE <=> f = 3)
  BY <1>1, <1>2 DEF Mine, Made
<1>5. /\ PetersonTypeOK' /\ Mine(i, f)' /\ Mine(1 - i, h)'
      /\ counter'[i] = "barrier" /\ counter'[1 - i] = counter[1 - i]
      /\ tries'[i] = tries[i] /\ tries'[1 - i] = tries[1 - i]
  <2>1. /\ 3 \in 0 .. 3 /\ 4 = 3 + 1 /\ Made["barrier"] = 4 /\ tries[i] \in Nat
        /\ tries[i] <= CounterTries /\ ("barrier" # "loop" => tries[i] < CounterTries)
        /\ "barrier" \in {"loop", "turn", "barrier", "leave"}
    BY <1>1, <1>2, ClassicMutexAssumption DEF Made, Mine
  <2> QED BY <1>1, <1>2, <1>3, <1>4, <2>1, StoreMade, Zenon
<1>6. Both(i, f, h)'
  <2>1. counter'[i] # "leave" /\ counter[i] # "leave"
    BY <1>2, <1>5
  <2>2. Done(0)' = Done(0) /\ Done(1)' = Done(1)
    BY <1>5, <2>1 DEF Done, Ids
  <2>3. (memory["count"] + (Pending(f) + Pending(h)) = Done(0) + Done(1))'
    BY <1>1, <1>2, <2>2 DEF Both
  <2>4. f \in 1 .. 4
    BY <1>4 DEF Buffered
  <2> QED BY <1>1, <1>2, <1>5, <2>3, <2>4 DEF Both, Holding, Competing
<1> QED BY <1>5, <1>6 DEF Known

\* The store of FALSE joins the buffer: the thread holds until it is in memory.
LEMMA LeaveCriticalKeeps ==
  ASSUME PetersonTypeOK, NEW i \in Ids, Known(i), LeaveCritical(i)
  PROVE  PetersonTypeOK' /\ Known(i)'
<1>1. PICK f \in 1 .. 5, h \in 1 .. 5 : Mine(i, f) /\ Mine(1 - i, h) /\ Both(i, f, h)
  BY DEF Known
<1>2. /\ counter[i] = "leave" /\ counter' = [counter EXCEPT ![i] = "loop"]
      /\ memory' = memory /\ tmp' = tmp
      /\ tries' = [tries EXCEPT ![i] = tries[i] + 1] /\ tries[i] \in Nat
  BY DEF LeaveCritical, CounterGoes, PetersonTypeOK
<1>3. stores' = [stores EXCEPT ![i] = Append(@, Round(i)[2])]
  BY RoundIs, Zenon DEF LeaveCritical, Store
<1>4. Buffered(i, f, 1) /\ (memory[interested(i)] = FALSE <=> f = 3)
  BY <1>1, <1>2 DEF Mine, Made
<1>5. /\ PetersonTypeOK' /\ Mine(i, f)' /\ Mine(1 - i, h)'
      /\ counter'[i] = "loop" /\ counter'[1 - i] = counter[1 - i]
      /\ tries'[i] = tries[i] + 1 /\ tries'[1 - i] = tries[1 - i]
  <2>1. /\ 1 \in 0 .. 3 /\ 2 = 1 + 1 /\ Made["loop"] = 2 /\ tries[i] + 1 \in Nat
        /\ tries[i] + 1 <= CounterTries /\ ("loop" # "loop" => tries[i] + 1 < CounterTries)
        /\ "loop" \in {"loop", "turn", "barrier", "leave"}
    BY <1>1, <1>2, ClassicMutexAssumption DEF Made, Mine
  <2> QED BY <1>1, <1>2, <1>3, <1>4, <2>1, StoreMade, Zenon
<1>6. Both(i, f, h)'
  <2>1. counter'[i] # "leave" /\ counter[i] = "leave" /\ f <= 2
    BY <1>2, <1>4, <1>5 DEF Buffered
  <2>2. Done(0)' = Done(0) /\ Done(1)' = Done(1)
    BY <1>2, <1>5, <2>1 DEF Done, Ids
  <2>3. (memory["count"] + (Pending(f) + Pending(h)) = Done(0) + Done(1))'
    BY <1>1, <1>2, <2>2 DEF Both
  <2> QED BY <1>1, <1>2, <1>5, <2>1, <2>3 DEF Both, Holding, Competing
<1> QED BY <1>5, <1>6 DEF Known

\* The increment joins the buffer before the thread leaves.
LEMMA CountWrittenKeeps ==
  ASSUME PetersonTypeOK, NEW i \in Ids, Known(i), CountWritten(i)
  PROVE  PetersonTypeOK' /\ Known(i)'
<1>1. PICK f \in 1 .. 5, h \in 1 .. 5 : Mine(i, f) /\ Mine(1 - i, h) /\ Both(i, f, h)
  BY DEF Known
<1>2. /\ counter[i] = "add" /\ counter' = [counter EXCEPT ![i] = "leave"]
      /\ memory' = memory /\ tmp' = tmp
      /\ tries' = [tries EXCEPT ![i] = tries[i]] /\ tries[i] \in Nat
  BY DEF CountWritten, CounterGoes, PetersonTypeOK
<1>3. stores' = [stores EXCEPT ![i] = Append(@, Round(i)[1])]
  <2>1. tmp[i] = memory["count"]
    BY <1>1, <1>2, Zenon DEF Mine
  <2> QED BY <2>1, RoundIs, Zenon DEF CountWritten, Store
<1>4. Buffered(i, 1, 0) /\ (memory[interested(i)] = FALSE <=> 1 = 3)
  <2>1. f = 5 /\ Buffered(i, 5, 4) /\ (memory[interested(i)] = FALSE <=> f = 3)
    BY <1>1, <1>2 DEF Mine, Made
  <2>2. 1 \in 1 .. 0 + 1 /\ stores[i] = <<>> /\ Len(stores[i]) = 0
    BY <2>1 DEF Buffered, PetersonTypeOK
  <2> QED BY <2>1, <2>2 DEF Buffered
<1>5. /\ PetersonTypeOK' /\ Mine(i, 1)' /\ Mine(1 - i, h)'
      /\ counter'[i] = "leave" /\ counter'[1 - i] = counter[1 - i]
      /\ tries'[i] = tries[i] /\ tries'[1 - i] = tries[1 - i]
  <2>1. /\ 0 \in 0 .. 3 /\ 1 = 0 + 1 /\ Made["leave"] = 1 /\ tries[i] \in Nat
        /\ tries[i] <= CounterTries /\ ("leave" # "loop" => tries[i] < CounterTries)
        /\ "leave" \in {"loop", "turn", "barrier", "leave"} /\ 1 \in 1 .. 5
    BY <1>1, <1>2, ClassicMutexAssumption DEF Made, Mine
  <2> QED BY <1>1, <1>2, <1>3, <1>4, <2>1, StoreMade, Zenon
<1>6. Both(i, 1, h)'
  <2>1. f = 5
    BY <1>1, <1>2 DEF Mine
  <2>2. memory["count"] \in Nat /\ Pending(h) \in Nat /\ tries[0] \in Nat /\ tries[1] \in Nat
    BY DEF PetersonTypeOK, Pending, Ids
  <2>3. (memory["count"] + (Pending(1) + Pending(h)) = Done(0) + Done(1))'
    BY <1>1, <1>2, <1>5, <2>1, <2>2 DEF Both, Done, Pending, Ids
  <2> QED BY <1>1, <1>2, <1>5, <2>1, <2>3 DEF Both, Holding, Competing
<1> QED BY <1>5, <1>6 DEF Known

\* With all its stores in memory a thread loads from there.
LEMMA LoadIs ==
  ASSUME PetersonTypeOK, NEW i \in Ids, Mine(i, 5), Made[counter[i]] = 4, NEW v
  PROVE  stores[i] = <<>> /\ Load(i, v) = memory[v]
<1>1. Len(stores[i]) = 0 /\ stores[i] \in Seq(Stored)
  BY DEF Mine, Buffered, PetersonTypeOK
<1>2. stores[i] = <<>>
  BY <1>1
<1> QED BY <1>2 DEF Load, Own

\* Behind the barrier the buffer of the thread is empty.
LEMMA MemoryBarrierKeeps ==
  ASSUME PetersonTypeOK, NEW i \in Ids, Known(i), MemoryBarrier(i)
  PROVE  PetersonTypeOK' /\ Known(i)'
<1>1. PICK f \in 1 .. 5, h \in 1 .. 5 : Mine(i, f) /\ Mine(1 - i, h) /\ Both(i, f, h)
  BY DEF Known
<1>2. /\ counter[i] = "barrier" /\ counter' = [counter EXCEPT ![i] = "other"]
      /\ memory' = memory /\ stores' = stores /\ tmp' = tmp /\ tries' = tries
      /\ stores[i] = <<>>
  BY DEF MemoryBarrier, CounterGoes
<1>3. f = 5 /\ Made[counter[i]] = 4
  BY <1>1, <1>2 DEF Mine, Buffered, Made
<1>4. /\ PetersonTypeOK' /\ Mine(i, 5)' /\ Mine(1 - i, h)'
      /\ counter'[i] = "other" /\ counter'[1 - i] = counter[1 - i]
  BY <1>1, <1>2, <1>3, OnlyMoved DEF PetersonTypeOK
<1>5. Both(i, 5, h)'
  BY <1>1, <1>2, <1>3, <1>4 DEF Both, Holding, Competing, Done, Pending, Ids
<1> QED BY <1>4, <1>5 DEF Known

\* A thread that finds the other not interested is alone.
LEMMA OtherInterestedKeeps ==
  ASSUME PetersonTypeOK, NEW i \in Ids, Known(i), OtherInterested(i)
  PROVE  PetersonTypeOK' /\ Known(i)'
<1>1. PICK f \in 1 .. 5, h \in 1 .. 5 : Mine(i, f) /\ Mine(1 - i, h) /\ Both(i, f, h)
  BY DEF Known
<1>2. /\ counter[i] = "other" /\ memory' = memory /\ stores' = stores
      /\ tmp' = tmp /\ tries' = tries
  BY DEF OtherInterested, CounterGoes
<1>3. f = 5 /\ Made[counter[i]] = 4
  BY <1>1, <1>2 DEF Mine, Made
<1>4. Load(i, interested(1 - i)) = memory[interested(1 - i)]
  BY <1>1, <1>3, LoadIs
<1>5. PICK to \in {"whose", "critical"} :
        /\ counter' = [counter EXCEPT ![i] = to]
        /\ to = "critical" => ~memory[interested(1 - i)]
  BY <1>4 DEF OtherInterested, CounterGoes
<1>6. /\ PetersonTypeOK' /\ Mine(i, 5)' /\ Mine(1 - i, h)'
      /\ counter'[i] = to /\ counter'[1 - i] = counter[1 - i]
  BY <1>1, <1>2, <1>3, <1>5, OnlyMoved DEF PetersonTypeOK
<1>7. to = "critical" => h = 3
  <2>1. memory[interested(1 - i)] \in BOOLEAN
    BY Names DEF PetersonTypeOK
  <2>2. memory[interested(1 - i)] = FALSE <=> h = 3
    BY <1>1 DEF Mine
  <2> QED BY <1>5, <2>1, <2>2
<1>8. h = 3 => ~Holding(1 - i, h) /\ ~Competing(1 - i, h)
  BY <1>1 DEF Holding, Competing, Mine
<1>9. Both(i, 5, h)'
  BY <1>1, <1>2, <1>3, <1>5, <1>6, <1>7, <1>8 DEF Both, Holding, Competing, Done, Pending, Ids
<1> QED BY <1>6, <1>9 DEF Known

\* A thread that has the turn against an interested one is alone.
LEMMA WhoseTurnKeeps ==
  ASSUME PetersonTypeOK, NEW i \in Ids, Known(i), WhoseTurn(i)
  PROVE  PetersonTypeOK' /\ Known(i)'
<1>1. PICK f \in 1 .. 5, h \in 1 .. 5 : Mine(i, f) /\ Mine(1 - i, h) /\ Both(i, f, h)
  BY DEF Known
<1>2. /\ counter[i] = "whose" /\ memory' = memory /\ stores' = stores
      /\ tmp' = tmp /\ tries' = tries
  BY DEF WhoseTurn, CounterGoes
<1>3. f = 5 /\ Made[counter[i]] = 4
  BY <1>1, <1>2 DEF Mine, Made
<1>4. Load(i, "turn") = memory["turn"] /\ memory["turn"] \in {i, 1 - i}
  BY <1>1, <1>3, LoadIs, Names DEF PetersonTypeOK
<1>5. PICK to \in {"other", "critical"} :
        /\ counter' = [counter EXCEPT ![i] = to]
        /\ to = "critical" => memory["turn"] = i
  BY <1>4 DEF WhoseTurn, CounterGoes
<1>6. /\ PetersonTypeOK' /\ Mine(i, 5)' /\ Mine(1 - i, h)'
      /\ counter'[i] = to /\ counter'[1 - i] = counter[1 - i]
  BY <1>1, <1>2, <1>3, <1>5, OnlyMoved DEF PetersonTypeOK
<1>7. Both(i, 5, h)'
  BY <1>1, <1>2, <1>3, <1>5, <1>6, Names DEF Both, Holding, Competing, Done, Pending, Ids
<1> QED BY <1>6, <1>7 DEF Known

\* The holder reads a count that nobody else is writing.
LEMMA CountReadKeeps ==
  ASSUME PetersonTypeOK, NEW i \in Ids, Known(i), CountRead(i)
  PROVE  PetersonTypeOK' /\ Known(i)'
<1>1. PICK f \in 1 .. 5, h \in 1 .. 5 : Mine(i, f) /\ Mine(1 - i, h) /\ Both(i, f, h)
  BY DEF Known
<1>2. /\ counter[i] = "critical" /\ counter' = [counter EXCEPT ![i] = "add"]
      /\ memory' = memory /\ stores' = stores /\ tries' = tries
      /\ tmp' = [tmp EXCEPT ![i] = Load(i, "count")]
  BY DEF CountRead, CounterGoes
<1>3. f = 5 /\ Made[counter[i]] = 4
  BY <1>1, <1>2 DEF Mine, Made
<1>4. /\ tmp' \in [Ids -> Nat] /\ tmp'[1 - i] = tmp[1 - i]
      /\ tmp'[i] = memory["count"]
  <2>1. Load(i, "count") = memory["count"]
    BY <1>1, <1>3, LoadIs
  <2> QED BY <1>2, <2>1, Names DEF PetersonTypeOK
<1>5. /\ PetersonTypeOK' /\ Mine(i, 5)' /\ Mine(1 - i, h)'
      /\ counter'[i] = "add" /\ counter'[1 - i] = counter[1 - i]
  BY <1>1, <1>2, <1>3, <1>4, OnlyMoved
<1>6. Both(i, 5, h)'
  BY <1>1, <1>2, <1>3, <1>5 DEF Both, Holding, Competing, Done, Pending, Ids
<1> QED BY <1>5, <1>6 DEF Known

\* What a function is after a change at one place.
LEMMA ChangedAt ==
  ASSUME NEW M, NEW N, NEW v \in Vars, NEW x, M = [w \in Vars |-> M[w]],
         N = [M EXCEPT ![v] = x]
  PROVE  N = [w \in Vars |-> N[w]] /\ N[v] = x /\ \A w \in Vars \ {v} : N[w] = M[w]
OBVIOUS

\* The stores of a round, one by one.
LEMMA RoundFields ==
  ASSUME NEW i \in Ids, PetersonTypeOK
  PROVE  /\ Round(i)[1].var = "count" /\ Round(i)[1].val = memory["count"] + 1
         /\ Round(i)[2].var = interested(i) /\ Round(i)[2].val = FALSE
         /\ Round(i)[3].var = interested(i) /\ Round(i)[3].val = TRUE
         /\ Round(i)[4].var = "turn" /\ Round(i)[4].val = 1 - i
<1>1. ASSUME NEW r, NEW v, NEW x, r = [var |-> v, val |-> x]
      PROVE  r.var = v /\ r.val = x
  BY <1>1
<1>2. Round(i)[1].var = "count" /\ Round(i)[1].val = memory["count"] + 1
  <2>1. Round(i)[1] = [var |-> "count", val |-> memory["count"] + 1]
    BY RoundIs, Zenon
  <2> QED BY <1>1, <2>1, Zenon
<1>3. Round(i)[2].var = interested(i) /\ Round(i)[2].val = FALSE
  <2>1. Round(i)[2] = [var |-> interested(i), val |-> FALSE]
    BY RoundIs, Zenon
  <2> QED BY <1>1, <2>1, Zenon
<1>4. Round(i)[3].var = interested(i) /\ Round(i)[3].val = TRUE
  <2>1. Round(i)[3] = [var |-> interested(i), val |-> TRUE]
    BY RoundIs, Zenon
  <2> QED BY <1>1, <2>1, Zenon
<1>5. Round(i)[4].var = "turn" /\ Round(i)[4].val = 1 - i
  <2>1. Round(i)[4] = [var |-> "turn", val |-> 1 - i]
    BY RoundIs, Zenon
  <2> QED BY <2>1
<1> QED BY <1>2, <1>3, <1>4, <1>5, Zenon

\* What the memory is after the store at f.
LEMMA MemoryAfter ==
  ASSUME PetersonTypeOK, NEW i \in Ids, NEW f \in 1 .. 4,
         memory' = [memory EXCEPT ![Round(i)[f].var] = Round(i)[f].val]
  PROVE  /\ memory' = [v \in Vars |-> memory'[v]]
         /\ memory'["interested0"] \in BOOLEAN /\ memory'["interested1"] \in BOOLEAN
         /\ memory'["turn"] = IF f = 4 THEN 1 - i ELSE memory["turn"]
         /\ memory'["count"] = IF f = 1 THEN memory["count"] + 1 ELSE memory["count"]
         /\ memory'[interested(1 - i)] = memory[interested(1 - i)]
         /\ f = 2 => memory'[interested(i)] = FALSE
         /\ f = 3 => memory'[interested(i)] = TRUE
         /\ f \in {1, 4} => memory'[interested(i)] = memory[interested(i)]
<1> DEFINE var == Round(i)[f].var val == Round(i)[f].val
<1>1. /\ "turn" \in Vars /\ "count" \in Vars /\ interested(i) \in Vars
      /\ interested(1 - i) \in Vars
      /\ interested(1 - i) \notin {"turn", "count", interested(i)}
      /\ interested(i) \notin {"turn", "count"} /\ "turn" # "count"
      /\ {"interested0", "interested1"} = {interested(i), interested(1 - i)}
  BY Names DEF Vars, interested, Ids
<1>2. f = 1 \/ f = 2 \/ f = 3 \/ f = 4
  OBVIOUS
<1>3. var \in Vars
  BY <1>1, <1>2, RoundFields, Zenon
<1>4. /\ memory' = [v \in Vars |-> memory'[v]] /\ memory'[var] = val
      /\ \A w \in Vars \ {var} : memory'[w] = memory[w]
  <2>1. memory = [v \in Vars |-> memory[v]] /\ memory' = [memory EXCEPT ![var] = val]
    BY DEF PetersonTypeOK
  <2> HIDE DEF var, val
  <2> QED BY <1>3, <2>1, ChangedAt
<1>5. memory[interested(i)] \in BOOLEAN /\ memory[interested(1 - i)] \in BOOLEAN
  BY <1>1, Zenon DEF PetersonTypeOK
<1>6. TRUE \in BOOLEAN /\ FALSE \in BOOLEAN
  OBVIOUS
<1>7. CASE f = 1
  <2>1. var = "count" /\ val = memory["count"] + 1
    BY <1>7, RoundFields, Zenon
  <2>2. /\ memory'["turn"] = memory["turn"] /\ memory'["count"] = memory["count"] + 1
        /\ memory'[interested(i)] = memory[interested(i)]
        /\ memory'[interested(1 - i)] = memory[interested(1 - i)]
    BY <1>1, <1>4, <2>1, Zenon
  <2> QED BY <1>1, <1>4, <1>5, <1>7, <2>2
<1>8. CASE f = 2
  <2>1. var = interested(i) /\ val = FALSE
    BY <1>8, RoundFields, Zenon
  <2>2. /\ memory'["turn"] = memory["turn"] /\ memory'["count"] = memory["count"]
        /\ memory'[interested(i)] = FALSE
        /\ memory'[interested(1 - i)] = memory[interested(1 - i)]
    BY <1>1, <1>4, <2>1, Zenon
  <2>3. memory'["interested0"] \in BOOLEAN /\ memory'["interested1"] \in BOOLEAN
    BY <1>1, <1>5, <1>6, <2>2, Zenon
  <2>4. f # 1 /\ f # 3 /\ f # 4 /\ f \notin {1, 4}
    BY <1>8
  <2> QED BY <1>4, <1>8, <2>2, <2>3, <2>4, Zenon
<1>9. CASE f = 3
  <2>1. var = interested(i) /\ val = TRUE
    BY <1>9, RoundFields, Zenon
  <2>2. /\ memory'["turn"] = memory["turn"] /\ memory'["count"] = memory["count"]
        /\ memory'[interested(i)] = TRUE
        /\ memory'[interested(1 - i)] = memory[interested(1 - i)]
    BY <1>1, <1>4, <2>1, Zenon
  <2>3. memory'["interested0"] \in BOOLEAN /\ memory'["interested1"] \in BOOLEAN
    BY <1>1, <1>5, <1>6, <2>2, Zenon
  <2>4. f # 1 /\ f # 2 /\ f # 4 /\ f \notin {1, 4}
    BY <1>9
  <2> QED BY <1>4, <1>9, <2>2, <2>3, <2>4, Zenon
<1>10. CASE f = 4
  <2>1. var = "turn" /\ val = 1 - i
    BY <1>10, RoundFields, Zenon
  <2>2. /\ memory'["turn"] = 1 - i /\ memory'["count"] = memory["count"]
        /\ memory'[interested(i)] = memory[interested(i)]
        /\ memory'[interested(1 - i)] = memory[interested(1 - i)]
    BY <1>1, <1>4, <2>1, Zenon
  <2> QED BY <1>1, <1>4, <1>5, <1>10, <2>2
<1> QED BY <1>2, <1>7, <1>8, <1>9, <1>10

\* The buffer without its oldest store.
LEMMA TailIs ==
  ASSUME NEW S, NEW q \in Seq(S), Len(q) > 0
  PROVE  /\ Tail(q) \in Seq(S) /\ Len(Tail(q)) = Len(q) - 1
         /\ \A k \in 1 .. Len(Tail(q)) : Tail(q)[k] = q[k + 1]
OBVIOUS

\* The oldest store of a buffer is written to memory: each of the four kinds.
LEMMA StoreReachesMemoryKeeps ==
  ASSUME PetersonTypeOK, NEW i \in Ids, Known(i), StoreReachesMemory(i)
  PROVE  PetersonTypeOK' /\ Known(i)'
<1>1. PICK f \in 1 .. 5, h \in 1 .. 5 : Mine(i, f) /\ Mine(1 - i, h) /\ Both(i, f, h)
  BY DEF Known
<1>2. /\ counter' = counter /\ tmp' = tmp /\ tries' = tries
      /\ stores' = [stores EXCEPT ![i] = Tail(@)] /\ stores[i] # <<>>
      /\ memory' = [memory EXCEPT ![Head(stores[i]).var] = Head(stores[i]).val]
  BY DEF StoreReachesMemory
<1> DEFINE l == Made[counter[i]]
<1>3. l \in 1 .. 4 /\ Made[counter[1 - i]] \in 1 .. 4 /\ stores[i] \in Seq(Stored)
  <2>1. \A place \in DOMAIN Made : Made[place] \in 1 .. 4
    BY DEF Made
  <2>2. /\ counter[i] \in DOMAIN Made /\ counter[1 - i] \in DOMAIN Made
        /\ stores[i] \in Seq(Stored)
    BY Names DEF PetersonTypeOK
  <2> QED BY <2>1, <2>2
<1>4. /\ f \in 1 .. l + 1 /\ Len(stores[i]) = l + 1 - f
      /\ \A k \in 1 .. Len(stores[i]) : stores[i][k] = Round(i)[f + k - 1]
  BY <1>1, Zenon DEF Mine, Buffered
<1>5. f \in 1 .. 4 /\ f <= l /\ Head(stores[i]) = Round(i)[f]
  <2> HIDE DEF l
  <2>1. Len(stores[i]) > 0
    BY <1>2, <1>3
  <2>2. Head(stores[i]) = stores[i][1]
    BY <1>2, <1>3
  <2>3. f <= l /\ f \in 1 .. 4
    BY <1>3, <1>4, <2>1
  <2>4. stores[i][1] = Round(i)[f + 1 - 1] /\ f + 1 - 1 = f
    BY <1>4, <2>1, <2>3
  <2> QED BY <2>2, <2>3, <2>4
<1>6. memory' = [memory EXCEPT ![Round(i)[f].var] = Round(i)[f].val]
  BY <1>2, <1>5
<1>7. PetersonTypeOK'
  <2>1. stores' \in [Ids -> Seq(Stored)]
    BY <1>2, <1>3 DEF PetersonTypeOK
  <2>2. /\ memory' = [v \in Vars |-> memory'[v]]
        /\ memory'["interested0"] \in BOOLEAN /\ memory'["interested1"] \in BOOLEAN
        /\ memory'["turn"] = IF f = 4 THEN 1 - i ELSE memory["turn"]
        /\ memory'["count"] = IF f = 1 THEN memory["count"] + 1 ELSE memory["count"]
    BY <1>5, <1>6, MemoryAfter, Zenon
  <2>3. memory'["turn"] \in Ids /\ memory'["count"] \in Nat
    BY <2>2, Names DEF PetersonTypeOK
  <2> QED BY <1>2, <2>1, <2>2, <2>3, Zenon DEF PetersonTypeOK
<1>8. \A k \in 2 .. 4 : Round(i)'[k] = Round(i)[k] /\ Round(1 - i)'[k] = Round(1 - i)[k]
  <2>1. /\ Round(i)'[2] = Round(i)[2] /\ Round(1 - i)'[2] = Round(1 - i)[2]
        /\ Round(i)'[3] = Round(i)[3] /\ Round(1 - i)'[3] = Round(1 - i)[3]
        /\ Round(i)'[4] = Round(i)[4] /\ Round(1 - i)'[4] = Round(1 - i)[4]
    BY DEF Round
  <2>2. \A k \in 2 .. 4 : k = 2 \/ k = 3 \/ k = 4
    OBVIOUS
  <2> QED BY <2>1, <2>2, Zenon
<1>9. Mine(i, f + 1)'
  <2> HIDE DEF l
  <2>0. /\ Len(stores'[i]) = Len(stores[i]) - 1
        /\ \A k \in 1 .. Len(stores'[i]) : stores'[i][k] = stores[i][k + 1]
    <3>1. stores'[i] = Tail(stores[i])
      BY <1>2 DEF PetersonTypeOK
    <3>2. Len(stores[i]) > 0
      BY <1>3, <1>4, <1>5
    <3> QED BY <1>3, <3>1, <3>2, TailIs
  <2>1. f + 1 \in 1 .. l + 1 /\ Len(stores'[i]) = l + 1 - (f + 1)
    <3>1. Len(stores'[i]) = Len(stores[i]) - 1 /\ Len(stores[i]) = l + 1 - f
      BY <1>4, <2>0
    <3> QED BY <1>3, <1>5, <3>1
  <2>2. ASSUME NEW k \in 1 .. Len(stores'[i])
        PROVE  stores'[i][k] = Round(i)'[(f + 1) + k - 1]
    <3>1. k + 1 \in 1 .. Len(stores[i])
      BY <1>3, <1>4, <1>5, <2>1
    <3>2. stores'[i][k] = stores[i][k + 1]
      BY <2>0
    <3>3. stores[i][k + 1] = Round(i)[f + (k + 1) - 1]
      BY <1>4, <3>1
    <3>4. f + (k + 1) - 1 = (f + 1) + k - 1 /\ f + (k + 1) - 1 \in 2 .. 4
      <4>1. l \in 1 .. 4 /\ f \in 1 .. 4 /\ f <= l /\ k \in 1 .. l + 1 - (f + 1)
        BY <1>3, <1>5, <2>1
      <4> QED BY <4>1
    <3> QED BY <1>8, <3>2, <3>3, <3>4
  <2>3. Buffered(i, f + 1, l)'
    BY <1>2, <2>1, <2>2, Zenon DEF Buffered, l
  <2>4. counter[i] \notin {"other", "whose", "critical", "add"}
    BY <1>1, <1>5 DEF Mine
  <2>5. memory'[interested(i)] = FALSE <=> f + 1 = 3
    <3>1. memory[interested(i)] = FALSE <=> f = 3
      BY <1>1 DEF Mine
    <3>2. /\ f = 2 => memory'[interested(i)] = FALSE
          /\ f = 3 => memory'[interested(i)] = TRUE
          /\ f \in {1, 4} => memory'[interested(i)] = memory[interested(i)]
      BY <1>5, <1>6, MemoryAfter, Zenon
    <3> QED BY <1>5, <3>1, <3>2
  <2> QED BY <1>1, <1>2, <2>3, <2>4, <2>5 DEF Mine, l
<1>10. f = 1 => h # 1 /\ counter[1 - i] # "add"
  BY <1>1 DEF Both, Holding
<1>11. Mine(1 - i, h)'
  <2>1. /\ Len(stores[1 - i]) = Made[counter[1 - i]] + 1 - h
        /\ h \in 1 .. Made[counter[1 - i]] + 1
        /\ \A k \in 1 .. Len(stores[1 - i]) : stores[1 - i][k] = Round(1 - i)[h + k - 1]
    BY <1>1, Zenon DEF Mine, Buffered
  <2>2. stores'[1 - i] = stores[1 - i]
    BY <1>2, Names DEF PetersonTypeOK
  <2>3. \A k \in 1 .. Len(stores[1 - i]) : Round(1 - i)'[h + k - 1] = Round(1 - i)[h + k - 1]
    <3>1. CASE f = 1
      BY <1>3, <1>8, <1>10, <2>1, <3>1
    <3>2. CASE f # 1
      <4>1. memory'["count"] = memory["count"]
        BY <1>5, <1>6, <3>2, MemoryAfter
      <4> QED BY <4>1 DEF Round
    <3> QED BY <3>1, <3>2
  <2>4. Buffered(1 - i, h, Made[counter[1 - i]])'
    BY <1>2, <2>1, <2>2, <2>3, Zenon DEF Buffered
  <2>5. memory'[interested(1 - i)] = memory[interested(1 - i)]
    BY <1>5, <1>6, MemoryAfter
  <2>6. counter[1 - i] = "add" => memory'["count"] = memory["count"]
    BY <1>5, <1>6, <1>10, MemoryAfter
  <2> QED BY <1>1, <1>2, <2>4, <2>5, <2>6 DEF Mine
<1>12. Both(i, f + 1, h)'
  <2>1. /\ memory'["turn"] = IF f = 4 THEN 1 - i ELSE memory["turn"]
        /\ memory'["count"] = IF f = 1 THEN memory["count"] + 1 ELSE memory["count"]
    BY <1>5, <1>6, MemoryAfter
  <2>2. Done(0)' = Done(0) /\ Done(1)' = Done(1)
    BY <1>2 DEF Done
  <2>3. memory["count"] \in Nat /\ Pending(h) \in Nat
    BY DEF PetersonTypeOK, Pending
  <2>4. (memory["count"] + (Pending(f + 1) + Pending(h)) = Done(0) + Done(1))'
    BY <1>1, <1>5, <2>1, <2>2, <2>3 DEF Both, Pending
  <2>5. counter[i] \notin {"other", "whose", "critical", "add"}
    BY <1>1, <1>5 DEF Mine
  <2> QED BY <1>1, <1>2, <1>5, <2>1, <2>4, <2>5 DEF Both, Holding, Competing
<1> QED BY <1>5, <1>7, <1>9, <1>11, <1>12 DEF Known

\* The next test begins with empty buffers and the count at 0.
LEMMA StartAgainKeeps ==
  ASSUME PetersonTypeOK, Known(0), StartAgain
  PROVE  PetersonTypeOK' /\ Known(0)'
<1>1. PICK f \in 1 .. 5, h \in 1 .. 5 : Mine(0, f) /\ Mine(1, h) /\ Both(0, f, h)
  BY DEF Known
<1>2. /\ \A i \in Ids : tries[i] = CounterTries /\ stores[i] = <<>>
      /\ memory' = [memory EXCEPT !["count"] = 0]
      /\ tries' = [i \in Ids |-> 0]
      /\ stores' = stores /\ counter' = counter /\ tmp' = tmp
  BY DEF StartAgain, CounterEnded
<1>3. /\ counter[0] = "loop" /\ counter[1] = "loop" /\ tries[0] = CounterTries
      /\ tries[1] = CounterTries /\ Made[counter[0]] = 2 /\ Made[counter[1]] = 2
      /\ Len(stores[0]) = 0 /\ Len(stores[1]) = 0
  <2>1. /\ counter[0] # "loop" => tries[0] < CounterTries
        /\ counter[1] # "loop" => tries[1] < CounterTries
    BY <1>1 DEF Mine
  <2>2. tries[0] = CounterTries /\ tries[1] = CounterTries
    BY <1>2 DEF Ids
  <2>3. Len(stores[0]) = 0 /\ Len(stores[1]) = 0
    BY <1>2 DEF Ids
  <2>4. counter[0] = "loop" /\ counter[1] = "loop"
    BY <2>1, <2>2, ClassicMutexAssumption
  <2> QED BY <2>2, <2>3, <2>4 DEF Made
<1>4. /\ f = 3 /\ Buffered(0, f, 2) /\ memory["interested0"] = FALSE
      /\ h = 3 /\ Buffered(1, h, 2) /\ memory["interested1"] = FALSE
  <2>1. Buffered(0, f, 2) /\ Buffered(1, h, 2)
    BY <1>1, <1>3 DEF Mine
  <2>2. f = 3 /\ h = 3
    BY <1>3, <2>1 DEF Buffered
  <2> QED BY <1>1, <2>1, <2>2 DEF Mine, interested
<1>5. /\ memory' = [v \in Vars |-> memory'[v]] /\ memory'["count"] = 0
      /\ memory'["interested0"] = memory["interested0"]
      /\ memory'["interested1"] = memory["interested1"]
      /\ memory'["turn"] = memory["turn"]
  <2>1. /\ "count" \in Vars /\ "turn" \in Vars \ {"count"}
        /\ "interested0" \in Vars \ {"count"} /\ "interested1" \in Vars \ {"count"}
    BY DEF Vars
  <2>2. memory = [v \in Vars |-> memory[v]]
    BY DEF PetersonTypeOK
  <2> QED BY <1>2, <2>1, <2>2, ChangedAt
<1>6. PetersonTypeOK'
  <2>1. memory'["count"] \in Nat /\ tries' \in [Ids -> Nat]
    BY <1>2, <1>5
  <2> QED BY <1>2, <1>5, <2>1, Zenon DEF PetersonTypeOK
<1>7. /\ Buffered(0, 3, 2)' /\ Buffered(1, 3, 2)'
  <2>1. Len(stores'[0]) = 0 /\ Len(stores'[1]) = 0
    BY <1>2, <1>3
  <2> QED BY <2>1 DEF Buffered
<1>8. tries'[0] = 0 /\ tries'[1] = 0 /\ 0 <= CounterTries
  BY <1>2, ClassicMutexAssumption DEF Ids
<1>9. Mine(0, 3)' /\ Mine(1, 3)'
  BY <1>2, <1>3, <1>4, <1>5, <1>7, <1>8 DEF Mine, interested
<1>10. Both(0, 3, 3)'
  BY <1>2, <1>3, <1>5, <1>8 DEF Both, Holding, Competing, Done, Pending
<1> QED BY <1>6, <1>9, <1>10 DEF Known

\* Before the first try nobody is interested and the buffers are empty.
LEMMA PetersonInitHolds ==
  ASSUME PetersonInit
  PROVE  PetersonIInv
<1>1. /\ memory = [interested0 |-> FALSE, interested1 |-> FALSE, turn |-> 0, count |-> 0]
      /\ stores = [i \in Ids |-> <<>>] /\ counter = [i \in Ids |-> "loop"]
      /\ tmp = [i \in Ids |-> 0] /\ tries = [i \in Ids |-> 0]
  BY DEF PetersonInit
<1>2. /\ memory = [v \in Vars |-> memory[v]] /\ memory["interested0"] = FALSE
      /\ memory["interested1"] = FALSE /\ memory["turn"] = 0 /\ memory["count"] = 0
  BY <1>1 DEF Vars
<1>3. PetersonTypeOK
  <2>1. /\ memory["turn"] \in Ids /\ memory["count"] \in Nat
        /\ tmp \in [Ids -> Nat] /\ tries \in [Ids -> Nat]
    BY <1>1, <1>2 DEF Ids
  <2>2. counter \in [Ids -> DOMAIN Made]
    BY <1>1 DEF Made
  <2>3. stores \in [Ids -> Seq(Stored)]
    BY <1>1
  <2>4. memory["interested0"] \in BOOLEAN /\ memory["interested1"] \in BOOLEAN
    BY <1>2
  <2> QED BY <1>2, <2>1, <2>2, <2>3, <2>4, Zenon DEF PetersonTypeOK
<1>4. /\ counter[0] = "loop" /\ counter[1] = "loop" /\ tries[0] = 0 /\ tries[1] = 0
      /\ Len(stores[0]) = 0 /\ Len(stores[1]) = 0 /\ Made["loop"] = 2
      /\ 0 <= CounterTries
  BY <1>1, ClassicMutexAssumption DEF Ids, Made
<1>5. Buffered(0, 3, 2) /\ Buffered(1, 3, 2)
  BY <1>4 DEF Buffered
<1>6. Mine(0, 3) /\ Mine(1, 3)
  BY <1>2, <1>4, <1>5 DEF Mine, interested
<1>7. Both(0, 3, 3)
  BY <1>2, <1>4 DEF Both, Holding, Competing, Done, Pending
<1> QED BY <1>3, <1>6, <1>7 DEF PetersonIInv, Known

\* Every step of the two threads, their buffers and the test keeps the invariant.
LEMMA PetersonNextKeeps ==
  ASSUME PetersonIInv, [PetersonNext]_petersonvars
  PROVE  PetersonIInv'
<1>1. PetersonTypeOK /\ Known(0)
  BY DEF PetersonIInv
<1>2. ASSUME NEW i \in Ids, CounterThread(i) \/ StoreReachesMemory(i)
      PROVE  PetersonIInv'
  <2>1. Known(i)
    BY <1>1, Symmetric
  <2>2. PetersonTypeOK' /\ Known(i)'
    BY <1>1, <1>2, <2>1, EnterCriticalKeeps, GiveTurnKeeps, MemoryBarrierKeeps,
       OtherInterestedKeeps, WhoseTurnKeeps, CountReadKeeps, CountWrittenKeeps,
       LeaveCriticalKeeps, StoreReachesMemoryKeeps, Zenon DEF CounterThread
  <2> QED BY <2>2, Symmetric DEF PetersonIInv
<1>3. CASE StartAgain
  BY <1>1, <1>3, StartAgainKeeps DEF PetersonIInv
<1>4. CASE UNCHANGED petersonvars
  <2>1. /\ memory' = memory /\ stores' = stores /\ counter' = counter
        /\ tmp' = tmp /\ tries' = tries
    BY <1>4 DEF petersonvars
  <2>2. PetersonTypeOK'
    BY <1>1, <2>1 DEF PetersonTypeOK
  <2>3. PICK f \in 1 .. 5, h \in 1 .. 5 : Mine(0, f) /\ Mine(1 - 0, h) /\ Both(0, f, h)
    BY <1>1 DEF Known
  <2>4. 0 \in Ids /\ 1 - 0 \in Ids
    BY DEF Ids
  <2>5. Mine(0, f)' /\ Mine(1 - 0, h)'
    BY <2>1, <2>3, <2>4, OtherKept
  <2>6. Both(0, f, h)'
    BY <2>1, <2>3 DEF Both, Holding, Competing, Done
  <2> QED BY <2>2, <2>5, <2>6 DEF PetersonIInv, Known
<1> QED BY <1>2, <1>3, <1>4 DEF PetersonNext

\* Where the invariant holds at most one thread is inside and no increment is lost.
LEMMA PetersonIInvExcludes ==
  ASSUME PetersonIInv
  PROVE  PetersonExclusion
<1>1. PICK f \in 1 .. 5, h \in 1 .. 5 : Mine(0, f) /\ Mine(1 - 0, h) /\ Both(0, f, h)
  BY DEF PetersonIInv, Known
<1>2. 1 - 0 = 1 /\ Ids = {0, 1} /\ PetersonTypeOK
  BY DEF Ids, PetersonIInv
<1>3. /\ counter[0] = "leave" => f <= 2
      /\ counter[1] = "leave" => h <= 2
  BY <1>1, <1>2 DEF Mine, Buffered, Made
<1>4. ~\A i \in Ids : counter[i] \in {"critical", "add", "leave"}
  BY <1>1, <1>2, <1>3 DEF Both, Holding
<1>5. ASSUME CounterEnded
      PROVE  memory["count"] = 2 * CounterTries
  <2>1. /\ tries[0] = CounterTries /\ tries[1] = CounterTries
        /\ stores[0] = <<>> /\ stores[1] = <<>>
    BY <1>2, <1>5 DEF CounterEnded
  <2>2. /\ counter[0] # "loop" => tries[0] < CounterTries
        /\ counter[1] # "loop" => tries[1] < CounterTries
    BY <1>1, <1>2 DEF Mine
  <2>3. counter[0] = "loop" /\ counter[1] = "loop"
    BY <2>1, <2>2, ClassicMutexAssumption
  <2>4. f # 1 /\ h # 1
    <3>1. Buffered(0, f, 2) /\ Buffered(1, h, 2)
      BY <1>1, <1>2, <2>3 DEF Mine, Made
    <3>2. Len(stores[0]) = 0 /\ Len(stores[1]) = 0
      BY <2>1
    <3> QED BY <3>1, <3>2 DEF Buffered
  <2>5. memory["count"] + (Pending(f) + Pending(h)) = Done(0) + Done(1)
    BY <1>1 DEF Both
  <2>6. memory["count"] \in Nat
    BY <1>2 DEF PetersonTypeOK
  <2> QED BY <2>1, <2>3, <2>4, <2>5, <2>6, ClassicMutexAssumption DEF Pending, Done
<1> QED BY <1>4, <1>5 DEF PetersonExclusion

\* Two threads are never both between the loop and the store that leaves, and
\* when both have ended no increment of count is missing, for every number of
\* tries and whenever the processors write their stores to memory.
THEOREM PetersonExcludes == PetersonSpec => []PetersonExclusion
<1>1. PetersonSpec => []PetersonIInv
  BY PetersonInitHolds, PetersonNextKeeps, PTL DEF PetersonSpec
<1> QED BY <1>1, PetersonIInvExcludes, PTL

-----------------------------------------------------------------------------
(* The asynchronous file copy with one operation, as the program has it.      *)

\* The inductive invariant.
Operations == [type : {"READ", "WRITE"}, Offset : Nat, buffer : [1 .. BUFFER_SIZE -> Nat],
               pending : BOOLEAN, nTransfer : Nat, event : BOOLEAN,
               error : BOOLEAN]

CopyTypeOK ==
  /\ inFileSize \in Nat /\ currInPos \in Nat /\ nBytes \in Nat
  /\ readOpers \in Int /\ writeOpers \in Int
  /\ opers \in [Opers -> Operations]
  /\ out \in Seq(Nat) /\ Len(out) >= inFileSize /\ (Len(out) = inFileSize \/ shortSync)
  /\ shortSync \in BOOLEAN /\ failed \in BOOLEAN

CopiedTo(n) == \A p \in 1 .. inFileSize : p <= n => out[p] = p

\* What was read last fills the buffer, or ends with the file.
Filled(o) ==
  /\ currInPos = o.Offset + BUFFER_SIZE /\ o.Offset <= inFileSize
  /\ \A j \in 1 .. BUFFER_SIZE : o.Offset + j <= inFileSize => o.buffer[j] = o.Offset + j

\* n is what was read, or as much as was asked for.
Amount(o, n) ==
  /\ n <= BUFFER_SIZE /\ (n = BUFFER_SIZE \/ o.Offset + n = inFileSize)
  /\ o.Offset + n <= inFileSize \/ shortSync

\* No read is counted twice before the end of the file.
ReadsCounted(n) == readOpers >= n \/ currInPos >= inFileSize

Starting ==
  copying = "start" /\ current = 0 /\ currInPos = 0 /\ readOpers = 0 /\ writeOpers = 0
  /\ opers[1] = OperInit

Reading(o) ==
  /\ copying = "DoIO" /\ current = 1 /\ o.type = "READ" /\ ~o.pending
  /\ ReadsCounted(0) /\ writeOpers >= 0
  /\ nBytes = BUFFER_SIZE \/ currInPos >= inFileSize
  /\ CopiedTo(currInPos)
  /\ o.event => ~o.error /\ Filled(o) /\ Amount(o, o.nTransfer)

Writing(o) ==
  /\ copying = "DoIO" /\ current = 1 /\ o.type = "WRITE" /\ ~o.pending
  /\ ReadsCounted(0) /\ writeOpers >= 0
  /\ CopiedTo(o.Offset) /\ Filled(o) /\ Amount(o, nBytes)

ReadPending(o) ==
  /\ copying = "wait" /\ current = 1 /\ o.type = "READ" /\ o.pending /\ ~o.event
  /\ ReadsCounted(1) /\ writeOpers >= 0
  /\ CopiedTo(o.Offset) /\ currInPos = o.Offset + BUFFER_SIZE
  /\ Amount(o, o.nTransfer) /\ o.Offset + o.nTransfer <= inFileSize

ReadReady(o) ==
  /\ copying = "wait" /\ current = 1 /\ o.type = "READ" /\ ~o.pending /\ o.event
  /\ ~o.error
  /\ ReadsCounted(1) /\ writeOpers >= 0
  /\ CopiedTo(o.Offset) /\ Filled(o) /\ Amount(o, o.nTransfer)

WritePending(o) ==
  /\ copying = "wait" /\ current = 1 /\ o.type = "WRITE" /\ o.pending /\ ~o.event
  /\ ReadsCounted(0) /\ writeOpers >= 1
  /\ CopiedTo(o.Offset) /\ Filled(o) /\ Amount(o, o.nTransfer)

WriteReady(o) ==
  /\ copying = "wait" /\ current = 1 /\ o.type = "WRITE" /\ ~o.pending /\ o.event
  /\ ~o.error
  /\ ReadsCounted(0) /\ writeOpers >= 1
  /\ CopiedTo(currInPos) /\ Filled(o) /\ Amount(o, o.nTransfer)

Stuck(o) == copying = "wait" /\ ~o.pending /\ ~o.event

Ended(o) == copying = "end" /\ ~o.pending /\ CopiedTo(inFileSize)

CopyPhase(o) ==
  \/ Starting \/ Reading(o) \/ Writing(o) \/ ReadPending(o) \/ ReadReady(o)
  \/ WritePending(o) \/ WriteReady(o) \/ Stuck(o) \/ Ended(o)

\* After a refusal or a failure: an answer that is still there ends the copy.
Broken(o) ==
  ~o.pending /\ (copying = "end" \/ (copying = "wait" /\ (o.event => o.error)))

CopyIInv ==
  /\ CopyTypeOK /\ CopyWritesOnlyInput
  /\ IF failed THEN Broken(opers[1]) ELSE CopyPhase(opers[1])

\* With one operation, it is the one DoIO works on.
LEMMA OneOperation ==
  ASSUME NOPERS = 1, CopyTypeOK
  PROVE  Opers = {1} /\ opers[1] \in Operations
BY DEF Opers, CopyTypeOK

\* A step that leaves q in the operation.
LEMMA OperationIs ==
  ASSUME NOPERS = 1, CopyTypeOK, NEW q \in Operations, opers' = [opers EXCEPT ![1] = q]
  PROVE  opers' \in [Opers -> Operations] /\ opers'[1] = q
BY OneOperation DEF CopyTypeOK

\* The first read, or the next one, starts DoIO.
LEMMA StartKeeps ==
  ASSUME NOPERS = 1, CopyIInv, CopyAsync_Start
  PROVE  CopyIInv'
<1>1. CopyTypeOK /\ Starting /\ ~failed
  BY DEF CopyIInv, Broken, CopyAsync_Start, CopyPhase, Reading, Writing, ReadPending, ReadReady,
         WritePending, WriteReady, Stuck, Ended
<1>2. CopyTypeOK'
  BY <1>1, AsyncCopyAssumption DEF CopyTypeOK, CopyAsync_Start, DoIO, Opers
<1>5. CopyWritesOnlyInput' /\ ~failed'
  BY <1>1 DEF CopyIInv, CopyWritesOnlyInput, CopyAsync_Start
<1>3. Reading(OperInit)'
  BY <1>1, AsyncCopyAssumption
  DEF Reading, Starting, CopyAsync_Start, DoIO, OperInit, ReadsCounted, CopiedTo
<1>4. opers'[1] = OperInit
  BY <1>1 DEF Starting, CopyAsync_Start
<1> QED BY <1>2, <1>3, <1>4, <1>5 DEF CopyIInv, CopyPhase

\* At the end of the file DoIO starts nothing.
LEMMA AtEndKeeps ==
  ASSUME NOPERS = 1, CopyIInv, DoIO_AtEnd
  PROVE  CopyIInv'
<1>1. PICK o : o = opers[1]
  OBVIOUS
<1>2. /\ copying = "DoIO" /\ currInPos >= inFileSize
      /\ UNCHANGED <<inFileSize, currInPos, readOpers, writeOpers, opers, out, failed,
                     shortSync, nBytes, current, caller>>
      /\ DoIO_Returns(TRUE) /\ oper.type = "READ"
  BY DEF DoIO_AtEnd, InDoIO
<1>3. CopyTypeOK /\ Reading(o) /\ ~failed
  BY <1>1, <1>2 DEF CopyIInv, Broken, CopyPhase, Starting, Reading, Writing, ReadPending, ReadReady,
         WritePending, WriteReady, Stuck, Ended, oper
<1>4. copying' = "wait" \/ copying' = "end"
  BY <1>2, <1>3 DEF DoIO_Returns, Reading
<1>5. CopyTypeOK' /\ CopyWritesOnlyInput' /\ ~failed'
  BY <1>2, <1>3 DEF CopyTypeOK, Opers, CopyIInv, CopyWritesOnlyInput
<1>6. CASE copying' = "end"
  <2>1. CopiedTo(inFileSize)
    BY <1>2, <1>3 DEF Reading, CopiedTo, CopyTypeOK
  <2>2. Ended(o)'
    BY <1>2, <1>3, <1>6, <2>1 DEF Reading, Ended, CopiedTo
  <2> QED BY <1>1, <1>2, <1>5, <2>2 DEF CopyIInv, CopyPhase
<1>7. CASE copying' = "wait" /\ o.event
  <2>1. CopiedTo(o.Offset)
    BY <1>1, <1>2, <1>3, OneOperation DEF Reading, CopiedTo, CopyTypeOK, Operations
  <2>2. ReadReady(o)'
    BY <1>2, <1>3, <1>7, <2>1 DEF Reading, ReadReady, CopiedTo, ReadsCounted, Filled, Amount
  <2> QED BY <1>1, <1>2, <1>5, <2>2 DEF CopyIInv, CopyPhase
<1>8. CASE copying' = "wait" /\ ~o.event
  BY <1>1, <1>2, <1>3, <1>5, <1>8 DEF CopyIInv, CopyPhase, Stuck, Reading
<1> QED BY <1>4, <1>6, <1>7, <1>8

\* What can be read at an offset before the end of the file.
LEMMA CanReadIs ==
  ASSUME CopyTypeOK, currInPos < inFileSize
  PROVE  /\ CanRead(currInPos) \in Nat /\ CanRead(currInPos) <= nBytes
         /\ CanRead(currInPos) = nBytes \/ currInPos + CanRead(currInPos) = inFileSize
         /\ currInPos + CanRead(currInPos) <= inFileSize
BY DEF CanRead, CopyTypeOK

\* A read that is pending, or completes at once and goes on to write.
LEMMA ReadKeeps ==
  ASSUME NOPERS = 1, CopyIInv, DoIO_Read
  PROVE  CopyIInv'
<1>1. PICK o : o = opers[1]
  OBVIOUS
<1>2. /\ copying = "DoIO" /\ currInPos < inFileSize /\ oper.type = "READ"
      /\ currInPos' = currInPos + nBytes
      /\ UNCHANGED <<inFileSize, caller, current, nBytes, writeOpers, out>>
  BY DEF DoIO_Read, InDoIO
<1>3. CopyTypeOK /\ Reading(o) /\ ~failed
  BY <1>1, <1>2 DEF CopyIInv, Broken, CopyPhase, Starting, Reading, Writing, ReadPending,
        ReadReady, WritePending, WriteReady, Stuck, Ended, oper
<1>a. CopyWritesOnlyInput'
  BY <1>2 DEF CopyIInv, CopyWritesOnlyInput
<1>4. o \in Operations /\ oper = o /\ current = 1
  BY <1>1, <1>3, OneOperation DEF oper, Reading
<1>5. nBytes = BUFFER_SIZE /\ BUFFER_SIZE \in Nat \ {0} /\ readOpers >= 0
      /\ inFileSize \in Nat /\ currInPos \in Nat /\ readOpers \in Int /\ writeOpers \in Int
  BY <1>2, <1>3, AsyncCopyAssumption DEF Reading, ReadsCounted, CopyTypeOK
<1>6. PICK n : n = CanRead(currInPos)
  OBVIOUS
<1>7. /\ n \in Nat /\ n <= BUFFER_SIZE /\ (n = BUFFER_SIZE \/ currInPos + n = inFileSize)
      /\ currInPos + n <= inFileSize
  BY <1>2, <1>3, <1>5, <1>6, CanReadIs
<1>8. PICK r : r = [o EXCEPT !.Offset = currInPos]
  OBVIOUS
<1>9. /\ r \in Operations /\ r.Offset = currInPos /\ r.type = "READ"
      /\ r.buffer = o.buffer
  BY <1>2, <1>4, <1>5, <1>8 DEF Operations
<1>10. CASE /\ opers' = [opers EXCEPT ![1] = Pend(r, n)] /\ readOpers' = readOpers + 1
            /\ UNCHANGED <<failed, shortSync>> /\ DoIO_Returns(TRUE)
  <2>1. PICK q : q = Pend(r, n)
    OBVIOUS
  <2>2. /\ q \in Operations /\ q.type = "READ" /\ q.Offset = currInPos /\ q.nTransfer = n
    BY <2>1, <1>7, <1>9 DEF Pend, Operations
  <2>3. q.pending /\ ~q.event
    BY <2>1, <1>9 DEF Pend, Operations
  <2>4. opers' \in [Opers -> Operations] /\ opers'[1] = q
    BY <2>1, <2>2, <1>3, <1>10, OperationIs
  <2>5. copying' = "wait"
    <3>1. readOpers' > 0
      BY <1>5, <1>10
    <3>2. ~(current < NOPERS)
      BY <1>4
    <3> QED BY <1>10, <3>1, <3>2 DEF DoIO_Returns
  <2>6. CopyTypeOK'
    BY <1>2, <1>3, <1>5, <1>10, <2>4 DEF CopyTypeOK
  <2>7. CopiedTo(q.Offset)' /\ currInPos' = q.Offset + BUFFER_SIZE
    BY <1>2, <1>3, <1>5, <2>2 DEF CopiedTo, Reading
  <2>8. Amount(q, q.nTransfer)' /\ q.Offset + q.nTransfer <= inFileSize'
    BY <1>2, <1>7, <1>10, <2>2 DEF Amount
  <2>9. ReadsCounted(1)' /\ writeOpers' >= 0
    BY <1>2, <1>3, <1>5, <1>10 DEF ReadsCounted, Reading
  <2>10. ReadPending(q)'
    BY <1>2, <1>4, <2>2, <2>3, <2>5, <2>7, <2>8, <2>9 DEF ReadPending
  <2> QED BY <1>3, <1>10, <1>a, <2>4, <2>6, <2>10 DEF CopyIInv, CopyPhase
<1>11. CASE /\ opers' = [opers EXCEPT ![1] = [AfterRead(r, n) EXCEPT !.type = "WRITE"]]
            /\ shortSync' = (shortSync \/ n < nBytes)
            /\ UNCHANGED <<readOpers, copying, failed>>
  <2>1. PICK b : b = [j \in 1 .. BUFFER_SIZE |-> IF j <= n THEN r.Offset + j ELSE r.buffer[j]]
    OBVIOUS
  <2>2. b \in [1 .. BUFFER_SIZE -> Nat] /\ \A j \in 1 .. BUFFER_SIZE : j <= n => b[j] = r.Offset + j
    BY <2>1, <1>5, <1>7, <1>9 DEF Operations
  <2>3. PICK q : q = [AfterRead(r, n) EXCEPT !.type = "WRITE"]
    OBVIOUS
  <2>4. q = [r EXCEPT !.type = "WRITE", !.pending = FALSE, !.event = TRUE, !.error = FALSE,
                      !.nTransfer = n, !.buffer = b]
    BY <2>1, <2>3, <1>9 DEF AfterRead, Operations
  <2>5. /\ q \in Operations /\ q.type = "WRITE" /\ q.Offset = currInPos /\ q.buffer = b
    BY <2>2, <2>4, <1>7, <1>9 DEF Operations
  <2>6. ~q.pending
    BY <2>4, <1>9 DEF Operations
  <2>7. opers' \in [Opers -> Operations] /\ opers'[1] = q
    BY <2>3, <2>5, <1>3, <1>11, OperationIs
  <2>8. CopyTypeOK'
    BY <1>2, <1>3, <1>5, <1>11, <2>7 DEF CopyTypeOK
  <2>9. CopiedTo(q.Offset)'
    BY <1>2, <1>3, <2>5 DEF CopiedTo, Reading
  <2>10. Filled(q)'
    <3>1. currInPos' = q.Offset + BUFFER_SIZE
      BY <1>2, <1>5, <2>5
    <3>2. ASSUME NEW j \in 1 .. BUFFER_SIZE, q.Offset + j <= inFileSize PROVE q.buffer[j] = q.Offset + j
      <4>1. j <= n
        BY <3>2, <1>5, <1>7, <2>5
      <4> QED BY <4>1, <2>2, <2>5, <1>9
    <3>3. q.Offset <= inFileSize
      BY <1>2, <1>5, <2>5
    <3> QED BY <3>1, <3>2, <3>3, <1>2 DEF Filled
  <2>11. Amount(q, nBytes)'
    <3>1. shortSync' \/ currInPos + BUFFER_SIZE <= inFileSize
      <4>1. n < BUFFER_SIZE \/ n = BUFFER_SIZE
        BY <1>5, <1>7
      <4> QED BY <4>1, <1>5, <1>7, <1>11
    <3> QED BY <3>1, <1>2, <1>5, <2>5 DEF Amount
  <2>12. ReadsCounted(0)' /\ writeOpers' >= 0
    BY <1>2, <1>3, <1>5, <1>11 DEF ReadsCounted, Reading
  <2>13. Writing(q)'
    BY <1>2, <1>3, <1>4, <1>11, <2>5, <2>6, <2>9, <2>10, <2>11, <2>12 DEF Writing
  <2> QED BY <1>3, <1>11, <1>a, <2>7, <2>8, <2>13 DEF CopyIInv, CopyPhase
<1>12. CASE /\ failed' = TRUE /\ opers' = [opers EXCEPT ![1] = Refuse(r)]
            /\ readOpers' = readOpers + 1 /\ UNCHANGED shortSync /\ DoIO_Returns(FALSE)
  <2>1. PICK q : q = Refuse(r)
    OBVIOUS
  <2>2. r.pending = o.pending
    BY <1>4, <1>8 DEF Operations
  <2>3. q \in Operations /\ ~q.pending /\ ~q.event
    BY <2>1, <2>2, <1>3, <1>9 DEF Refuse, Operations, Reading
  <2>4. opers' \in [Opers -> Operations] /\ opers'[1] = q
    BY <2>1, <2>3, <1>3, <1>12, OperationIs
  <2>5. copying' = "wait" \/ copying' = "end"
    <3>1. ~(current < NOPERS)
      BY <1>4
    <3> QED BY <1>12, <3>1 DEF DoIO_Returns
  <2>6. CopyTypeOK'
    BY <1>2, <1>3, <1>5, <1>12, <2>4 DEF CopyTypeOK
  <2> QED BY <1>12, <1>a, <2>3, <2>4, <2>5, <2>6 DEF CopyIInv, Broken
<1> QED BY <1>3, <1>4, <1>6, <1>8, <1>10, <1>11, <1>12 DEF DoIO_Read

\* What the output is after n bytes of what was read are written, be they all of it
\* or a beginning.
LEMMA WrittenIs ==
  ASSUME CopyTypeOK, NEW o \in Operations, NEW n \in Nat, Filled(o), n <= BUFFER_SIZE,
         o.Offset + n <= inFileSize \/ shortSync, NEW w, w = Written(o, n)
  PROVE  /\ w \in Seq(Nat) /\ Len(w) >= inFileSize /\ (Len(w) = inFileSize \/ shortSync)
         /\ \A p \in 1 .. inFileSize :
              w[p] = IF p \in o.Offset + 1 .. o.Offset + n THEN p ELSE out[p]
<1>1. PICK f \in Nat, d \in Nat, g \in Nat, z \in Nat :
        f = inFileSize /\ d = o.Offset /\ g = Len(out) /\ z = BUFFER_SIZE
  <2>1. inFileSize \in Nat /\ o.Offset \in Nat /\ BUFFER_SIZE \in Nat
    BY AsyncCopyAssumption DEF CopyTypeOK, Operations
  <2>2. Len(out) \in Nat
    BY DEF CopyTypeOK
  <2> QED BY <2>1, <2>2
<1>2. /\ n <= z /\ (d + n <= f \/ shortSync)
      /\ currInPos = d + z /\ d <= f /\ g >= f /\ (g = f \/ shortSync)
  BY <1>1 DEF Filled, CopyTypeOK
<1>3. PICK m : m = IF d + n > g THEN d + n ELSE g
  OBVIOUS
<1>4. m \in Nat /\ m >= f /\ (m = f \/ shortSync) /\ (m = g \/ m = d + n) /\ m >= g
  BY <1>1, <1>2, <1>3
<1>5. w = [p \in 1 .. m |-> IF p \in d + 1 .. d + n THEN o.buffer[p - d] ELSE out[p]]
  BY <1>1, <1>3 DEF Written
<1>6. ASSUME NEW p \in 1 .. m
      PROVE  (IF p \in d + 1 .. d + n THEN o.buffer[p - d] ELSE out[p]) \in Nat
  <2>1. CASE p \in d + 1 .. d + n
    <3>1. p \in Nat /\ p >= d + 1 /\ p <= d + n
      BY <1>4, <2>1
    <3>2. p - d \in 1 .. z
      <4>1. d \in Nat /\ z \in Nat /\ n <= z
        BY <1>1, <1>2
      <4> QED BY <3>1, <4>1
    <3> QED BY <2>1, <3>2, <1>1 DEF Operations
  <2>2. CASE p \notin d + 1 .. d + n
    <3>1. p \in Nat /\ p >= 1 /\ p <= g
      <4>1. p \in Nat /\ p >= 1 /\ p <= m /\ ~(p >= d + 1 /\ p <= d + n)
        BY <1>4, <2>2
      <4>2. m = g \/ (m = d + n /\ p <= d)
        BY <1>1, <1>4, <4>1
      <4>3. d <= g
        BY <1>1, <1>2
      <4> QED BY <1>1, <4>1, <4>2, <4>3
    <3>2. p \in 1 .. Len(out) /\ out \in Seq(Nat)
      BY <1>1, <3>1 DEF CopyTypeOK
    <3> QED BY <2>2, <3>2
  <2> QED BY <2>1, <2>2
<1>7. w \in [1 .. m -> Nat]
  BY <1>5, <1>6
<1>8. w \in Seq(Nat) /\ Len(w) = m
  BY <1>4, <1>7, FunctionIsSeq
<1>9. ASSUME NEW p \in 1 .. f PROVE w[p] = IF p \in d + 1 .. d + n THEN p ELSE out[p]
  <2>1. p \in 1 .. m /\ p \in Nat
    BY <1>1, <1>4
  <2>2. CASE p \in d + 1 .. d + n
    <3>1. p - d \in 1 .. z /\ d + (p - d) = p /\ p <= f
      <4>1. p \in Nat /\ p >= d + 1 /\ p <= d + n /\ p <= f
        BY <1>1, <2>1, <2>2
      <4>2. p - d \in 1 .. z
        <5>1. d \in Nat /\ z \in Nat /\ n <= z
          BY <1>1, <1>2
        <5> QED BY <4>1, <5>1
      <4>3. d + (p - d) = p
        BY <1>1, <4>1
      <4> QED BY <4>1, <4>2, <4>3
    <3>2. o.buffer[p - d] = p
      BY <1>1, <3>1 DEF Filled
    <3> QED BY <1>5, <2>1, <2>2, <3>2
  <2>3. CASE p \notin d + 1 .. d + n
    BY <1>5, <2>1, <2>3
  <2> QED BY <2>2, <2>3
<1> QED BY <1>1, <1>2, <1>4, <1>8, <1>9

\* What a write leaves within the size of the input is the input's.
LEMMA WritesInput ==
  ASSUME CopyTypeOK, CopyWritesOnlyInput, NEW o \in Operations, NEW n \in Nat, Filled(o),
         n <= BUFFER_SIZE, o.Offset + n <= inFileSize \/ shortSync, NEW w, w = Written(o, n)
  PROVE  \A p \in 1 .. inFileSize : w[p] \in {0, p}
BY WrittenIs DEF CopyWritesOnlyInput

\* A write of all that was read, or of all that was asked for, brings the copy up to
\* the position of the input.
LEMMA WritesAll ==
  ASSUME CopyTypeOK, NEW o \in Operations, NEW n \in Nat, Filled(o), Amount(o, n),
         CopiedTo(o.Offset), NEW w, w = Written(o, n)
  PROVE  \A p \in 1 .. inFileSize : p <= currInPos => w[p] = p
<1>1. PICK f \in Nat, d \in Nat, z \in Nat :
        f = inFileSize /\ d = o.Offset /\ z = BUFFER_SIZE
  BY AsyncCopyAssumption DEF CopyTypeOK, Operations
<1>2. n <= z /\ (n = z \/ d + n = f) /\ currInPos = d + z
  BY <1>1 DEF Amount, Filled
<1> SUFFICES ASSUME NEW p \in 1 .. f, p <= d + z PROVE w[p] = p
  BY <1>1, <1>2
<1>3. w[p] = IF p \in d + 1 .. d + n THEN p ELSE out[p]
  BY <1>1, WrittenIs DEF Amount
<1>4. CASE p \notin d + 1 .. d + n
  <2>1. p <= d
    BY <1>1, <1>2, <1>4
  <2>2. out[p] = p
    BY <1>1, <2>1 DEF CopiedTo
  <2> QED BY <1>3, <1>4, <2>2
<1> QED BY <1>3, <1>4

\* A write that is pending, or completes at once and goes on to read.
LEMMA WriteKeeps ==
  ASSUME NOPERS = 1, CopyIInv, DoIO_Write
  PROVE  CopyIInv'
<1>1. PICK o : o = opers[1]
  OBVIOUS
<1>2. /\ copying = "DoIO" /\ oper.type = "WRITE"
      /\ UNCHANGED <<inFileSize, caller, current, nBytes, currInPos, readOpers, shortSync>>
  BY DEF DoIO_Write, InDoIO
<1>3. CopyTypeOK /\ CopyWritesOnlyInput /\ Writing(o) /\ ~failed
  BY <1>1, <1>2 DEF CopyIInv, Broken, CopyPhase, Starting, Reading, Writing, ReadPending,
        ReadReady, WritePending, WriteReady, Stuck, Ended, oper
<1>4. o \in Operations /\ oper = o /\ current = 1
  BY <1>1, <1>3, OneOperation DEF oper, Writing
<1>5. /\ nBytes \in Nat /\ BUFFER_SIZE \in Nat \ {0} /\ writeOpers >= 0
      /\ inFileSize \in Nat /\ currInPos \in Nat /\ readOpers \in Int /\ writeOpers \in Int
      /\ Filled(o) /\ Amount(o, nBytes) /\ CopiedTo(o.Offset)
  BY <1>3, AsyncCopyAssumption DEF Writing, CopyTypeOK
<1>6. CASE /\ opers' = [opers EXCEPT ![1] = Pend(o, nBytes)] /\ writeOpers' = writeOpers + 1
           /\ UNCHANGED <<out, failed>> /\ DoIO_Returns(TRUE)
  <2>1. PICK q : q = Pend(o, nBytes)
    OBVIOUS
  <2>2. /\ q \in Operations /\ q.type = "WRITE" /\ q.Offset = o.Offset /\ q.nTransfer = nBytes
        /\ q.buffer = o.buffer
    BY <2>1, <1>2, <1>4, <1>5 DEF Pend, Operations
  <2>3. q.pending /\ ~q.event
    BY <2>1, <1>4 DEF Pend, Operations
  <2>4. opers' \in [Opers -> Operations] /\ opers'[1] = q
    BY <2>1, <2>2, <1>3, <1>6, OperationIs
  <2>5. copying' = "wait"
    <3>1. writeOpers' > 0
      BY <1>5, <1>6
    <3>2. ~(current < NOPERS)
      BY <1>4
    <3> QED BY <1>6, <3>1, <3>2 DEF DoIO_Returns
  <2>6. CopyTypeOK'
    BY <1>2, <1>3, <1>5, <1>6, <2>4 DEF CopyTypeOK
  <2>7. CopiedTo(q.Offset)' /\ Filled(q)' /\ Amount(q, q.nTransfer)'
    BY <1>2, <1>5, <1>6, <2>2 DEF CopiedTo, Filled, Amount
  <2>8. ReadsCounted(0)' /\ writeOpers' >= 1
    BY <1>2, <1>3, <1>5, <1>6 DEF ReadsCounted, Writing
  <2>9. WritePending(q)'
    BY <1>2, <1>4, <2>2, <2>3, <2>5, <2>7, <2>8 DEF WritePending
  <2>10. CopyWritesOnlyInput'
    BY <1>2, <1>3, <1>6 DEF CopyWritesOnlyInput
  <2> QED BY <1>3, <1>6, <2>4, <2>6, <2>9, <2>10 DEF CopyIInv, CopyPhase
<1>7. CASE /\ opers' = [opers EXCEPT ![1] = [AfterWrite(o, nBytes) EXCEPT !.type = "READ"]]
           /\ out' = Written(o, nBytes) /\ UNCHANGED <<writeOpers, copying, failed>>
  <2>1. PICK q : q = [AfterWrite(o, nBytes) EXCEPT !.type = "READ"]
    OBVIOUS
  <2>2. /\ q \in Operations /\ q.type = "READ" /\ q.Offset = o.Offset /\ q.nTransfer = nBytes
        /\ q.buffer = o.buffer
    BY <2>1, <1>4, <1>5 DEF AfterWrite, Operations
  <2>3. ~q.pending /\ ~q.error
    BY <2>1, <1>4 DEF AfterWrite, Operations
  <2>4. opers' \in [Opers -> Operations] /\ opers'[1] = q
    BY <2>1, <2>2, <1>3, <1>7, OperationIs
  <2>5. /\ out' \in Seq(Nat) /\ Len(out') >= inFileSize
        /\ Len(out') = inFileSize \/ shortSync
        /\ \A p \in 1 .. inFileSize : p <= currInPos => out'[p] = p
        /\ \A p \in 1 .. inFileSize : out'[p] \in {0, p}
    BY <1>3, <1>4, <1>5, <1>7, WrittenIs, WritesInput, WritesAll DEF Amount
  <2>6. CopyTypeOK'
    BY <1>2, <1>3, <1>5, <1>7, <2>4, <2>5 DEF CopyTypeOK
  <2>7. CopiedTo(currInPos)' /\ Filled(q)' /\ Amount(q, q.nTransfer)'
    BY <1>2, <1>5, <1>7, <2>2, <2>5 DEF CopiedTo, Filled, Amount
  <2>8. ReadsCounted(0)' /\ writeOpers' >= 0
    BY <1>2, <1>3, <1>5, <1>7 DEF ReadsCounted, Writing
  <2>9. nBytes = BUFFER_SIZE \/ currInPos >= inFileSize
    <3>1. PICK f \in Nat, d \in Nat, z \in Nat :
            f = inFileSize /\ d = o.Offset /\ z = BUFFER_SIZE
      BY <1>4, <1>5 DEF Operations
    <3>2. (nBytes = z \/ d + nBytes = f) /\ nBytes <= z /\ currInPos = d + z
      BY <1>5, <3>1 DEF Amount, Filled
    <3> QED BY <1>5, <3>1, <3>2
  <2>10. Reading(q)'
    BY <1>2, <1>3, <1>4, <1>7, <2>2, <2>3, <2>7, <2>8, <2>9 DEF Reading
  <2>11. CopyWritesOnlyInput'
    BY <1>2, <2>5 DEF CopyWritesOnlyInput
  <2> QED BY <1>3, <1>7, <2>4, <2>6, <2>10, <2>11 DEF CopyIInv, CopyPhase
<1>8. CASE /\ failed' = TRUE /\ opers' = [opers EXCEPT ![1] = Refuse(o)]
           /\ writeOpers' = writeOpers + 1 /\ UNCHANGED out /\ DoIO_Returns(FALSE)
  <2>1. PICK q : q = Refuse(o)
    OBVIOUS
  <2>2. q \in Operations /\ ~q.pending /\ ~q.event
    BY <2>1, <1>3, <1>4 DEF Refuse, Operations, Writing
  <2>3. opers' \in [Opers -> Operations] /\ opers'[1] = q
    BY <2>1, <2>2, <1>3, <1>8, OperationIs
  <2>4. copying' = "wait" \/ copying' = "end"
    <3>1. ~(current < NOPERS)
      BY <1>4
    <3> QED BY <1>8, <3>1 DEF DoIO_Returns
  <2>5. CopyTypeOK'
    BY <1>2, <1>3, <1>5, <1>8, <2>3 DEF CopyTypeOK
  <2>6. CopyWritesOnlyInput'
    BY <1>2, <1>3, <1>8 DEF CopyWritesOnlyInput
  <2> QED BY <1>8, <2>2, <2>3, <2>4, <2>5, <2>6 DEF CopyIInv, Broken
<1> QED BY <1>3, <1>4, <1>6, <1>7, <1>8 DEF DoIO_Write

\* Only an operation whose request the system has is pending, and nothing failed.
LEMMA PendingIs ==
  ASSUME NOPERS = 1, CopyIInv, opers[1].pending
  PROVE  /\ CopyTypeOK /\ CopyWritesOnlyInput /\ ~failed
         /\ ReadPending(opers[1]) \/ WritePending(opers[1])
<1>1. ~failed /\ CopyPhase(opers[1])
  BY DEF CopyIInv, Broken
<1>2. ~Starting
  BY DEF Starting, OperInit
<1> QED BY <1>1, <1>2 DEF CopyIInv, CopyPhase, Reading, Writing, ReadReady, WriteReady, Stuck, Ended

\* A request the system had fails.
LEMMA FailureKeeps ==
  ASSUME NOPERS = 1, CopyIInv, \E i \in Opers : CompletionFails(i)
  PROVE  CopyIInv'
<1>1. PICK o : o = opers[1]
  OBVIOUS
<1>2. Opers = {1} /\ o \in Operations
  BY <1>1, OneOperation DEF CopyIInv
<1>3. /\ o.pending /\ opers' = [opers EXCEPT ![1] = AfterFailure(o)] /\ failed' = TRUE
      /\ \/ UNCHANGED out
         \/ o.type = "WRITE" /\ \E n \in 0 .. o.nTransfer : out' = Written(o, n)
      /\ UNCHANGED <<inFileSize, currInPos, readOpers, writeOpers, copying, caller,
                     current, nBytes, shortSync>>
  BY <1>1, <1>2 DEF CompletionFails
<1>4. /\ CopyTypeOK /\ CopyWritesOnlyInput /\ copying = "wait"
      /\ ReadPending(o) \/ WritePending(o)
  BY <1>1, <1>3, PendingIs DEF ReadPending, WritePending
<1>5. PICK q : q = AfterFailure(o)
  OBVIOUS
<1>6. q \in Operations /\ ~q.pending /\ q.error
  BY <1>2, <1>5 DEF AfterFailure, Operations
<1>7. opers' \in [Opers -> Operations] /\ opers'[1] = q
  BY <1>3, <1>4, <1>5, <1>6, OperationIs
<1>8. /\ out' \in Seq(Nat) /\ Len(out') >= inFileSize
      /\ Len(out') = inFileSize \/ shortSync
      /\ \A p \in 1 .. inFileSize : out'[p] \in {0, p}
  <2>1. CASE UNCHANGED out
    BY <1>4, <2>1 DEF CopyTypeOK, CopyWritesOnlyInput
  <2>2. CASE o.type = "WRITE" /\ \E n \in 0 .. o.nTransfer : out' = Written(o, n)
    <3>1. WritePending(o)
      BY <1>4, <2>2 DEF ReadPending
    <3>2. PICK n \in 0 .. o.nTransfer : out' = Written(o, n)
      BY <2>2
    <3>3. o.nTransfer \in Nat /\ o.Offset \in Nat /\ inFileSize \in Nat /\ BUFFER_SIZE \in Nat
      BY <1>2, <1>4, AsyncCopyAssumption DEF Operations, CopyTypeOK
    <3>4. /\ n \in Nat /\ Filled(o) /\ n <= BUFFER_SIZE
          /\ o.Offset + n <= inFileSize \/ shortSync
      BY <3>1, <3>3 DEF WritePending, Amount
    <3> QED BY <1>2, <1>4, <3>2, <3>4, WrittenIs, WritesInput
  <2> QED BY <1>3, <2>1, <2>2
<1>9. CopyTypeOK' /\ CopyWritesOnlyInput'
  BY <1>3, <1>4, <1>7, <1>8 DEF CopyTypeOK, CopyWritesOnlyInput
<1> QED BY <1>3, <1>4, <1>6, <1>7, <1>9 DEF CopyIInv, Broken

\* A request the system had is completed.
LEMMA CompletionKeeps ==
  ASSUME NOPERS = 1, CopyIInv, \E i \in Opers : Completion(i)
  PROVE  CopyIInv'
<1>1. PICK o : o = opers[1]
  OBVIOUS
<1>2. o \in Operations /\ Opers = {1}
  BY <1>1, OneOperation DEF CopyIInv
<1>3. /\ o.pending
      /\ UNCHANGED <<inFileSize, currInPos, readOpers, writeOpers, copying, caller,
                     current, nBytes, failed, shortSync>>
      /\ \/ /\ o.type = "READ" /\ UNCHANGED out
            /\ opers' = [opers EXCEPT ![1] = AfterRead(o, o.nTransfer)]
         \/ /\ o.type = "WRITE" /\ out' = Written(o, o.nTransfer)
            /\ opers' = [opers EXCEPT ![1] = AfterWrite(o, o.nTransfer)]
  BY <1>1, <1>2 DEF Completion
<1>4. /\ ReadPending(o) \/ WritePending(o)
      /\ CopyTypeOK /\ CopyWritesOnlyInput /\ ~failed /\ ~failed'
  BY <1>1, <1>3, PendingIs
<1>5. BUFFER_SIZE \in Nat \ {0} /\ o.nTransfer \in Nat /\ o.Offset \in Nat
      /\ inFileSize \in Nat /\ currInPos \in Nat
  BY <1>2, <1>4, AsyncCopyAssumption DEF Operations, CopyTypeOK
<1>6. CASE ReadPending(o)
  <2>1. PICK n \in Nat : n = o.nTransfer
    BY <1>5
  <2>2. PICK b : b = [j \in 1 .. BUFFER_SIZE |-> IF j <= n THEN o.Offset + j ELSE o.buffer[j]]
    OBVIOUS
  <2>3. b \in [1 .. BUFFER_SIZE -> Nat] /\ \A j \in 1 .. BUFFER_SIZE : j <= n => b[j] = o.Offset + j
    BY <2>1, <2>2, <1>2, <1>5 DEF Operations
  <2>4. PICK q : q = AfterRead(o, n)
    OBVIOUS
  <2>5. q = [o EXCEPT !.pending = FALSE, !.event = TRUE, !.error = FALSE, !.nTransfer = n,
                      !.buffer = b]
    BY <2>2, <2>4 DEF AfterRead
  <2>6. /\ q \in Operations /\ q.type = "READ" /\ q.Offset = o.Offset /\ q.buffer = b
        /\ q.nTransfer = n
    BY <2>3, <2>5, <1>2, <1>6 DEF Operations, ReadPending
  <2>7. ~q.pending /\ q.event /\ ~q.error
    BY <2>5, <1>2 DEF Operations
  <2>8. UNCHANGED out /\ opers' = [opers EXCEPT ![1] = q]
    BY <1>3, <1>6, <2>1, <2>4 DEF ReadPending
  <2>9. opers' \in [Opers -> Operations] /\ opers'[1] = q
    BY <2>6, <2>8, <1>4, OperationIs
  <2>10. CopyTypeOK' /\ CopyWritesOnlyInput'
    BY <1>3, <1>4, <2>8, <2>9 DEF CopyTypeOK, CopyWritesOnlyInput
  <2>11. Filled(q)'
    <3>1. currInPos = q.Offset + BUFFER_SIZE
      BY <1>6, <2>6 DEF ReadPending
    <3>2. n = BUFFER_SIZE \/ o.Offset + n = inFileSize
      BY <1>6, <2>1 DEF ReadPending, Amount
    <3>3. ASSUME NEW j \in 1 .. BUFFER_SIZE, q.Offset + j <= inFileSize PROVE q.buffer[j] = q.Offset + j
      <4>1. j <= n
        BY <3>2, <3>3, <1>5, <2>6
      <4> QED BY <4>1, <2>3, <2>6
    <3>4. q.Offset <= inFileSize
      BY <1>5, <1>6, <2>6 DEF ReadPending
    <3> QED BY <3>1, <3>3, <3>4, <1>3 DEF Filled
  <2>12. CopiedTo(q.Offset)' /\ Amount(q, q.nTransfer)'
    BY <1>3, <1>6, <2>1, <2>6, <2>8 DEF CopiedTo, Amount, ReadPending
  <2>13. ReadReady(q)'
    BY <1>3, <1>6, <2>6, <2>7, <2>11, <2>12 DEF ReadReady, ReadPending, ReadsCounted
  <2> QED BY <1>4, <2>9, <2>10, <2>13 DEF CopyIInv, CopyPhase
<1>7. CASE WritePending(o)
  <2>1. PICK n \in Nat : n = o.nTransfer
    BY <1>5
  <2>2. PICK q : q = AfterWrite(o, n)
    OBVIOUS
  <2>3. /\ q \in Operations /\ q.type = "WRITE" /\ q.Offset = o.Offset /\ q.buffer = o.buffer
        /\ q.nTransfer = n
    BY <2>1, <2>2, <1>2, <1>7 DEF AfterWrite, Operations, WritePending
  <2>4. ~q.pending /\ q.event /\ ~q.error
    BY <2>2, <1>2 DEF AfterWrite, Operations
  <2>5. out' = Written(o, n) /\ opers' = [opers EXCEPT ![1] = q]
    BY <1>3, <1>7, <2>1, <2>2 DEF WritePending
  <2>6. opers' \in [Opers -> Operations] /\ opers'[1] = q
    BY <2>3, <2>5, <1>4, OperationIs
  <2>7. Filled(o) /\ Amount(o, n) /\ CopiedTo(o.Offset)
    BY <1>7, <2>1 DEF WritePending
  <2>8. /\ out' \in Seq(Nat) /\ Len(out') >= inFileSize
        /\ Len(out') = inFileSize \/ shortSync
        /\ \A p \in 1 .. inFileSize : p <= currInPos => out'[p] = p
        /\ \A p \in 1 .. inFileSize : out'[p] \in {0, p}
    BY <1>2, <1>4, <2>5, <2>7, WrittenIs, WritesInput, WritesAll DEF Amount
  <2>9. CopyTypeOK' /\ CopyWritesOnlyInput'
    BY <1>3, <1>4, <2>6, <2>8 DEF CopyTypeOK, CopyWritesOnlyInput
  <2>10. CopiedTo(currInPos)' /\ Filled(q)' /\ Amount(q, q.nTransfer)'
    BY <1>3, <2>3, <2>7, <2>8 DEF CopiedTo, Filled, Amount
  <2>11. WriteReady(q)'
    BY <1>3, <1>7, <2>3, <2>4, <2>10 DEF WriteReady, WritePending, ReadsCounted
  <2> QED BY <1>4, <2>6, <2>9, <2>11 DEF CopyIInv, CopyPhase
<1> QED BY <1>4, <1>6, <1>7

\* The answer to a read starts the write of what was read.
LEMMA ReadDoneKeeps ==
  ASSUME NOPERS = 1, CopyIInv, AsyncReadDone
  PROVE  CopyIInv'
<1>1. PICK o : o = opers[1]
  OBVIOUS
<1>2. CopyTypeOK /\ o \in Operations /\ Opers = {1}
  BY <1>1, OneOperation DEF CopyIInv
<1>a. /\ copying = "wait" /\ o.event /\ o.type = "READ" /\ current' = 1
      /\ UNCHANGED <<inFileSize, currInPos, writeOpers, out, failed, shortSync>>
      /\ \/ /\ o.error /\ copying' = "end" /\ UNCHANGED <<opers, caller, nBytes>>
            /\ readOpers' \in {readOpers, readOpers - 1}
         \/ /\ ~o.error /\ opers' = [opers EXCEPT ![1].type = "WRITE"]
            /\ DoIO("readDone", o.nTransfer)
            /\ readOpers' = readOpers - 1
  BY <1>1, <1>2 DEF AsyncReadDone, Answered
<1>b. CopyWritesOnlyInput'
  BY <1>a DEF CopyIInv, CopyWritesOnlyInput
<1>c. CASE failed
  <2>1. o.error /\ ~o.pending
    BY <1>1, <1>a, <1>c DEF CopyIInv, Broken
  <2>2. CopyTypeOK'
    BY <1>2, <1>a, <2>1 DEF CopyTypeOK
  <2> QED BY <1>1, <1>a, <1>b, <1>c, <2>1, <2>2 DEF CopyIInv, Broken
<1>d. SUFFICES ASSUME ~failed PROVE CopyIInv'
  BY <1>c
<1>4. ReadReady(o)
  BY <1>1, <1>a, <1>d DEF CopyIInv, CopyPhase, Starting, Reading, Writing, ReadPending,
     WritePending, WriteReady, Stuck, Ended
<1>3. /\ copying = "wait" /\ o.event /\ o.type = "READ" /\ current' = 1
      /\ opers' = [opers EXCEPT ![1].type = "WRITE"] /\ DoIO("readDone", o.nTransfer)
      /\ readOpers' = readOpers - 1
      /\ UNCHANGED <<inFileSize, currInPos, writeOpers, out, failed, shortSync>>
  BY <1>a, <1>4 DEF ReadReady
<1>5. PICK q : q = [o EXCEPT !.type = "WRITE"]
  OBVIOUS
<1>6. /\ q \in Operations /\ q.type = "WRITE" /\ q.Offset = o.Offset /\ q.buffer = o.buffer
  BY <1>2, <1>5 DEF Operations
<1>7. ~q.pending
  BY <1>2, <1>4, <1>5 DEF Operations, ReadReady
<1>8. opers' = [opers EXCEPT ![1] = q]
  BY <1>1, <1>3, <1>5
<1>9. opers' \in [Opers -> Operations] /\ opers'[1] = q
  BY <1>2, <1>6, <1>8, OperationIs
<1>10. copying' = "DoIO" /\ nBytes' = o.nTransfer /\ nBytes' \in Nat
  BY <1>2, <1>3 DEF DoIO, Operations
<1>11. CopyTypeOK'
  BY <1>2, <1>3, <1>9, <1>10 DEF CopyTypeOK
<1>12. CopiedTo(q.Offset)' /\ Filled(q)' /\ Amount(q, nBytes)'
  BY <1>3, <1>4, <1>6, <1>10 DEF CopiedTo, Filled, Amount, ReadReady
<1>13. ReadsCounted(0)' /\ writeOpers' >= 0
  BY <1>2, <1>3, <1>4 DEF ReadsCounted, ReadReady, CopyTypeOK
<1>14. Writing(q)'
  BY <1>3, <1>6, <1>7, <1>10, <1>12, <1>13 DEF Writing
<1> QED BY <1>3, <1>b, <1>d, <1>9, <1>11, <1>14 DEF CopyIInv, CopyPhase

\* The answer to a write starts the next read.
LEMMA WriteDoneKeeps ==
  ASSUME NOPERS = 1, CopyIInv, AsyncWriteDone
  PROVE  CopyIInv'
<1>1. PICK o : o = opers[1]
  OBVIOUS
<1>2. CopyTypeOK /\ o \in Operations /\ Opers = {1}
  BY <1>1, OneOperation DEF CopyIInv
<1>a. /\ copying = "wait" /\ o.event /\ o.type = "WRITE" /\ current' = 1
      /\ UNCHANGED <<inFileSize, currInPos, readOpers, out, failed, shortSync>>
      /\ \/ /\ o.error /\ copying' = "end" /\ UNCHANGED <<opers, caller, nBytes>>
            /\ writeOpers' \in {writeOpers, writeOpers - 1}
         \/ /\ ~o.error /\ opers' = [opers EXCEPT ![1].type = "READ"]
            /\ DoIO("writeDone", BUFFER_SIZE)
            /\ writeOpers' = writeOpers - 1
  BY <1>1, <1>2 DEF AsyncWriteDone, Answered
<1>b. CopyWritesOnlyInput'
  BY <1>a DEF CopyIInv, CopyWritesOnlyInput
<1>c. CASE failed
  <2>1. o.error /\ ~o.pending
    BY <1>1, <1>a, <1>c DEF CopyIInv, Broken
  <2>2. CopyTypeOK'
    BY <1>2, <1>a, <2>1 DEF CopyTypeOK
  <2> QED BY <1>1, <1>a, <1>b, <1>c, <2>1, <2>2 DEF CopyIInv, Broken
<1>d. SUFFICES ASSUME ~failed PROVE CopyIInv'
  BY <1>c
<1>4. WriteReady(o)
  BY <1>1, <1>a, <1>d DEF CopyIInv, CopyPhase, Starting, Reading, Writing, ReadPending,
     WritePending, ReadReady, Stuck, Ended
<1>3. /\ copying = "wait" /\ o.event /\ o.type = "WRITE" /\ current' = 1
      /\ opers' = [opers EXCEPT ![1].type = "READ"] /\ DoIO("writeDone", BUFFER_SIZE)
      /\ writeOpers' = writeOpers - 1
      /\ UNCHANGED <<inFileSize, currInPos, readOpers, out, failed, shortSync>>
  BY <1>a, <1>4 DEF WriteReady
<1>5. PICK q : q = [o EXCEPT !.type = "READ"]
  OBVIOUS
<1>6. /\ q \in Operations /\ q.type = "READ" /\ q.Offset = o.Offset /\ q.buffer = o.buffer
      /\ q.nTransfer = o.nTransfer
  BY <1>2, <1>5 DEF Operations
<1>7. ~q.pending /\ ~q.error
  BY <1>2, <1>4, <1>5 DEF Operations, WriteReady
<1>8. opers' = [opers EXCEPT ![1] = q]
  BY <1>1, <1>3, <1>5
<1>9. opers' \in [Opers -> Operations] /\ opers'[1] = q
  BY <1>2, <1>6, <1>8, OperationIs
<1>10. copying' = "DoIO" /\ nBytes' = BUFFER_SIZE /\ nBytes' \in Nat
  BY <1>3, AsyncCopyAssumption DEF DoIO
<1>11. CopyTypeOK'
  BY <1>2, <1>3, <1>9, <1>10 DEF CopyTypeOK
<1>12. CopiedTo(currInPos)' /\ Filled(q)' /\ Amount(q, q.nTransfer)'
  BY <1>3, <1>4, <1>6 DEF CopiedTo, Filled, Amount, WriteReady
<1>13. ReadsCounted(0)' /\ writeOpers' >= 0
  BY <1>2, <1>3, <1>4 DEF ReadsCounted, WriteReady, CopyTypeOK
<1>14. Reading(q)'
  BY <1>3, <1>6, <1>7, <1>10, <1>12, <1>13 DEF Reading
<1> QED BY <1>3, <1>b, <1>d, <1>9, <1>11, <1>14 DEF CopyIInv, CopyPhase

\* Before the copy nothing is read or written.
LEMMA CopyInitHolds == NOPERS = 1 /\ CopyInit => CopyIInv
<1> SUFFICES ASSUME NOPERS = 1, CopyInit PROVE CopyIInv
  OBVIOUS
<1>1. /\ inFileSize \in Nat /\ currInPos = 0 /\ readOpers = 0 /\ writeOpers = 0
      /\ opers = [i \in Opers |-> OperInit] /\ copying = "start" /\ current = 0 /\ nBytes = 0
      /\ out = [p \in 1 .. inFileSize |-> 0] /\ shortSync = FALSE /\ Opers = {1}
      /\ failed = FALSE
  BY AsyncCopyAssumption DEF CopyInit, Opers
<1>2. OperInit \in Operations
  BY DEF OperInit, Operations
<1>3. out \in Seq(Nat) /\ Len(out) = inFileSize
  <2>1. out \in [1 .. inFileSize -> Nat]
    BY <1>1
  <2> QED BY <1>1, <2>1, FunctionIsSeq
<1>4. CopyTypeOK
  <2>1. opers \in [Opers -> Operations]
    BY <1>1, <1>2
  <2>2. out \in Seq(Nat) /\ Len(out) >= inFileSize /\ Len(out) = inFileSize
    BY <1>1, <1>3
  <2>3. /\ inFileSize \in Nat /\ currInPos \in Nat /\ nBytes \in Nat
        /\ readOpers \in Int /\ writeOpers \in Int
    BY <1>1
  <2>4. shortSync \in BOOLEAN /\ failed \in BOOLEAN
    BY <1>1
  <2> QED BY <2>1, <2>2, <2>3, <2>4 DEF CopyTypeOK
<1>5. Starting
  BY <1>1 DEF Starting
<1>6. CopyWritesOnlyInput
  BY <1>1 DEF CopyWritesOnlyInput
<1> QED BY <1>1, <1>4, <1>5, <1>6 DEF CopyIInv, CopyPhase

\* Every step of the copy keeps the invariant.
LEMMA CopyNextKeeps == NOPERS = 1 /\ CopyIInv /\ [CopyNext]_copyvars => CopyIInv'
<1> SUFFICES ASSUME NOPERS = 1, CopyIInv, [CopyNext]_copyvars PROVE CopyIInv'
  OBVIOUS
<1>1. CASE UNCHANGED copyvars
  <2>1. UNCHANGED <<inFileSize, currInPos, readOpers, writeOpers, opers, copying,
                    current, nBytes, out, failed, shortSync>>
    BY <1>1 DEF copyvars
  <2> QED BY <2>1 DEF CopyIInv, CopyTypeOK, CopyWritesOnlyInput, Broken, CopyPhase, Starting, Reading, Writing, ReadPending,
        ReadReady, WritePending, WriteReady, Stuck, Ended, CopiedTo, Filled, Amount, ReadsCounted
<1>2. CASE CopyNext
  BY <1>2, StartKeeps, AtEndKeeps, ReadKeeps, WriteKeeps, CompletionKeeps, FailureKeeps,
     ReadDoneKeeps, WriteDoneKeeps DEF CopyNext, CopyMainStep, SystemCompletes
<1> QED BY <1>1, <1>2

\* The invariant holds in every behavior.
LEMMA CopyInvariantHolds == NOPERS = 1 => (CopySpec => []CopyIInv)
<1> SUFFICES ASSUME NOPERS = 1 PROVE CopySpec => []CopyIInv
  OBVIOUS
<1>1. CopyInit => CopyIInv
  BY CopyInitHolds
<1>2. CopyIInv /\ [CopyNext]_copyvars => CopyIInv'
  BY CopyNextKeeps
<1> QED BY <1>1, <1>2, PTL DEF CopySpec

\* With one operation nothing but the input is written within its size, whichever
\* requests are refused, fail, or complete at once, and wherever the copy stops.
THEOREM OnlyInputIsWritten == NOPERS = 1 => (CopySpec => []CopyWritesOnlyInput)
<1> SUFFICES ASSUME NOPERS = 1 PROVE CopySpec => []CopyWritesOnlyInput
  OBVIOUS
<1>1. CopyIInv => CopyWritesOnlyInput
  BY DEF CopyIInv
<1> QED BY <1>1, CopyInvariantHolds, PTL

\* With one operation, as the program has it, nothing but the input is written, and
\* the copy that ends is complete if no request was refused and none failed, for
\* every buffer size and every file.
THEOREM CopiesAreComplete == NOPERS = 1 => (CopySpec => []CopyIsComplete)
<1>1. NOPERS = 1 /\ CopyIInv => CopyIsComplete
  <2> SUFFICES ASSUME NOPERS = 1, CopyIInv, copying = "end", ~failed
               PROVE  /\ \A p \in 1 .. inFileSize : out[p] = p
                      /\ Len(out) = inFileSize \/ shortSync
                      /\ \A i \in Opers : ~opers[i].pending
    BY DEF CopyIsComplete, CopyIInv
  <2>1. CopyTypeOK /\ Ended(opers[1])
    BY DEF CopyIInv, CopyPhase, Starting, Reading, Writing, ReadPending, ReadReady,
       WritePending, WriteReady, Stuck
  <2> QED BY <2>1, OneOperation DEF Ended, CopyTypeOK, CopiedTo
<1> SUFFICES ASSUME NOPERS = 1 PROVE CopySpec => []CopyIsComplete
  OBVIOUS
<1>2. CopyIInv => CopyIsComplete
  BY <1>1
<1> QED BY <1>2, CopyInvariantHolds, PTL

-----------------------------------------------------------------------------
(* The search with a completion port.                                         *)

SearchIds == 1 .. Searches
Statuses == {STATUS_OK, HANDLE_EOF, DEVICE_ERROR}
Contexts == [allocated : BOOLEAN, currPos : Nat, ocorrences : Nat]
Processing == [does : {"process"}, search : SearchIds, bytes : {0, 1}]
Dispatching == [does : {"dispatch"}, search : SearchIds, status : Statuses]

\* Type invariant.
SearchTypeOK ==
  /\ blocks \in Nat /\ started \in 0 .. Searches /\ startFailed \in BOOLEAN
  /\ opCtx \in [SearchIds -> Contexts]
  /\ port \in SUBSET (SearchIds \X {0, 1} \X Statuses)
  /\ reading \in SUBSET SearchIds
  /\ portThread \in [PortThreads -> Processing \cup Dispatching \cup {Waiting}]
  /\ answers \in [SearchIds -> Seq(Statuses \X Nat)]

\* Who has a hand on a search: a read, a completion, or a thread.
InPort(s) == \E c \in port : c[1] = s
Works(t, s) == portThread[t] # Waiting /\ portThread[t].search = s
AtThread(s) == \E t \in PortThreads : Works(t, s)

\* A search is in one pair of hands if its context is allocated, or else in none.
OneHand ==
  \A s \in SearchIds :
    /\ opCtx[s].allocated => s \in reading \/ InPort(s) \/ AtThread(s)
    /\ s \in reading \/ InPort(s) \/ AtThread(s) => opCtx[s].allocated
    /\ s \in reading => ~InPort(s) /\ ~AtThread(s)
    /\ InPort(s) => ~AtThread(s)
    /\ \A c, d \in port : c[1] = s /\ d[1] = s => c = d
    /\ \A t, u \in PortThreads : Works(t, s) /\ Works(u, s) => t = u

\* The occurrences found so far, those of the blocks read; and at the end all.
CountsBlocks ==
  \A s \in SearchIds : opCtx[s].allocated =>
    opCtx[s].ocorrences = opCtx[s].currPos /\ opCtx[s].currPos <= blocks
CompletionTells ==
  \A c \in port :
    /\ c[2] = 1 => opCtx[c[1]].currPos < blocks /\ c[3] # DEVICE_ERROR
    /\ c[2] = 0 /\ c[3] # DEVICE_ERROR => opCtx[c[1]].currPos = blocks
ThreadTells ==
  \A t \in PortThreads :
    LET task == portThread[t]
    IN /\ task.does = "process" /\ task.bytes = 1 => opCtx[task.search].currPos < blocks
       /\ task.does = "process" /\ task.bytes = 0 => opCtx[task.search].currPos = blocks
       /\ task.does = "dispatch" /\ task.status # DEVICE_ERROR =>
            opCtx[task.search].currPos = blocks

\* What was answered: once, when the context was freed.
Begun(s) == s <= started /\ ~(startFailed /\ s = started)
AnsweredOnce ==
  \A s \in SearchIds :
    /\ Len(answers[s]) = IF Begun(s) /\ ~opCtx[s].allocated THEN 1 ELSE 0
    /\ opCtx[s].allocated => Begun(s)
Fresh ==
  \A s \in SearchIds :
    s > started => opCtx[s].currPos = 0 /\ opCtx[s].ocorrences = 0
AnswersTell ==
  \A s \in SearchIds : \A n \in 1 .. Len(answers[s]) :
    /\ answers[s][n][2] <= blocks
    /\ answers[s][n][1] # DEVICE_ERROR => answers[s][n][2] = blocks

\* The inductive invariant.
SearchIInv ==
  /\ SearchTypeOK /\ OneHand /\ CountsBlocks /\ CompletionTells /\ ThreadTells
  /\ AnsweredOnce /\ Fresh /\ AnswersTell

\* A thread that does not wait has a search.
LEMMA Tasks ==
  ASSUME SearchTypeOK, NEW t \in PortThreads
  PROVE  /\ portThread[t] = Waiting <=> portThread[t].does = "wait"
         /\ portThread[t].does = "process" =>
              portThread[t].search \in SearchIds /\ portThread[t].bytes \in {0, 1}
         /\ portThread[t].does = "dispatch" =>
              portThread[t].search \in SearchIds /\ portThread[t].status \in Statuses
         /\ portThread[t].does \in {"wait", "process", "dispatch"}
<1>1. portThread[t] \in Processing \cup Dispatching \cup {Waiting}
  BY DEF SearchTypeOK
<1> QED BY <1>1 DEF Processing, Dispatching, Waiting

\* What a step that does not touch the contexts and the answers leaves as it is.
LEMMA ContextsSame ==
  ASSUME SearchIInv, UNCHANGED <<blocks, started, startFailed, opCtx, answers>>
  PROVE  CountsBlocks' /\ AnsweredOnce' /\ Fresh' /\ AnswersTell'
BY DEF SearchIInv, CountsBlocks, AnsweredOnce, Fresh, AnswersTell, Begun

\* The hands of the other searches.
LEMMA OneHandNext ==
  ASSUME OneHand, NEW s \in SearchIds,
         \A r \in SearchIds \ {s} :
           /\ opCtx'[r].allocated <=> opCtx[r].allocated
           /\ r \in reading' <=> r \in reading
           /\ \A c : c \in port' /\ c[1] = r <=> c \in port /\ c[1] = r
           /\ \A t \in PortThreads : Works(t, r)' <=> Works(t, r),
         opCtx'[s].allocated => s \in reading' \/ InPort(s)' \/ AtThread(s)',
         s \in reading' \/ InPort(s)' \/ AtThread(s)' => opCtx'[s].allocated,
         s \in reading' => ~InPort(s)' /\ ~AtThread(s)',
         InPort(s)' => ~AtThread(s)',
         \A c, d \in port' : c[1] = s /\ d[1] = s => c = d,
         \A t, u \in PortThreads : Works(t, s)' /\ Works(u, s)' => t = u
  PROVE  OneHand'
<1> SUFFICES ASSUME NEW r \in SearchIds, r # s
             PROVE  /\ opCtx'[r].allocated => r \in reading' \/ InPort(r)' \/ AtThread(r)'
                    /\ r \in reading' \/ InPort(r)' \/ AtThread(r)' => opCtx'[r].allocated
                    /\ r \in reading' => ~InPort(r)' /\ ~AtThread(r)'
                    /\ InPort(r)' => ~AtThread(r)'
                    /\ \A c, d \in port' : c[1] = r /\ d[1] = r => c = d
                    /\ \A t, u \in PortThreads : Works(t, r)' /\ Works(u, r)' => t = u
  BY DEF OneHand
<1>1. InPort(r)' <=> InPort(r)
  BY DEF InPort
<1>2. AtThread(r)' <=> AtThread(r)
  BY DEF AtThread
<1> QED BY <1>1, <1>2 DEF OneHand

\* A search starts with a read, or fails to.
LEMMA SearchStartsKeeps ==
  ASSUME SearchIInv, SearchFileAsync
  PROVE  SearchIInv'
<1>0. PICK s : s = started + 1
  OBVIOUS
<1>1. /\ started < Searches /\ ~startFailed /\ started' = s /\ s \in SearchIds
      /\ UNCHANGED <<blocks, port, portThread, answers>> /\ started \in Nat
  BY <1>0, SearchIOCPAssumption DEF SearchIInv, SearchTypeOK, SearchFileAsync, SearchIds
<1>2. /\ ~opCtx[s].allocated /\ s \notin reading /\ ~InPort(s) /\ ~AtThread(s)
      /\ opCtx[s].currPos = 0 /\ opCtx[s].ocorrences = 0
  BY <1>0, <1>1 DEF SearchIInv, AnsweredOnce, Begun, OneHand, Fresh
<1>3. CASE /\ reading' = reading \cup {s} /\ opCtx' = [opCtx EXCEPT ![s].allocated = TRUE]
           /\ UNCHANGED startFailed
  <2>1. /\ opCtx' \in [SearchIds -> Contexts] /\ opCtx'[s].allocated
        /\ opCtx'[s].currPos = 0 /\ opCtx'[s].ocorrences = 0
        /\ \A r \in SearchIds \ {s} : opCtx'[r] = opCtx[r]
    <3>1. opCtx \in [SearchIds -> Contexts]
      BY DEF SearchIInv, SearchTypeOK
    <3>2. opCtx' = [opCtx EXCEPT ![s] = [opCtx[s] EXCEPT !.allocated = TRUE]]
      BY <1>3
    <3>3. [opCtx[s] EXCEPT !.allocated = TRUE] \in Contexts
      BY <1>1, <3>1 DEF Contexts
    <3>4. opCtx'[s] = [opCtx[s] EXCEPT !.allocated = TRUE]
      BY <1>1, <3>1, <3>2
    <3>5. opCtx[s] \in Contexts
      BY <1>1, <3>1
    <3>6. opCtx'[s].allocated
      BY <3>4, <3>5, Zenon DEF Contexts
    <3>7. opCtx'[s].currPos = 0 /\ opCtx'[s].ocorrences = 0
      BY <1>2, <3>4, <3>5 DEF Contexts
    <3> QED BY <1>1, <3>1, <3>2, <3>3, <3>6, <3>7
  <2>2. SearchTypeOK'
    BY <1>1, <1>3, <2>1 DEF SearchIInv, SearchTypeOK, SearchIds
  <2>3. OneHand'
    <3>1. \A r \in SearchIds \ {s} : /\ opCtx'[r].allocated <=> opCtx[r].allocated
                                     /\ r \in reading' <=> r \in reading
      BY <1>3, <2>1
    <3>2. \A r \in SearchIds : /\ \A c : c \in port' /\ c[1] = r <=> c \in port /\ c[1] = r
                               /\ \A t \in PortThreads : Works(t, r)' <=> Works(t, r)
      BY <1>1 DEF Works
    <3>3. ~InPort(s)' /\ ~AtThread(s)'
      BY <1>1, <1>2 DEF InPort, AtThread, Works
    <3>4. OneHand /\ s \in reading'
      BY <1>3 DEF SearchIInv
    <3>5. \A c \in port' : c[1] # s
      BY <3>3 DEF InPort
    <3>6. \A t \in PortThreads : ~Works(t, s)'
      BY <3>3 DEF AtThread
    <3> QED BY <1>1, <2>1, <3>1, <3>2, <3>3, <3>4, <3>5, <3>6, OneHandNext
  <2>4. \A r \in SearchIds : /\ opCtx'[r].currPos = opCtx[r].currPos
                             /\ opCtx'[r].ocorrences = opCtx[r].ocorrences
    BY <1>2, <2>1
  <2>5. CountsBlocks'
    <3>1. opCtx'[s].ocorrences = opCtx'[s].currPos /\ opCtx'[s].currPos <= blocks
      <4>1. blocks >= 0
        BY DEF SearchIInv, SearchTypeOK
      <4> QED BY <2>1, <4>1
    <3> QED BY <1>1, <2>1, <3>1 DEF SearchIInv, CountsBlocks
  <2>6. CompletionTells'
    BY <1>1, <2>4 DEF SearchIInv, CompletionTells, SearchTypeOK
  <2>7. ThreadTells'
    BY <1>1, <2>4, Tasks DEF SearchIInv, ThreadTells
  <2>8. AnsweredOnce'
    <3>1. \A r \in SearchIds \ {s} : r <= s <=> r <= started
      BY <1>0, <1>1 DEF SearchIds
    <3> QED BY <1>0, <1>1, <1>2, <1>3, <2>1, <3>1 DEF SearchIInv, AnsweredOnce, Begun
  <2>9. Fresh'
    BY <1>0, <1>1, <2>4 DEF SearchIInv, Fresh, SearchIds
  <2>10. AnswersTell'
    BY <1>1 DEF SearchIInv, AnswersTell
  <2> QED BY <2>2, <2>3, <2>5, <2>6, <2>7, <2>8, <2>9, <2>10 DEF SearchIInv
<1>4. CASE startFailed' = TRUE /\ UNCHANGED <<reading, opCtx>>
  <2>1. SearchTypeOK'
    BY <1>1, <1>4 DEF SearchIInv, SearchTypeOK, SearchIds
  <2>2. OneHand' /\ CountsBlocks' /\ CompletionTells' /\ ThreadTells' /\ AnswersTell'
    BY <1>1, <1>4
       DEF SearchIInv, OneHand, CountsBlocks, CompletionTells, ThreadTells, AnswersTell,
           InPort, AtThread, Works
  <2>3. AnsweredOnce'
    <3>1. \A r \in SearchIds : Begun(r)' <=> Begun(r)
      BY <1>0, <1>1, <1>4 DEF Begun, SearchIds
    <3> QED BY <1>1, <1>4, <3>1 DEF SearchIInv, AnsweredOnce
  <2>4. Fresh'
    BY <1>0, <1>1, <1>4 DEF SearchIInv, Fresh, SearchIds
  <2> QED BY <2>1, <2>2, <2>3, <2>4 DEF SearchIInv
<1> QED BY <1>0, <1>3, <1>4 DEF SearchFileAsync

\* The system answers a read.
LEMMA ReadCompletesKeeps ==
  ASSUME SearchIInv, ReadCompletes
  PROVE  SearchIInv'
<1>0. PICK s \in reading : \E a \in ReadAnswers(opCtx[s].currPos) :
        reading' = reading \ {s} /\ port' = port \cup {<<s, a[1], a[2]>>}
  BY DEF ReadCompletes
<1>1. PICK a \in ReadAnswers(opCtx[s].currPos) :
        reading' = reading \ {s} /\ port' = port \cup {<<s, a[1], a[2]>>}
  BY <1>0
<1>2. UNCHANGED <<blocks, started, startFailed, opCtx, portThread, answers>>
  BY DEF ReadCompletes
<1>3. s \in SearchIds /\ opCtx[s].allocated /\ ~InPort(s) /\ ~AtThread(s)
  BY DEF SearchIInv, SearchTypeOK, OneHand
<1>4. /\ opCtx[s].currPos \in Nat /\ opCtx[s].currPos <= blocks /\ blocks \in Nat
  BY <1>3 DEF SearchIInv, CountsBlocks, SearchTypeOK, Contexts
<1>5. PICK c : c = <<s, a[1], a[2]>>
  OBVIOUS
<1>6. /\ c \in SearchIds \X {0, 1} \X Statuses /\ c[1] = s
      /\ c[2] = 1 => opCtx[s].currPos < blocks /\ c[3] # DEVICE_ERROR
      /\ c[2] = 0 /\ c[3] # DEVICE_ERROR => opCtx[s].currPos = blocks
  <2>1. \/ a[1] = 0 /\ a[2] \in ReadErrors(opCtx[s].currPos)
        \/ a[1] = 1 /\ a[2] = STATUS_OK /\ opCtx[s].currPos < blocks
    BY <1>1 DEF ReadAnswers
  <2>2. CASE a[1] = 0 /\ a[2] \in ReadErrors(opCtx[s].currPos)
    <3>1. \/ a[2] = HANDLE_EOF /\ opCtx[s].currPos >= blocks
          \/ a[2] = DEVICE_ERROR
      BY <2>2 DEF ReadErrors
    <3>2. a[2] = HANDLE_EOF => opCtx[s].currPos = blocks
      BY <1>4, <3>1 DEF HANDLE_EOF, DEVICE_ERROR
    <3> QED BY <1>3, <1>5, <2>2, <3>1, <3>2 DEF Statuses
  <2>3. CASE a[1] = 1 /\ a[2] = STATUS_OK /\ opCtx[s].currPos < blocks
    BY <1>3, <1>5, <2>3 DEF Statuses, STATUS_OK, DEVICE_ERROR
  <2> QED BY <2>1, <2>2, <2>3
<1>7. port' = port \cup {c}
  BY <1>1, <1>5
<1>8. SearchTypeOK'
  BY <1>1, <1>2, <1>6, <1>7 DEF SearchIInv, SearchTypeOK
<1>9. OneHand'
  <2>1. \A r \in SearchIds \ {s} :
          /\ opCtx'[r].allocated <=> opCtx[r].allocated
          /\ r \in reading' <=> r \in reading
          /\ \A d : d \in port' /\ d[1] = r <=> d \in port /\ d[1] = r
          /\ \A t \in PortThreads : Works(t, r)' <=> Works(t, r)
    BY <1>1, <1>2, <1>6, <1>7 DEF Works
  <2>2. InPort(s)' /\ s \notin reading' /\ ~AtThread(s)' /\ opCtx'[s].allocated
    BY <1>1, <1>2, <1>3, <1>6, <1>7 DEF InPort, AtThread, Works
  <2>3. \A d \in port' : d[1] = s => d = c
    BY <1>3, <1>7 DEF InPort
  <2>4. \A t \in PortThreads : ~Works(t, s)'
    BY <2>2 DEF AtThread
  <2>5. OneHand
    BY DEF SearchIInv
  <2> QED BY <1>3, <2>1, <2>2, <2>3, <2>4, <2>5, OneHandNext
<1>10. CompletionTells'
  BY <1>2, <1>6, <1>7 DEF SearchIInv, CompletionTells
<1>11. ThreadTells'
  BY <1>2 DEF SearchIInv, ThreadTells
<1> QED BY <1>2, <1>8, <1>9, <1>10, <1>11, ContextsSame DEF SearchIInv

\* A thread gets a new task, or none; the others keep theirs.
LEMMA ThreadGoes ==
  ASSUME SearchTypeOK, NEW t \in PortThreads,
         NEW task \in Processing \cup Dispatching \cup {Waiting},
         portThread' = [portThread EXCEPT ![t] = task]
  PROVE  /\ portThread' \in [PortThreads -> Processing \cup Dispatching \cup {Waiting}]
         /\ portThread'[t] = task
         /\ \A u \in PortThreads \ {t} : portThread'[u] = portThread[u]
         /\ \A u \in PortThreads \ {t}, r \in SearchIds : Works(u, r)' <=> Works(u, r)
<1>1. portThread \in [PortThreads -> Processing \cup Dispatching \cup {Waiting}]
  BY DEF SearchTypeOK
<1> QED BY <1>1 DEF Works

\* It takes a completion.
LEMMA CompletionTakenKeeps ==
  ASSUME SearchIInv, NEW t \in PortThreads, IOCP_ThreadFunc(t)
  PROVE  SearchIInv'
<1>1. PICK c \in port :
        /\ port' = port \ {c}
        /\ portThread' = [portThread EXCEPT ![t] =
             IF c[3] = DEVICE_ERROR
             THEN [does |-> "dispatch", search |-> c[1], status |-> DEVICE_ERROR]
             ELSE [does |-> "process", search |-> c[1], bytes |-> c[2]]]
  BY DEF IOCP_ThreadFunc
<1>2. /\ portThread[t] = Waiting
      /\ UNCHANGED <<blocks, started, startFailed, opCtx, reading, answers>>
  BY DEF IOCP_ThreadFunc
<1>3. PICK task : task = IF c[3] = DEVICE_ERROR
             THEN [does |-> "dispatch", search |-> c[1], status |-> DEVICE_ERROR]
             ELSE [does |-> "process", search |-> c[1], bytes |-> c[2]]
  OBVIOUS
<1>4. PICK s : s = c[1]
  OBVIOUS
<1>5. s \in SearchIds /\ c[2] \in {0, 1} /\ c[3] \in Statuses
  BY <1>4 DEF SearchIInv, SearchTypeOK
<1>6. /\ task \in Processing \cup Dispatching /\ task # Waiting /\ task.search = s
      /\ task.does = "process" => c[3] # DEVICE_ERROR /\ task.bytes = c[2]
      /\ task.does = "dispatch" => task.status = DEVICE_ERROR
  BY <1>3, <1>4, <1>5 DEF Processing, Dispatching, Waiting, Statuses
<1>7. /\ portThread' \in [PortThreads -> Processing \cup Dispatching \cup {Waiting}]
      /\ portThread'[t] = task
      /\ \A u \in PortThreads \ {t} : portThread'[u] = portThread[u]
      /\ \A u \in PortThreads \ {t}, r \in SearchIds : Works(u, r)' <=> Works(u, r)
  BY <1>1, <1>3, <1>6, ThreadGoes DEF SearchIInv
<1>8. /\ opCtx[s].allocated /\ s \notin reading /\ ~AtThread(s)
      /\ \A d \in port : d[1] = s => d = c
  BY <1>4, <1>5 DEF SearchIInv, OneHand, InPort
<1>9. SearchTypeOK'
  BY <1>1, <1>2, <1>7 DEF SearchIInv, SearchTypeOK
<1>10. OneHand'
  <2>1. Works(t, s)' /\ \A r \in SearchIds \ {s} : ~Works(t, r)' /\ ~Works(t, r)
    BY <1>2, <1>6, <1>7 DEF Works
  <2>2. \A r \in SearchIds \ {s} :
          /\ opCtx'[r].allocated <=> opCtx[r].allocated
          /\ r \in reading' <=> r \in reading
          /\ \A d : d \in port' /\ d[1] = r <=> d \in port /\ d[1] = r
    BY <1>1, <1>2, <1>4
  <2>3. \A r \in SearchIds \ {s} : \A u \in PortThreads : Works(u, r)' <=> Works(u, r)
    BY <1>7, <2>1
  <2>4. \A d \in port' : d[1] # s
    BY <1>1, <1>8
  <2>5. \A u \in PortThreads : Works(u, s)' => u = t
    BY <1>5, <1>7, <1>8 DEF AtThread
  <2>6. ~InPort(s)' /\ AtThread(s)' /\ opCtx'[s].allocated /\ s \notin reading'
    BY <1>2, <1>8, <2>1, <2>4 DEF InPort, AtThread
  <2>7. OneHand
    BY DEF SearchIInv
  <2> QED BY <1>5, <2>2, <2>3, <2>4, <2>5, <2>6, <2>7, OneHandNext
<1>11. CompletionTells'
  BY <1>1, <1>2 DEF SearchIInv, CompletionTells
<1>12. ThreadTells'
  <2>1. /\ c[2] = 1 => opCtx[s].currPos < blocks
        /\ c[2] = 0 /\ c[3] # DEVICE_ERROR => opCtx[s].currPos = blocks
    BY <1>4 DEF SearchIInv, CompletionTells
  <2>2. /\ task.does = "process" /\ task.bytes = 1 => opCtx[task.search].currPos < blocks
        /\ task.does = "process" /\ task.bytes = 0 => opCtx[task.search].currPos = blocks
        /\ task.does = "dispatch" => task.status = DEVICE_ERROR
    BY <1>6, <2>1
  <2> QED BY <1>2, <1>7, <2>2 DEF SearchIInv, ThreadTells
<1> QED BY <1>2, <1>9, <1>10, <1>11, <1>12, ContextsSame DEF SearchIInv

\* A context changes: the others do not.
LEMMA ContextGoes ==
  ASSUME SearchTypeOK, NEW s \in SearchIds, NEW ctx \in Contexts,
         opCtx' = [opCtx EXCEPT ![s] = ctx]
  PROVE  /\ opCtx' \in [SearchIds -> Contexts] /\ opCtx'[s] = ctx
         /\ \A r \in SearchIds \ {s} : opCtx'[r] = opCtx[r]
BY DEF SearchTypeOK

\* Its owner goes on with a search, in its own hands or in those of a new read.
LEMMA ProcessKeeps ==
  ASSUME SearchIInv, NEW t \in PortThreads, ProcessRequest(t)
  PROVE  SearchIInv'
<1> DEFINE old == opCtx[portThread[t].search]
<1>1. PICK s : s = portThread[t].search
  OBVIOUS
<1>2. /\ portThread[t].does = "process" /\ Works(t, s) /\ s \in SearchIds
      /\ portThread[t].bytes \in {0, 1}
      /\ UNCHANGED <<blocks, started, startFailed, port, answers>>
  <2>1. portThread[t].does = "process" /\ SearchTypeOK
    BY DEF ProcessRequest, SearchIInv
  <2>2. s \in SearchIds /\ portThread[t].bytes \in {0, 1} /\ portThread[t] # Waiting
    BY <1>1, <2>1, Tasks DEF Waiting
  <2> QED BY <1>1, <2>1, <2>2 DEF ProcessRequest, Works
<1>3. /\ opCtx[s].allocated /\ s \notin reading /\ ~InPort(s)
      /\ \A u \in PortThreads : Works(u, s) => u = t
  BY <1>2 DEF SearchIInv, OneHand, AtThread
<1>4. /\ opCtx[s] \in Contexts /\ blocks \in Nat
      /\ opCtx[s].ocorrences = opCtx[s].currPos /\ opCtx[s].currPos <= blocks
      /\ portThread[t].bytes = 1 => opCtx[s].currPos < blocks
      /\ portThread[t].bytes = 0 => opCtx[s].currPos = blocks
  BY <1>1, <1>2, <1>3 DEF SearchIInv, SearchTypeOK, CountsBlocks, ThreadTells
<1>5. PICK ctx : ctx = [opCtx[s] EXCEPT !.currPos = @ + portThread[t].bytes,
                                        !.ocorrences = @ + 1]
  OBVIOUS
<1>6. PICK new \in Contexts, task \in Dispatching \cup {Waiting} :
        /\ new.allocated = opCtx[s].allocated
        /\ opCtx' = [opCtx EXCEPT ![s] = new]
        /\ portThread' = [portThread EXCEPT ![t] = task]
        /\ new.ocorrences = new.currPos /\ new.currPos <= blocks
        /\ \/ /\ reading' = reading \cup {s} /\ task = Waiting
           \/ /\ reading' = reading /\ task \in Dispatching /\ task.search = s
              /\ task.status # DEVICE_ERROR => new.currPos = blocks
  <2>1. CASE /\ portThread[t].bytes = 0 /\ Dispatches(t, s, STATUS_OK)
             /\ UNCHANGED <<opCtx, reading>>
    <3>1. PICK task : task = [does |-> "dispatch", search |-> s, status |-> STATUS_OK]
      OBVIOUS
    <3>2. task \in Dispatching /\ task.search = s
      BY <1>2, <3>1 DEF Dispatching, Statuses
    <3>3. opCtx' = [opCtx EXCEPT ![s] = opCtx[s]]
      BY <1>2, <2>1 DEF SearchIInv, SearchTypeOK
    <3>4. portThread' = [portThread EXCEPT ![t] = task]
      BY <2>1, <3>1 DEF Dispatches
    <3> QED BY <1>4, <2>1, <3>2, <3>3, <3>4
  <2>2. CASE /\ portThread[t].bytes > 0
             /\ opCtx' = [opCtx EXCEPT ![s] = ctx]
             /\ \/ /\ reading' = reading \cup {s}
                   /\ portThread' = [portThread EXCEPT ![t] = Waiting]
                \/ /\ \E e \in ReadErrors(ctx.currPos) : Dispatches(t, s, e)
                   /\ UNCHANGED reading
    <3>1. portThread[t].bytes = 1
      BY <1>2, <2>2
    <3>2. /\ ctx \in Contexts /\ ctx.currPos = opCtx[s].currPos + 1
          /\ ctx.ocorrences = opCtx[s].ocorrences + 1
      <4>1. /\ opCtx[s].currPos + 1 \in Nat /\ opCtx[s].ocorrences + 1 \in Nat
        BY <1>4 DEF Contexts
      <4>2. ctx = [opCtx[s] EXCEPT !.currPos = opCtx[s].currPos + 1,
                                   !.ocorrences = opCtx[s].ocorrences + 1]
        BY <1>5, <3>1
      <4> QED BY <1>4, <4>1, <4>2 DEF Contexts
    <3>3. ctx.allocated = opCtx[s].allocated
      BY <1>4, <1>5, Zenon DEF Contexts
    <3>4. ctx.ocorrences = ctx.currPos /\ ctx.currPos <= blocks
      BY <1>4, <3>1, <3>2 DEF Contexts
    <3>5. CASE /\ reading' = reading \cup {s}
               /\ portThread' = [portThread EXCEPT ![t] = Waiting]
      BY <2>2, <3>2, <3>3, <3>4, <3>5
    <3>6. CASE /\ \E e \in ReadErrors(ctx.currPos) : Dispatches(t, s, e)
               /\ UNCHANGED reading
      <4>1. PICK e \in ReadErrors(ctx.currPos) : Dispatches(t, s, e)
        BY <3>6
      <4>2. e \in Statuses /\ (e # DEVICE_ERROR => ctx.currPos >= blocks)
        BY <4>1 DEF ReadErrors, Statuses
      <4>3. e # DEVICE_ERROR => ctx.currPos = blocks
        BY <1>4, <3>2, <3>4, <4>2 DEF Contexts
      <4>4. PICK task : task = [does |-> "dispatch", search |-> s, status |-> e]
        OBVIOUS
      <4>5. task \in Dispatching /\ task.search = s /\ task.status = e
        BY <1>2, <4>2, <4>4 DEF Dispatching
      <4>6. portThread' = [portThread EXCEPT ![t] = task]
        BY <4>1, <4>4 DEF Dispatches
      <4> QED BY <2>2, <3>2, <3>3, <3>4, <3>6, <4>3, <4>5, <4>6
    <3> QED BY <2>2, <3>5, <3>6
  <2> QED BY <1>1, <1>5, <2>1, <2>2 DEF ProcessRequest
<1>7. /\ portThread' \in [PortThreads -> Processing \cup Dispatching \cup {Waiting}]
      /\ portThread'[t] = task
      /\ \A u \in PortThreads \ {t} : portThread'[u] = portThread[u]
      /\ \A u \in PortThreads \ {t}, r \in SearchIds : Works(u, r)' <=> Works(u, r)
  BY <1>6, ThreadGoes DEF SearchIInv
<1>8. /\ opCtx' \in [SearchIds -> Contexts] /\ opCtx'[s] = new
      /\ \A r \in SearchIds \ {s} : opCtx'[r] = opCtx[r]
  BY <1>2, <1>6, ContextGoes DEF SearchIInv
<1>9. SearchTypeOK'
  BY <1>2, <1>6, <1>7, <1>8 DEF SearchIInv, SearchTypeOK
<1>10. OneHand'
  <2>1. \A r \in SearchIds \ {s} : ~Works(t, r)' /\ ~Works(t, r)
    BY <1>1, <1>6, <1>7 DEF Works
  <2>2. \A r \in SearchIds \ {s} :
          /\ opCtx'[r].allocated <=> opCtx[r].allocated
          /\ r \in reading' <=> r \in reading
          /\ \A d : d \in port' /\ d[1] = r <=> d \in port /\ d[1] = r
    BY <1>2, <1>6, <1>8
  <2>3. \A r \in SearchIds \ {s} : \A u \in PortThreads : Works(u, r)' <=> Works(u, r)
    BY <1>7, <2>1
  <2>4. \A d \in port' : d[1] # s
    BY <1>2, <1>3 DEF InPort
  <2>5. \A u \in PortThreads : Works(u, s)' => u = t
    BY <1>2, <1>3, <1>7
  <2>6. ~InPort(s)' /\ opCtx'[s].allocated
    BY <1>3, <1>6, <1>8, <2>4 DEF InPort
  <2>7. OneHand
    BY DEF SearchIInv
  <2>8. (s \in reading' /\ ~Works(t, s)') \/ (s \notin reading' /\ Works(t, s)')
    <3>1. CASE reading' = reading \cup {s} /\ task = Waiting
      BY <3>1, <1>7 DEF Works
    <3>2. CASE reading' = reading /\ task \in Dispatching /\ task.search = s
      <4>1. task # Waiting
        BY <3>2 DEF Dispatching, Waiting
      <4> QED BY <3>2, <4>1, <1>3, <1>7 DEF Works
    <3> QED BY <1>6, <3>1, <3>2
  <2>9. (s \in reading' /\ ~AtThread(s)') \/ (s \notin reading' /\ AtThread(s)')
    BY <2>5, <2>8 DEF AtThread
  <2> QED BY <1>2, <2>2, <2>3, <2>4, <2>5, <2>6, <2>7, <2>9, OneHandNext
<1>11. CountsBlocks'
  BY <1>2, <1>6, <1>8 DEF SearchIInv, CountsBlocks
<1>12. CompletionTells'
  <2>1. \A c \in port : c[1] \in SearchIds \ {s}
    BY <1>3 DEF SearchIInv, SearchTypeOK, InPort
  <2> QED BY <1>2, <1>8, <2>1 DEF SearchIInv, CompletionTells
<1>13. ThreadTells'
  <2>1. ASSUME NEW u \in PortThreads \ {t}, portThread[u].does # "wait"
        PROVE  portThread[u].search \in SearchIds \ {s}
    BY <2>1, <1>3, Tasks DEF SearchIInv, Works
  <2>2. /\ task.does = "dispatch" \/ task.does = "wait"
        /\ task.does = "dispatch" =>
             task.search = s /\ (task.status # DEVICE_ERROR => new.currPos = blocks)
    BY <1>6 DEF Dispatching, Waiting
  <2> QED BY <1>2, <1>7, <1>8, <2>1, <2>2 DEF SearchIInv, ThreadTells
<1>14. AnsweredOnce' /\ AnswersTell'
  <2>1. \A r \in SearchIds : opCtx'[r].allocated <=> opCtx[r].allocated
    BY <1>6, <1>8
  <2> QED BY <1>2, <2>1 DEF SearchIInv, AnsweredOnce, Begun, AnswersTell
<1>15. Fresh'
  <2>1. ~(s > started)
    <3>1. Begun(s)
      BY <1>2, <1>3 DEF SearchIInv, AnsweredOnce
    <3> QED BY <3>1, <1>2 DEF Begun, SearchIds, SearchIInv, SearchTypeOK
  <2> QED BY <1>2, <1>8, <2>1 DEF SearchIInv, Fresh
<1> QED
  BY <1>9, <1>10, <1>11, <1>12, <1>13, <1>14, <1>15 DEF SearchIInv

\* The callback is called and the context freed.
LEMMA DispatchKeeps ==
  ASSUME SearchIInv, NEW t \in PortThreads, DispatchAndReleaseOper(t)
  PROVE  SearchIInv'
<1>1. PICK s : s = portThread[t].search
  OBVIOUS
<1>2. PICK status : status = portThread[t].status
  OBVIOUS
<1>3. /\ portThread[t].does = "dispatch" /\ Works(t, s) /\ s \in SearchIds
      /\ status \in Statuses
      /\ answers' = [answers EXCEPT ![s] = Append(@, <<status, opCtx[s].ocorrences>>)]
      /\ opCtx' = [opCtx EXCEPT ![s].allocated = FALSE]
      /\ portThread' = [portThread EXCEPT ![t] = Waiting]
      /\ UNCHANGED <<blocks, started, startFailed, port, reading>>
  <2>1. portThread[t].does = "dispatch" /\ SearchTypeOK
    BY DEF DispatchAndReleaseOper, SearchIInv
  <2>2. s \in SearchIds /\ status \in Statuses /\ portThread[t] # Waiting
    BY <1>1, <1>2, <2>1, Tasks DEF Waiting
  <2> QED BY <1>1, <1>2, <2>1, <2>2 DEF DispatchAndReleaseOper, Works
<1>4. /\ opCtx[s].allocated /\ s \notin reading /\ ~InPort(s)
      /\ \A u \in PortThreads : Works(u, s) => u = t
      /\ Begun(s) /\ Len(answers[s]) = 0
  BY <1>3 DEF SearchIInv, OneHand, AtThread, AnsweredOnce
<1>5. /\ opCtx[s] \in Contexts /\ blocks \in Nat
      /\ opCtx[s].ocorrences = opCtx[s].currPos /\ opCtx[s].currPos <= blocks
      /\ status # DEVICE_ERROR => opCtx[s].currPos = blocks
  BY <1>1, <1>2, <1>3, <1>4 DEF SearchIInv, SearchTypeOK, CountsBlocks, ThreadTells
<1>6. PICK new : new = [opCtx[s] EXCEPT !.allocated = FALSE]
  OBVIOUS
<1>7. new \in Contexts /\ opCtx' = [opCtx EXCEPT ![s] = new]
  BY <1>3, <1>5, <1>6 DEF Contexts
<1>8. ~new.allocated
  BY <1>5, <1>6, Zenon DEF Contexts
<1>9. /\ opCtx' \in [SearchIds -> Contexts] /\ opCtx'[s] = new
      /\ \A r \in SearchIds \ {s} : opCtx'[r] = opCtx[r]
  BY <1>3, <1>7, ContextGoes DEF SearchIInv
<1>10. /\ portThread' \in [PortThreads -> Processing \cup Dispatching \cup {Waiting}]
       /\ portThread'[t] = Waiting
       /\ \A u \in PortThreads \ {t} : portThread'[u] = portThread[u]
       /\ \A u \in PortThreads \ {t}, r \in SearchIds : Works(u, r)' <=> Works(u, r)
  BY <1>3, ThreadGoes DEF SearchIInv
<1>11. PICK answer : answer = <<status, opCtx[s].ocorrences>>
  OBVIOUS
<1>12. /\ answers' \in [SearchIds -> Seq(Statuses \X Nat)]
       /\ Len(answers'[s]) = 1 /\ answers'[s][1] = answer
       /\ \A r \in SearchIds \ {s} : answers'[r] = answers[r]
       /\ answer[1] = status /\ answer[2] = opCtx[s].ocorrences
  <2>1. answers \in [SearchIds -> Seq(Statuses \X Nat)] /\ answers[s] \in Seq(Statuses \X Nat)
    BY <1>3 DEF SearchIInv, SearchTypeOK
  <2>2. answer \in Statuses \X Nat /\ answer[1] = status /\ answer[2] = opCtx[s].ocorrences
    BY <1>3, <1>5, <1>11 DEF Contexts
  <2>3. answers' = [answers EXCEPT ![s] = Append(answers[s], answer)]
    BY <1>3, <1>11
  <2>4. /\ Append(answers[s], answer) \in Seq(Statuses \X Nat)
        /\ Len(Append(answers[s], answer)) = 1
        /\ Append(answers[s], answer)[1] = answer
    BY <2>1, <2>2, <1>4
  <2> QED BY <1>3, <2>1, <2>2, <2>3, <2>4
<1>13. SearchTypeOK'
  BY <1>3, <1>9, <1>10, <1>12 DEF SearchIInv, SearchTypeOK
<1>14. OneHand'
  <2>1. \A r \in SearchIds : ~Works(t, r)'
    BY <1>10 DEF Works
  <2>2. \A r \in SearchIds \ {s} : ~Works(t, r)
    BY <1>1 DEF Works
  <2>3. \A r \in SearchIds \ {s} :
          /\ opCtx'[r].allocated <=> opCtx[r].allocated
          /\ r \in reading' <=> r \in reading
          /\ \A d : d \in port' /\ d[1] = r <=> d \in port /\ d[1] = r
    BY <1>3, <1>9
  <2>4. \A r \in SearchIds \ {s} : \A u \in PortThreads : Works(u, r)' <=> Works(u, r)
    BY <1>10, <2>1, <2>2
  <2>5. \A d \in port' : d[1] # s
    BY <1>3, <1>4 DEF InPort
  <2>6. \A u \in PortThreads : ~Works(u, s)'
    BY <1>3, <1>4, <1>10, <2>1
  <2>7. ~InPort(s)' /\ ~AtThread(s)' /\ ~opCtx'[s].allocated /\ s \notin reading'
    BY <1>3, <1>4, <1>8, <1>9, <2>5, <2>6 DEF InPort, AtThread
  <2>8. OneHand
    BY DEF SearchIInv
  <2> QED BY <1>3, <2>3, <2>4, <2>5, <2>6, <2>7, <2>8, OneHandNext
<1>15. CountsBlocks'
  BY <1>3, <1>8, <1>9 DEF SearchIInv, CountsBlocks
<1>16. CompletionTells'
  <2>1. \A c \in port : c[1] \in SearchIds \ {s}
    BY <1>4 DEF SearchIInv, SearchTypeOK, InPort
  <2> QED BY <1>3, <1>9, <2>1 DEF SearchIInv, CompletionTells
<1>17. ThreadTells'
  <2>1. ASSUME NEW u \in PortThreads \ {t}, portThread[u].does # "wait"
        PROVE  portThread[u].search \in SearchIds \ {s}
    BY <2>1, <1>4, Tasks DEF SearchIInv, Works
  <2> QED BY <1>3, <1>9, <1>10, <2>1 DEF SearchIInv, ThreadTells, Waiting
<1>18. AnsweredOnce'
  BY <1>3, <1>4, <1>8, <1>9, <1>12 DEF SearchIInv, AnsweredOnce, Begun
<1>19. AnswersTell'
  <2>1. answer[2] <= blocks /\ (answer[1] # DEVICE_ERROR => answer[2] = blocks)
    BY <1>5, <1>12
  <2> QED BY <1>3, <1>12, <2>1 DEF SearchIInv, AnswersTell
<1>20. Fresh'
  <2>1. ~(s > started)
    BY <1>3, <1>4 DEF Begun, SearchIds, SearchIInv, SearchTypeOK
  <2> QED BY <1>3, <1>9, <2>1 DEF SearchIInv, Fresh
<1> QED
  BY <1>13, <1>14, <1>15, <1>16, <1>17, <1>18, <1>19, <1>20 DEF SearchIInv

\* At the start no search has begun.
LEMMA SearchInitHolds == IOCP_Init => SearchIInv
<1> SUFFICES ASSUME IOCP_Init PROVE SearchIInv
  OBVIOUS
<1>1. /\ blocks \in Nat /\ started = 0 /\ startFailed = FALSE
      /\ opCtx = [s \in SearchIds |->
                    [allocated |-> FALSE, currPos |-> 0, ocorrences |-> 0]]
      /\ port = {} /\ reading = {} /\ portThread = [t \in PortThreads |-> Waiting]
      /\ answers = [s \in SearchIds |-> <<>>] /\ Searches \in Nat
  BY SearchIOCPAssumption DEF IOCP_Init, SearchIds
<1>2. SearchTypeOK
  <2>1. opCtx \in [SearchIds -> Contexts]
    BY <1>1 DEF Contexts
  <2>2. answers \in [SearchIds -> Seq(Statuses \X Nat)]
    <3>1. <<>> \in Seq(Statuses \X Nat)
      OBVIOUS
    <3> QED BY <1>1, <3>1
  <2>3. portThread \in [PortThreads -> Processing \cup Dispatching \cup {Waiting}]
    BY <1>1
  <2>4. started \in 0 .. Searches /\ startFailed \in BOOLEAN
    <3>1. Searches \in Nat /\ started = 0
      BY <1>1
    <3>2. started \in 0 .. Searches
      BY <3>1
    <3>3. startFailed \in BOOLEAN
      BY <1>1, Zenon
    <3> QED BY <3>2, <3>3
  <2>5. port \in SUBSET (SearchIds \X {0, 1} \X Statuses) /\ reading \in SUBSET SearchIds
    BY <1>1
  <2> QED BY <1>1, <2>1, <2>2, <2>3, <2>4, <2>5 DEF SearchTypeOK
<1>3. /\ \A s \in SearchIds : ~opCtx[s].allocated /\ opCtx[s].currPos = 0
                              /\ opCtx[s].ocorrences = 0 /\ s > 0
      /\ \A t \in PortThreads : portThread[t] = Waiting
      /\ \A s \in SearchIds : answers[s] = <<>>
  BY <1>1 DEF SearchIds
<1>4. OneHand
  BY <1>1, <1>3 DEF OneHand, InPort, AtThread, Works
<1>5. CountsBlocks /\ CompletionTells /\ ThreadTells
  BY <1>1, <1>3 DEF CountsBlocks, CompletionTells, ThreadTells, Waiting
<1>6. AnsweredOnce /\ Fresh /\ AnswersTell
  BY <1>1, <1>3 DEF AnsweredOnce, Begun, Fresh, AnswersTell, SearchIds
<1> QED BY <1>2, <1>4, <1>5, <1>6 DEF SearchIInv

\* The invariant of the searches holds in every reachable state.
LEMMA SearchInvariantHolds == SearchSpec => []SearchIInv
<1>1. ASSUME SearchIInv, SearchNext PROVE SearchIInv'
  BY <1>1, SearchStartsKeeps, ReadCompletesKeeps, CompletionTakenKeeps, ProcessKeeps,
     DispatchKeeps DEF SearchNext, PortThreadStep
<1>2. ASSUME SearchIInv, UNCHANGED iocpvars PROVE SearchIInv'
  BY <1>2 DEF iocpvars, SearchIInv, SearchTypeOK, OneHand, InPort, AtThread, Works,
     CountsBlocks, CompletionTells, ThreadTells, AnsweredOnce, Begun, Fresh, AnswersTell
<1> QED BY <1>1, <1>2, SearchInitHolds, PTL DEF SearchSpec

\* The hands on a search, counted.
LEMMA HandsCounted ==
  ASSUME SearchIInv, NEW s \in SearchIds
  PROVE  HandsOn(s) = IF opCtx[s].allocated THEN 1 ELSE 0
<1> DEFINE R == {r \in reading : r = s}
           C == {c \in port : c[1] = s}
           T == {t \in PortThreads : portThread[t] # Waiting /\ portThread[t].search = s}
<1>1. Cardinality({}) = 0 /\ \A x : Cardinality({x}) = 1
  BY FS_EmptySet, FS_Singleton
<1>2. Cardinality(R) = IF s \in reading THEN 1 ELSE 0
  <2>1. CASE s \in reading
    <3>1. R = {s}
      BY <2>1
    <3> QED BY <1>1, <2>1, <3>1
  <2>2. CASE s \notin reading
    <3>1. R = {}
      BY <2>2
    <3> QED BY <1>1, <2>2, <3>1
  <2> QED BY <2>1, <2>2
<1>3. Cardinality(C) = IF InPort(s) THEN 1 ELSE 0
  <2>1. CASE InPort(s)
    <3>1. PICK c \in port : c[1] = s
      BY <2>1 DEF InPort
    <3>2. C = {c}
      BY <3>1 DEF SearchIInv, OneHand
    <3> QED BY <1>1, <2>1, <3>2
  <2>2. CASE ~InPort(s)
    <3>1. C = {}
      BY <2>2 DEF InPort
    <3> QED BY <1>1, <2>2, <3>1
  <2> QED BY <2>1, <2>2
<1>4. Cardinality(T) = IF AtThread(s) THEN 1 ELSE 0
  <2>1. CASE AtThread(s)
    <3>1. PICK t \in PortThreads : Works(t, s)
      BY <2>1 DEF AtThread
    <3>2. T = {t}
      BY <3>1 DEF SearchIInv, OneHand, Works
    <3> QED BY <1>1, <2>1, <3>2
  <2>2. CASE ~AtThread(s)
    <3>1. T = {}
      BY <2>2 DEF AtThread, Works
    <3> QED BY <1>1, <2>2, <3>1
  <2> QED BY <2>1, <2>2
<1>5. HandsOn(s) = Cardinality(R) + Cardinality(C) + Cardinality(T)
  BY DEF HandsOn
<1>6. /\ opCtx[s].allocated <=> s \in reading \/ InPort(s) \/ AtThread(s)
      /\ s \in reading => ~InPort(s) /\ ~AtThread(s)
      /\ InPort(s) => ~AtThread(s)
  BY DEF SearchIInv, OneHand
<1> HIDE DEF R, C, T
<1> QED BY <1>2, <1>3, <1>4, <1>5, <1>6

\* A search that was started is in one pair of hands until it is answered, once,
\* with all its occurrences, for any number of searches, threads and blocks.
THEOREM SearchesAnsweredOnce == SearchSpec => []SearchAnswersOnce
<1>1. ASSUME SearchIInv PROVE SearchAnswersOnce
  <2> SUFFICES ASSUME NEW s \in SearchIds
      PROVE  /\ HandsOn(s) = IF opCtx[s].allocated THEN 1 ELSE 0
             /\ Len(answers[s]) = IF s <= started /\ ~opCtx[s].allocated
                                     /\ ~(startFailed /\ s = started) THEN 1 ELSE 0
             /\ \A n \in 1 .. Len(answers[s]) :
                  /\ answers[s][n][2] <= blocks
                  /\ answers[s][n][1] # DEVICE_ERROR => answers[s][n][2] = blocks
    BY DEF SearchAnswersOnce, SearchIds
  <2>1. HandsOn(s) = IF opCtx[s].allocated THEN 1 ELSE 0
    BY <1>1, HandsCounted
  <2> QED BY <1>1, <2>1 DEF SearchIInv, AnsweredOnce, Begun, AnswersTell
<1> QED BY <1>1, SearchInvariantHolds, PTL

-----------------------------------------------------------------------------
(* The linked lists.                                                          *)

Links == Entries \cup {ListHead}

\* The place k of the ring: the sentinel is at both ends of the list.
Place(k) == IF k \in 1 .. Len(theList) THEN theList[k] ELSE ListHead

\* Type invariant, with what a link holds that was not written yet.
ListTypeOK ==
  /\ theList \in Seq(Entries)
  /\ Flink \in [Links -> Links \cup {"garbage"}]
  /\ Blink \in [Links -> Links \cup {"garbage"}]

\* The inductive invariant: no entry is listed twice, and the links join the places.
ListIInv ==
  /\ ListTypeOK /\ IsInjective(theList)
  /\ \A k \in 0 .. Len(theList) :
       Flink[Place(k)] = Place(k + 1) /\ Blink[Place(k + 1)] = Place(k)

\* The places of the ring are distinct, but that the first is also the last.
LEMMA Places ==
  ASSUME ListIInv
  PROVE  /\ Len(theList) \in Nat /\ Place(0) = ListHead /\ Place(Len(theList) + 1) = ListHead
         /\ \A k \in 1 .. Len(theList) : Place(k) = theList[k] /\ Place(k) \in Listed
                                         /\ Place(k) \in Entries /\ Place(k) # ListHead
         /\ \A k \in 0 .. Len(theList) + 1 : Place(k) \in Links
         /\ \A j, k \in 0 .. Len(theList) : Place(j) = Place(k) => j = k
         /\ \A j, k \in 1 .. Len(theList) + 1 : Place(j) = Place(k) => j = k
         /\ Listed \subseteq Entries
<1>1. /\ theList \in Seq(Entries) /\ Len(theList) \in Nat
      /\ DOMAIN theList = 1 .. Len(theList)
      /\ \A j, k \in 1 .. Len(theList) : theList[j] = theList[k] => j = k
  BY DEF ListIInv, ListTypeOK, IsInjective
<1>2. \A k \in 1 .. Len(theList) : Place(k) = theList[k] /\ Place(k) \in Listed
                                   /\ Place(k) \in Entries /\ Place(k) # ListHead
  BY <1>1, ListEntryAssumption DEF Place, Listed, ToSet
<1>3. Place(0) = ListHead /\ Place(Len(theList) + 1) = ListHead
  BY <1>1 DEF Place
<1>4. \A k \in 0 .. Len(theList) + 1 : k \in 1 .. Len(theList) \/ Place(k) = ListHead
  BY DEF Place
<1>5. \A j, k \in 0 .. Len(theList) : Place(j) = Place(k) => j = k
  <2> SUFFICES ASSUME NEW j \in 0 .. Len(theList), NEW k \in 0 .. Len(theList),
                      Place(j) = Place(k)
               PROVE  j = k
    OBVIOUS
  <2>1. (j \in 1 .. Len(theList) \/ j = 0) /\ (k \in 1 .. Len(theList) \/ k = 0)
    BY <1>1
  <2> QED BY <2>1, <1>1, <1>2, <1>3
<1>6. \A j, k \in 1 .. Len(theList) + 1 : Place(j) = Place(k) => j = k
  <2> SUFFICES ASSUME NEW j \in 1 .. Len(theList) + 1, NEW k \in 1 .. Len(theList) + 1,
                      Place(j) = Place(k)
               PROVE  j = k
    OBVIOUS
  <2>1. /\ j \in 1 .. Len(theList) \/ j = Len(theList) + 1
        /\ k \in 1 .. Len(theList) \/ k = Len(theList) + 1
    BY <1>1
  <2> QED BY <2>1, <1>1, <1>2, <1>3
<1>7. Listed \subseteq Entries
  BY <1>1 DEF Listed, ToSet
<1> QED BY <1>1, <1>2, <1>3, <1>4, <1>5, <1>6, <1>7 DEF Links

\* Two links written at different places of a list's links.
LEMMA TwoLinksWritten ==
  ASSUME NEW S, NEW T, NEW g \in [S -> T], NEW h, NEW x \in S, NEW y \in S, x # y,
         NEW v \in T, NEW w \in T, h = [g EXCEPT ![x] = v, ![y] = w]
  PROVE  /\ h \in [S -> T] /\ h[x] = v /\ h[y] = w
         /\ \A z \in S : z # x /\ z # y => h[z] = g[z]
  OBVIOUS

\* An entry comes into the ring after the place p.
LEMMA InsertKeeps ==
  ASSUME ListIInv, NEW e \in Entries \ Listed, NEW p \in 0 .. Len(theList),
         theList' \in Seq(Entries), Len(theList') = Len(theList) + 1,
         \A k \in 1 .. Len(theList) + 1 :
           theList'[k] = IF k <= p THEN theList[k] ELSE IF k = p + 1 THEN e ELSE theList[k - 1],
         Flink' = [Flink EXCEPT ![e] = Place(p + 1), ![Place(p)] = e],
         Blink' = [Blink EXCEPT ![e] = Place(p), ![Place(p + 1)] = e]
  PROVE  ListIInv'
<1>1. PICK n \in Nat : n = Len(theList)
  BY Places
<1>2. PICK f : f = [k \in 0 .. n + 1 |-> Place(k)]
  OBVIOUS
<1>3. /\ \A k \in 0 .. n + 1 : Place(k) = f[k] /\ f[k] \in Links
      /\ \A j, k \in 0 .. n : f[j] = f[k] => j = k
      /\ \A j, k \in 1 .. n + 1 : f[j] = f[k] => j = k
      /\ \A k \in 1 .. n : f[k] = theList[k]
      /\ f[0] = ListHead /\ f[n + 1] = ListHead
  BY <1>1, <1>2, Places
<1>4. p \in Nat /\ p <= n /\ p + 1 \in 1 .. n + 1 /\ p \in 0 .. n
  BY <1>1
<1>5. /\ e \in Links /\ e # ListHead /\ \A k \in 0 .. n + 1 : f[k] # e
  <2>1. e \in Links /\ e # ListHead
    BY ListEntryAssumption DEF Links
  <2>2. ASSUME NEW k \in 0 .. n + 1 PROVE f[k] # e
    <3>1. k \in 1 .. n \/ k = 0 \/ k = n + 1
      BY <1>1
    <3> QED BY <3>1, <1>1, <1>3, <2>1, Places
  <2> QED BY <2>1, <2>2
<1>6. /\ Flink' \in [Links -> Links \cup {"garbage"}] /\ Flink'[f[p]] = e /\ Flink'[e] = f[p + 1]
      /\ \A x \in Links : x # e /\ x # f[p] => Flink'[x] = Flink[x]
  <2>1. /\ f[p] \in Links /\ f[p + 1] \in Links /\ f[p] # e /\ f[p + 1] # e
        /\ Place(p) = f[p] /\ Place(p + 1) = f[p + 1]
    BY <1>3, <1>4, <1>5
  <2>2. PICK a, b : a = f[p + 1] /\ b = f[p]
    OBVIOUS
  <2>3. Flink' = [Flink EXCEPT ![e] = a, ![b] = e]
    BY <2>1, <2>2
  <2>4. Flink \in [Links -> Links \cup {"garbage"}]
    BY DEF ListIInv, ListTypeOK
  <2>5. a \in Links /\ b \in Links /\ b # e
    BY <2>1, <2>2
  <2>6. PICK T, g, h : T = Links \cup {"garbage"} /\ g = Flink /\ h = Flink'
    OBVIOUS
  <2>7. e \in Links /\ e \in T /\ a \in T /\ g \in [Links -> T]
    BY <1>5, <2>4, <2>5, <2>6
  <2>8. h = [g EXCEPT ![e] = a, ![b] = e]
    BY <2>3, <2>6
  <2>9. /\ h \in [Links -> T] /\ h[e] = a /\ h[b] = e
        /\ \A x \in Links : x # e /\ x # b => h[x] = g[x]
    BY <2>5, <2>7, <2>8, TwoLinksWritten
  <2> QED BY <2>2, <2>6, <2>9
<1>7. /\ Blink' \in [Links -> Links \cup {"garbage"}] /\ Blink'[f[p + 1]] = e /\ Blink'[e] = f[p]
      /\ \A x \in Links : x # e /\ x # f[p + 1] => Blink'[x] = Blink[x]
  <2>1. /\ f[p] \in Links /\ f[p + 1] \in Links /\ f[p] # e /\ f[p + 1] # e
        /\ Place(p) = f[p] /\ Place(p + 1) = f[p + 1]
    BY <1>3, <1>4, <1>5
  <2>2. PICK a, b : a = f[p] /\ b = f[p + 1]
    OBVIOUS
  <2>3. Blink' = [Blink EXCEPT ![e] = a, ![b] = e]
    BY <2>1, <2>2
  <2>4. Blink \in [Links -> Links \cup {"garbage"}]
    BY DEF ListIInv, ListTypeOK
  <2>5. a \in Links /\ b \in Links /\ b # e
    BY <2>1, <2>2
  <2>6. PICK T, g, h : T = Links \cup {"garbage"} /\ g = Blink /\ h = Blink'
    OBVIOUS
  <2>7. e \in Links /\ e \in T /\ a \in T /\ g \in [Links -> T]
    BY <1>5, <2>4, <2>5, <2>6
  <2>8. h = [g EXCEPT ![e] = a, ![b] = e]
    BY <2>3, <2>6
  <2>9. /\ h \in [Links -> T] /\ h[e] = a /\ h[b] = e
        /\ \A x \in Links : x # e /\ x # b => h[x] = g[x]
    BY <2>5, <2>7, <2>8, TwoLinksWritten
  <2> QED BY <2>2, <2>6, <2>9
<1>8. \A k \in 0 .. n + 2 :
        Place(k)' = IF k <= p THEN f[k] ELSE IF k = p + 1 THEN e ELSE f[k - 1]
  <2> SUFFICES ASSUME NEW k \in 0 .. n + 2
               PROVE  Place(k)' = IF k <= p THEN f[k] ELSE IF k = p + 1 THEN e ELSE f[k - 1]
    OBVIOUS
  <2>1. CASE k = 0
    BY <2>1, <1>3, <1>4 DEF Place
  <2>2. CASE k = n + 2
    <3>1. k \notin 1 .. Len(theList') /\ ~(k <= p) /\ k # p + 1 /\ k - 1 = n + 1
      BY <2>2, <1>1, <1>4
    <3> QED BY <3>1, <1>3 DEF Place
  <2>3. CASE k \in 1 .. n + 1
    <3>1. Place(k)' = theList'[k]
      BY <2>3, <1>1 DEF Place
    <3>2. k <= p => theList[k] = f[k]
      BY <2>3, <1>3, <1>4
    <3>3. k > p + 1 => theList[k - 1] = f[k - 1]
      BY <2>3, <1>3, <1>4
    <3> QED BY <2>3, <3>1, <3>2, <3>3, <1>1, <1>4
  <2> QED BY <2>1, <2>2, <2>3, <1>1
<1>9. \A k \in 0 .. n : Flink[f[k]] = f[k + 1] /\ Blink[f[k + 1]] = f[k]
  BY <1>1, <1>3 DEF ListIInv
<1>10. ASSUME NEW k \in 0 .. n + 1
       PROVE  Flink'[Place(k)'] = Place(k + 1)' /\ Blink'[Place(k + 1)'] = Place(k)'
  <2>1. CASE k < p
    <3>1. /\ Place(k)' = f[k] /\ Place(k + 1)' = f[k + 1] /\ k \in 0 .. n /\ k + 1 \in 1 .. n
          /\ k # p /\ k + 1 # p + 1
      BY <2>1, <1>4, <1>8
    <3>2. f[k] # f[p] /\ f[k + 1] # f[p + 1]
      BY <3>1, <1>3, <1>4
    <3> QED BY <3>1, <3>2, <1>3, <1>5, <1>6, <1>7, <1>9
  <2>2. CASE k = p
    <3>1. Place(k)' = f[p] /\ Place(k + 1)' = e
      BY <2>2, <1>4, <1>8
    <3> QED BY <3>1, <1>6, <1>7
  <2>3. CASE k = p + 1
    <3>1. Place(k)' = e /\ Place(k + 1)' = f[p + 1]
      BY <2>3, <1>4, <1>8
    <3> QED BY <3>1, <1>6, <1>7
  <2>4. CASE k > p + 1
    <3>0. /\ k \in 0 .. n + 2 /\ k + 1 \in 0 .. n + 2 /\ (k + 1) - 1 = k
          /\ ~(k <= p) /\ ~(k + 1 <= p) /\ k + 1 # p + 1
          /\ k - 1 \in 0 .. n /\ k \in 1 .. n + 1
          /\ k - 1 # p /\ k # p + 1 /\ (k - 1) + 1 = k
      BY <2>4, <1>4
    <3>1. /\ Place(k)' = f[k - 1] /\ Place(k + 1)' = f[k] /\ k - 1 \in 0 .. n /\ k \in 1 .. n + 1
          /\ k - 1 # p /\ k # p + 1 /\ (k - 1) + 1 = k
      BY <3>0, <1>8
    <3>2. f[k - 1] # f[p] /\ f[k] # f[p + 1]
      BY <3>1, <1>3, <1>4
    <3>3. Flink[f[k - 1]] = f[k] /\ Blink[f[k]] = f[k - 1]
      BY <3>1, <1>9
    <3>4. f[k - 1] \in Links /\ f[k] \in Links /\ f[k - 1] # e /\ f[k] # e
      BY <3>1, <1>3, <1>5
    <3> QED BY <3>1, <3>2, <3>3, <3>4, <1>6, <1>7
  <2> QED BY <2>1, <2>2, <2>3, <2>4, <1>1, <1>4
<1>11. IsInjective(theList')
  <2>1. \A k \in 1 .. n + 1 :
          theList'[k] = IF k <= p THEN f[k] ELSE IF k = p + 1 THEN e ELSE f[k - 1]
    <3> SUFFICES ASSUME NEW k \in 1 .. n + 1
                 PROVE theList'[k] = IF k <= p THEN f[k] ELSE IF k = p + 1 THEN e ELSE f[k - 1]
      OBVIOUS
    <3>1. Place(k)' = theList'[k] /\ k \in 0 .. n + 2
      BY <1>1 DEF Place
    <3> QED BY <3>1, <1>8
  <2> SUFFICES ASSUME NEW j \in 1 .. n + 1, NEW k \in 1 .. n + 1, theList'[j] = theList'[k]
               PROVE  j = k
    BY <1>1 DEF IsInjective
  <2> DEFINE Was(i) == IF i <= p THEN i ELSE i - 1
  <2>2. \A i \in 1 .. n + 1 : i # p + 1 => theList'[i] = f[Was(i)] /\ Was(i) \in 1 .. n
    BY <2>1, <1>4
  <2>3. (j = p + 1) <=> (k = p + 1)
    BY <2>1, <2>2, <1>4, <1>5
  <2>4. ASSUME j # p + 1, k # p + 1 PROVE j = k
    <3>1. f[Was(j)] = f[Was(k)] /\ Was(j) \in 1 .. n /\ Was(k) \in 1 .. n
      BY <2>2, <2>4
    <3>2. Was(j) = Was(k)
      <4> HIDE DEF Was
      <4> QED BY <3>1, <1>3
    <3> QED BY <3>2, <2>4, <1>4
  <2> QED BY <2>3, <2>4
<1> QED
  BY <1>1, <1>6, <1>7, <1>10, <1>11 DEF ListIInv, ListTypeOK

\* The entry at the place p leaves the ring.
LEMMA RemoveKeeps ==
  ASSUME ListIInv, NEW p \in 1 .. Len(theList),
         theList' \in Seq(Entries), Len(theList') = Len(theList) - 1,
         \A k \in 1 .. Len(theList) - 1 :
           theList'[k] = IF k < p THEN theList[k] ELSE theList[k + 1],
         Flink' = [Flink EXCEPT ![Place(p - 1)] = Place(p + 1)],
         Blink' = [Blink EXCEPT ![Place(p + 1)] = Place(p - 1)]
  PROVE  ListIInv'
<1>1. PICK n \in Nat : n = Len(theList)
  BY Places
<1>2. PICK f : f = [k \in 0 .. n + 1 |-> Place(k)]
  OBVIOUS
<1>3. /\ \A k \in 0 .. n + 1 : Place(k) = f[k] /\ f[k] \in Links
      /\ \A j, k \in 0 .. n : f[j] = f[k] => j = k
      /\ \A j, k \in 1 .. n + 1 : f[j] = f[k] => j = k
      /\ \A k \in 1 .. n : f[k] = theList[k]
      /\ f[0] = ListHead /\ f[n + 1] = ListHead
  BY <1>1, <1>2, Places
<1>4. p \in Nat /\ p >= 1 /\ p <= n /\ p + 1 \in 1 .. n + 1 /\ p - 1 \in 0 .. n
  BY <1>1
<1>6. /\ Flink' \in [Links -> Links \cup {"garbage"}] /\ Flink'[f[p - 1]] = f[p + 1]
      /\ \A x \in Links : x # f[p - 1] => Flink'[x] = Flink[x]
  BY <1>3, <1>4 DEF ListIInv, ListTypeOK
<1>7. /\ Blink' \in [Links -> Links \cup {"garbage"}] /\ Blink'[f[p + 1]] = f[p - 1]
      /\ \A x \in Links : x # f[p + 1] => Blink'[x] = Blink[x]
  BY <1>3, <1>4 DEF ListIInv, ListTypeOK
<1>8. \A k \in 0 .. n : Place(k)' = IF k < p THEN f[k] ELSE f[k + 1]
  <2> SUFFICES ASSUME NEW k \in 0 .. n PROVE Place(k)' = IF k < p THEN f[k] ELSE f[k + 1]
    OBVIOUS
  <2>1. CASE k = 0
    BY <2>1, <1>3, <1>4 DEF Place
  <2>2. CASE k = n /\ k # 0
    <3>1. k \notin 1 .. Len(theList') /\ ~(k < p)
      BY <2>2, <1>1, <1>4
    <3> QED BY <3>1, <2>2, <1>3 DEF Place
  <2>3. CASE k \in 1 .. n - 1
    <3>1. Place(k)' = theList'[k] /\ k \in 1 .. n /\ k + 1 \in 1 .. n
      BY <2>3, <1>1 DEF Place
    <3> QED BY <2>3, <3>1, <1>1, <1>3
  <2> QED BY <2>1, <2>2, <2>3, <1>1
<1>9. \A k \in 0 .. n : Flink[f[k]] = f[k + 1] /\ Blink[f[k + 1]] = f[k]
  <2> SUFFICES ASSUME NEW k \in 0 .. n
               PROVE  Flink[f[k]] = f[k + 1] /\ Blink[f[k + 1]] = f[k]
    OBVIOUS
  <2>1. Flink[Place(k)] = Place(k + 1) /\ Blink[Place(k + 1)] = Place(k)
    BY <1>1 DEF ListIInv
  <2> QED BY <2>1, <1>3
<1>10. ASSUME NEW k \in 0 .. n - 1
       PROVE  Flink'[Place(k)'] = Place(k + 1)' /\ Blink'[Place(k + 1)'] = Place(k)'
  <2>1. CASE k < p - 1
    <3>1. /\ Place(k)' = f[k] /\ Place(k + 1)' = f[k + 1] /\ k \in 0 .. n /\ k + 1 \in 1 .. n
          /\ k # p - 1 /\ k + 1 # p + 1
      BY <2>1, <1>4, <1>8
    <3>2. f[k] # f[p - 1] /\ f[k + 1] # f[p + 1]
      BY <3>1, <1>3, <1>4
    <3>3. Flink[f[k]] = f[k + 1] /\ Blink[f[k + 1]] = f[k]
      BY <3>1, <1>9
    <3>4. f[k] \in Links /\ f[k + 1] \in Links
      BY <3>1, <1>3
    <3> QED BY <3>1, <3>2, <3>3, <3>4, <1>6, <1>7
  <2>2. CASE k = p - 1
    <3>1. Place(k)' = f[p - 1] /\ Place(k + 1)' = f[p + 1]
      BY <2>2, <1>4, <1>8
    <3> QED BY <3>1, <1>6, <1>7
  <2>3. CASE k >= p
    <3>1. /\ Place(k)' = f[k + 1] /\ Place(k + 1)' = f[k + 2]
          /\ k + 1 \in 0 .. n /\ k + 2 \in 1 .. n + 1
          /\ k + 1 # p - 1 /\ k + 2 # p + 1 /\ (k + 1) + 1 = k + 2
      <4>1. /\ k + 1 \in 0 .. n /\ k + 2 \in 1 .. n + 1 /\ k + 1 # p - 1 /\ k + 2 # p + 1
            /\ (k + 1) + 1 = k + 2 /\ k \in 0 .. n /\ k + 1 \in 0 .. n
            /\ ~(k < p) /\ ~(k + 1 < p)
        BY <2>3, <1>4
      <4>2. Place(k)' = f[k + 1] /\ Place(k + 1)' = f[k + 2]
        BY <4>1, <1>8
      <4> QED BY <4>1, <4>2
    <3>2. f[k + 1] # f[p - 1] /\ f[k + 2] # f[p + 1]
      BY <3>1, <1>3, <1>4
    <3>3. Flink[f[k + 1]] = f[k + 2] /\ Blink[f[k + 2]] = f[k + 1]
      BY <3>1, <1>9
    <3>4. f[k + 1] \in Links /\ f[k + 2] \in Links
      BY <3>1, <1>3
    <3> QED BY <3>1, <3>2, <3>3, <3>4, <1>6, <1>7
  <2> QED BY <2>1, <2>2, <2>3, <1>1, <1>4
<1>11. IsInjective(theList')
  <2> DEFINE Was(i) == IF i < p THEN i ELSE i + 1
  <2>1. \A k \in 1 .. n - 1 : theList'[k] = f[Was(k)] /\ Was(k) \in 1 .. n
    BY <1>1, <1>3, <1>4
  <2> SUFFICES ASSUME NEW j \in 1 .. n - 1, NEW k \in 1 .. n - 1, theList'[j] = theList'[k]
               PROVE  j = k
    BY <1>1 DEF IsInjective
  <2>2. f[Was(j)] = f[Was(k)] /\ Was(j) \in 1 .. n /\ Was(k) \in 1 .. n
    BY <2>1
  <2>3. \A a, b \in 1 .. n : f[a] = f[b] => a = b
    BY <1>3
  <2> HIDE DEF Was
  <2>4. Was(j) = Was(k)
    BY <2>2, <2>3
  <2> QED BY <2>4, <1>4 DEF Was
<1> QED
  BY <1>1, <1>6, <1>7, <1>10, <1>11 DEF ListIInv, ListTypeOK

\* The operations of List.h insert at the ends, and remove at the ends or in between.
LEMMA InsertTailListKeeps ==
  ASSUME ListIInv, NEW e \in Entries, InsertTailList(e)
  PROVE  ListIInv'
<1>1. PICK n \in Nat : n = Len(theList)
  BY Places
<1>2. Place(n) = Blink[ListHead] /\ Place(n + 1) = ListHead
  BY <1>1, Places DEF ListIInv
<1>3. theList' = Append(theList, e) /\ theList \in Seq(Entries) /\ e \notin Listed
  BY DEF InsertTailList, ListIInv, ListTypeOK
<1>4. /\ theList' \in Seq(Entries) /\ Len(theList') = n + 1
      /\ \A k \in 1 .. n + 1 :
           theList'[k] = IF k <= n THEN theList[k] ELSE IF k = n + 1 THEN e ELSE theList[k - 1]
  BY <1>1, <1>3
<1>5. /\ Flink' = [Flink EXCEPT ![e] = Place(n + 1), ![Place(n)] = e]
      /\ Blink' = [Blink EXCEPT ![e] = Place(n), ![Place(n + 1)] = e]
  BY <1>2 DEF InsertTailList
<1>6. n \in 0 .. Len(theList)
  BY <1>1
<1> QED BY <1>1, <1>3, <1>4, <1>5, <1>6, InsertKeeps

\* InsertHeadList puts the entry between the sentinel and the first.
LEMMA InsertHeadListKeeps ==
  ASSUME ListIInv, NEW e \in Entries, InsertHeadList(e)
  PROVE  ListIInv'
<1>1. PICK n \in Nat : n = Len(theList)
  BY Places
<1>2. Place(1) = Flink[ListHead] /\ Place(0) = ListHead
  BY <1>1, Places DEF ListIInv
<1>3. theList' = <<e>> \o theList /\ theList \in Seq(Entries) /\ e \notin Listed
  BY DEF InsertHeadList, ListIInv, ListTypeOK
<1>4. /\ theList' \in Seq(Entries) /\ Len(theList') = n + 1
      /\ \A k \in 1 .. n + 1 :
           theList'[k] = IF k <= 0 THEN theList[k] ELSE IF k = 0 + 1 THEN e ELSE theList[k - 1]
  BY <1>1, <1>3
<1>5. Blink' = [Blink EXCEPT ![e] = Place(0), ![Place(0 + 1)] = e]
  <2>1. 0 + 1 = 1
    OBVIOUS
  <2> QED BY <1>2, <2>1 DEF InsertHeadList
<1>6. Flink' = [Flink EXCEPT ![e] = Place(0 + 1), ![Place(0)] = e]
  <2>1. 0 + 1 = 1
    OBVIOUS
  <2> QED BY <1>2, <2>1 DEF InsertHeadList
<1>7. 0 \in 0 .. Len(theList)
  BY <1>1
<1> QED BY <1>1, <1>3, <1>4, <1>5, <1>6, <1>7, InsertKeeps

\* A list that is not empty has places at its ends.
LEMMA NotEmpty ==
  ASSUME ListIInv, theList # <<>>
  PROVE  Len(theList) \in Nat /\ 1 \in 1 .. Len(theList) /\ Len(theList) \in 1 .. Len(theList)
<1>1. Len(theList) # 0 /\ Len(theList) \in Nat
  BY DEF ListIInv, ListTypeOK
<1> QED BY <1>1

\* RemoveHeadList unlinks the first entry.
LEMMA RemoveHeadListKeeps ==
  ASSUME ListIInv, RemoveHeadList
  PROVE  ListIInv'
<1>1. theList # <<>> /\ theList' = Tail(theList) /\ theList \in Seq(Entries)
  BY DEF RemoveHeadList, ListIInv, ListTypeOK
<1>2. PICK n \in Nat : n = Len(theList) /\ 1 \in 1 .. n
  BY <1>1, NotEmpty
<1>3. Place(0) = ListHead /\ Flink[ListHead] = Place(1) /\ Flink[Place(1)] = Place(2)
  <2>1. 0 \in 0 .. n /\ 1 \in 0 .. n /\ 0 + 1 = 1 /\ 1 + 1 = 2
    BY <1>2
  <2> QED BY <1>2, <2>1, Places DEF ListIInv
<1>4. /\ theList' \in Seq(Entries) /\ Len(theList') = n - 1
      /\ \A k \in 1 .. n - 1 : theList'[k] = IF k < 1 THEN theList[k] ELSE theList[k + 1]
  BY <1>1, <1>2
<1>5. /\ Flink' = [Flink EXCEPT ![Place(1 - 1)] = Place(1 + 1)]
      /\ Blink' = [Blink EXCEPT ![Place(1 + 1)] = Place(1 - 1)]
  <2>1. 1 - 1 = 0 /\ 1 + 1 = 2
    OBVIOUS
  <2> QED BY <1>3, <2>1 DEF RemoveHeadList
<1> QED BY <1>2, <1>4, <1>5, RemoveKeeps

\* RemoveTailList unlinks the last entry.
LEMMA RemoveTailListKeeps ==
  ASSUME ListIInv, RemoveTailList
  PROVE  ListIInv'
<1>1. theList # <<>> /\ theList' = Front(theList) /\ theList \in Seq(Entries)
  BY DEF RemoveTailList, ListIInv, ListTypeOK
<1>2. PICK n \in Nat : n = Len(theList) /\ n \in 1 .. n
  BY <1>1, NotEmpty
<1>3. Place(n + 1) = ListHead /\ Blink[ListHead] = Place(n) /\ Blink[Place(n)] = Place(n - 1)
  <2>1. n \in 0 .. n /\ n - 1 \in 0 .. n /\ (n - 1) + 1 = n
    BY <1>2
  <2> QED BY <1>2, <2>1, Places DEF ListIInv
<1>4. /\ theList' \in Seq(Entries) /\ Len(theList') = n - 1
      /\ \A k \in 1 .. n - 1 : theList'[k] = IF k < n THEN theList[k] ELSE theList[k + 1]
  BY <1>1, <1>2 DEF Front
<1>5. /\ Flink' = [Flink EXCEPT ![Place(n - 1)] = Place(n + 1)]
      /\ Blink' = [Blink EXCEPT ![Place(n + 1)] = Place(n - 1)]
  BY <1>3 DEF RemoveTailList
<1> QED BY <1>2, <1>4, <1>5, RemoveKeeps

\* RemoveEntryList unlinks an entry wherever it is.
LEMMA RemoveEntryListKeeps ==
  ASSUME ListIInv, NEW e \in Entries, RemoveEntryList(e)
  PROVE  ListIInv'
<1>1. PICK p \in DOMAIN theList : theList[p] = e /\ theList' = RemoveAt(theList, p)
  BY DEF RemoveEntryList
<1>2. PICK n \in Nat : n = Len(theList) /\ p \in 1 .. n /\ theList \in Seq(Entries)
  BY <1>1 DEF ListIInv, ListTypeOK
<1>3. Place(p) = e /\ Flink[e] = Place(p + 1) /\ Blink[e] = Place(p - 1)
  <2>1. p \in 0 .. n /\ p - 1 \in 0 .. n /\ (p - 1) + 1 = p
    BY <1>2
  <2> QED BY <1>1, <1>2, <2>1, Places DEF ListIInv
<1>4. /\ theList' \in Seq(Entries) /\ Len(theList') = n - 1
      /\ \A k \in 1 .. n - 1 : theList'[k] = IF k < p THEN theList[k] ELSE theList[k + 1]
  <2>1. PICK a, b : a = SubSeq(theList, 1, p - 1) /\ b = SubSeq(theList, p + 1, n)
    OBVIOUS
  <2>2. /\ a \in Seq(Entries) /\ Len(a) = p - 1
        /\ \A k \in 1 .. p - 1 : a[k] = theList[k]
    BY <1>2, <2>1
  <2>3. /\ b \in Seq(Entries) /\ Len(b) = n - p
        /\ \A k \in 1 .. n - p : b[k] = theList[k + p]
    BY <1>2, <2>1
  <2>4. theList' = a \o b
    BY <1>1, <1>2, <2>1 DEF RemoveAt
  <2>5. theList' \in Seq(Entries) /\ Len(theList') = n - 1
    BY <1>2, <2>2, <2>3, <2>4
  <2>6. ASSUME NEW k \in 1 .. n - 1
        PROVE  theList'[k] = IF k < p THEN theList[k] ELSE theList[k + 1]
    <3>1. CASE k < p
      BY <3>1, <1>2, <2>2, <2>3, <2>4
    <3>2. CASE ~(k < p)
      <4>1. k - (p - 1) \in 1 .. n - p /\ (k - (p - 1)) + p = k + 1
        BY <3>2, <1>2
      <4>2. theList'[k] = b[k - (p - 1)]
        BY <3>2, <1>2, <2>2, <2>3, <2>4
      <4> QED BY <3>2, <4>1, <4>2, <2>3
    <3> QED BY <3>1, <3>2
  <2> QED BY <2>5, <2>6
<1>5. /\ Flink' = [Flink EXCEPT ![Place(p - 1)] = Place(p + 1)]
      /\ Blink' = [Blink EXCEPT ![Place(p + 1)] = Place(p - 1)]
  BY <1>3 DEF RemoveEntryList
<1> QED BY <1>2, <1>4, <1>5, RemoveKeeps

\* At the start the ring is the sentinel alone.
LEMMA ListInitHolds == InitializeListHead => ListIInv
<1> SUFFICES ASSUME InitializeListHead PROVE ListIInv
  OBVIOUS
<1>1. /\ Flink = [e \in Links |-> IF e = ListHead THEN e ELSE "garbage"]
      /\ Blink = Flink /\ theList = <<>> /\ ListHead \in Links
  BY DEF InitializeListHead, Links
<1>2. ListTypeOK
  BY <1>1 DEF ListTypeOK
<1>3. IsInjective(theList) /\ Len(theList) = 0
  BY <1>1 DEF IsInjective
<1>4. Place(0) = ListHead /\ Place(1) = ListHead
  BY <1>3 DEF Place
<1>5. Flink[ListHead] = ListHead /\ Blink[ListHead] = ListHead
  BY <1>1
<1>6. \A k \in 0 .. Len(theList) :
        Flink[Place(k)] = Place(k + 1) /\ Blink[Place(k + 1)] = Place(k)
  BY <1>3, <1>4, <1>5
<1> QED BY <1>2, <1>3, <1>6 DEF ListIInv

\* The invariant of the list holds in every reachable state.
LEMMA ListInvariantHolds == ListSpec => []ListIInv
<1>1. ASSUME ListIInv, ListNext PROVE ListIInv'
  BY <1>1, InsertTailListKeeps, InsertHeadListKeeps, RemoveHeadListKeeps,
     RemoveTailListKeeps, RemoveEntryListKeeps DEF ListNext
<1>2. ASSUME ListIInv, UNCHANGED listvars PROVE ListIInv'
  BY <1>2 DEF listvars, ListIInv, ListTypeOK, Place
<1> QED BY <1>1, <1>2, ListInitHolds, PTL DEF ListSpec

\* The links run both ways through the sentinel and the entries of the list in
\* their order, for any entries and any sequence of operations.
THEOREM LinksMakeRing == ListSpec => []ListIsRing
<1>1. ASSUME ListIInv PROVE ListIsRing
  <2> DEFINE ring == <<ListHead>> \o theList \o <<ListHead>>
  <2>1. PICK n \in Nat : n = Len(theList) /\ theList \in Seq(Entries)
    BY <1>1, Places DEF ListIInv, ListTypeOK
  <2>2. Len(ring) = n + 2
    BY <2>1
  <2>3. \A k \in 1 .. n + 2 : ring[k] = Place(k - 1)
    <3> SUFFICES ASSUME NEW k \in 1 .. n + 2 PROVE ring[k] = Place(k - 1)
      OBVIOUS
    <3>1. CASE k = 1
      BY <3>1, <2>1, <1>1, Places
    <3>2. CASE k = n + 2
      BY <3>2, <2>1, <1>1, Places
    <3>3. CASE k \in 2 .. n + 1
      <4>1. ring[k] = theList[k - 1]
        BY <3>3, <2>1
      <4>2. k - 1 \in 1 .. n
        BY <3>3, <2>1
      <4> QED BY <4>1, <4>2, <2>1, <1>1, Places
    <3> QED BY <3>1, <3>2, <3>3, <2>1
  <2>4. ASSUME NEW k \in 1 .. n + 1
        PROVE  Flink[ring[k]] = ring[k + 1] /\ Blink[ring[k + 1]] = ring[k]
    <3>1. /\ k - 1 \in 0 .. n /\ (k - 1) + 1 = k /\ (k + 1) - 1 = k
          /\ k \in 1 .. n + 2 /\ k + 1 \in 1 .. n + 2
      BY <2>1
    <3>2. ring[k] = Place(k - 1) /\ ring[k + 1] = Place(k)
      BY <2>3, <3>1
    <3>3. Flink[Place(k - 1)] = Place(k) /\ Blink[Place(k)] = Place(k - 1)
      BY <3>1, <2>1, <1>1 DEF ListIInv
    <3> HIDE DEF ring
    <3> QED BY <3>2, <3>3
  <2>5. IsListEmpty <=> theList = <<>>
    <3>1. Flink[ListHead] = Place(1)
      <4>1. 0 \in 0 .. n /\ 0 + 1 = 1
        BY <2>1
      <4> QED BY <4>1, <2>1, <1>1, Places DEF ListIInv
    <3>2. CASE n = 0
      BY <3>1, <3>2, <2>1, <1>1, Places DEF IsListEmpty
    <3>3. CASE n # 0
      <4>1. 1 \in 1 .. n /\ theList # <<>>
        BY <3>3, <2>1
      <4> QED BY <3>1, <4>1, <2>1, <1>1, Places DEF IsListEmpty
    <3> QED BY <3>2, <3>3
  <2>6. Len(ring) - 1 = n + 1
    BY <2>1, <2>2
  <2> HIDE DEF ring
  <2>7. \A k \in 1 .. Len(ring) - 1 : Flink[ring[k]] = ring[k + 1] /\ Blink[ring[k + 1]] = ring[k]
    BY <2>4, <2>6
  <2> QED BY <2>5, <2>7 DEF ListIsRing, ring
<1> QED BY <1>1, ListInvariantHolds, PTL

-----------------------------------------------------------------------------
(* The context switch.                                                        *)

\* What can be on a stack.
RegisterNames == {"RBP", "RBX", "RDI", "RSI", "R12", "R13", "R14", "R15",
                  "EBP", "EBX", "ESI", "EDI"}
Words == {<<"zero">>, <<"InternalStart">>, <<"home">>, <<"UtRun">>}
           \cup ({"new"} \X RegisterNames)
           \cup (All \X (RegisterNames \cup {"RetAddr"}) \X {0, 1})

\* Type invariant.
MachineTypeOK ==
  /\ build \in Builds /\ Running \in All \ freed /\ freed \in SUBSET Stacks
  /\ stack \in [All -> Seq(Words)]
  /\ ThreadContext \in [All -> Nat]
  /\ left \in [All -> [height : Nat, returnTo : Words, saved : [ToSet(Registers) -> Words]]]

\* A stack s with the context of thread t on top.
RegisterCount == Len(Registers)
HasContext(t, s) ==
  /\ Len(s) = left[t].height + RegisterCount + 1
  /\ s[left[t].height + 1] = left[t].returnTo
  /\ \A k \in 1 .. RegisterCount : s[left[t].height + 1 + k] = left[t].saved[Registers[k]]

\* The inductive invariant: the context of every thread that is switched out is
\* on its stack.
MachineIInv ==
  /\ MachineTypeOK /\ ContextRestored
  /\ \A t \in SwitchedOut : ThreadContext[t] = Len(stack[t]) /\ HasContext(t, stack[t])

\* The registers are four or eight different ones.
LEMMA RegistersAre ==
  /\ Registers \in Seq(RegisterNames) /\ RegisterCount \in {4, 8}
  /\ x64 => RegisterCount = 8
  /\ \A k \in 1 .. RegisterCount : Registers[k] \in RegisterNames /\ Registers[k] # "RetAddr"
  /\ \A j, k \in 1 .. RegisterCount : Registers[j] = Registers[k] => j = k
  /\ ToSet(Registers) = {Registers[k] : k \in 1 .. RegisterCount}
<1>1. CASE x64
  <2>1. Registers = <<"RBP", "RBX", "RDI", "RSI", "R12", "R13", "R14", "R15">>
    BY <1>1 DEF Registers
  <2>2. RegisterCount = 8 /\ DOMAIN Registers = 1 .. 8
    BY <2>1 DEF RegisterCount
  <2>3. \A k \in 1 .. 8 : k \in {1, 2, 3, 4, 5, 6, 7, 8}
    OBVIOUS
  <2>4. Registers \in Seq(RegisterNames)
    BY <2>1 DEF RegisterNames
  <2>5. \A k \in 1 .. 8 : Registers[k] \in RegisterNames /\ Registers[k] # "RetAddr"
    BY <2>1, <2>3 DEF RegisterNames
  <2>6. \A j, k \in 1 .. 8 : Registers[j] = Registers[k] => j = k
    BY <2>1, <2>3
  <2> QED BY <2>2, <2>4, <2>5, <2>6 DEF ToSet
<1>2. CASE ~x64
  <2>1. Registers = <<"EBP", "EBX", "ESI", "EDI">>
    BY <1>2 DEF Registers
  <2>2. RegisterCount = 4 /\ DOMAIN Registers = 1 .. 4
    BY <2>1 DEF RegisterCount
  <2>3. \A k \in 1 .. 4 : k \in {1, 2, 3, 4}
    OBVIOUS
  <2>4. Registers \in Seq(RegisterNames)
    BY <2>1 DEF RegisterNames
  <2>5. \A k \in 1 .. 4 : Registers[k] \in RegisterNames /\ Registers[k] # "RetAddr"
    BY <2>1, <2>3 DEF RegisterNames
  <2>6. \A j, k \in 1 .. 4 : Registers[j] = Registers[k] => j = k
    BY <2>1, <2>3
  <2> QED BY <1>2, <2>2, <2>4, <2>5, <2>6 DEF ToSet
<1> QED BY <1>1, <1>2

\* The layout of a first context is that of the pushes.
LayoutFits(layout) ==
  /\ layout \in Seq(RegisterNames \cup {"RetAddr"}) /\ Len(layout) = RegisterCount + 1
  /\ layout[1] = "RetAddr"
  /\ \A k \in 1 .. RegisterCount : layout[k + 1] = Registers[k]

\* The struct of either word size has that layout.
LEMMA Layouts ==
  /\ x64 => LayoutFits(UTHREAD_CONTEXT_64)
  /\ ~x64 => LayoutFits(UTHREAD_CONTEXT_32)
<1>1. ASSUME x64 PROVE LayoutFits(UTHREAD_CONTEXT_64)
  <2>1. Registers = <<"RBP", "RBX", "RDI", "RSI", "R12", "R13", "R14", "R15">>
    BY <1>1 DEF Registers
  <2>2. PICK u : u = UTHREAD_CONTEXT_64
    OBVIOUS
  <2>3. u = <<"RetAddr", "RBP", "RBX", "RDI", "RSI", "R12", "R13", "R14", "R15">>
    BY <2>2 DEF UTHREAD_CONTEXT_64
  <2>4. u \in Seq(RegisterNames \cup {"RetAddr"}) /\ Len(u) = 9 /\ u[1] = "RetAddr"
    BY <2>3 DEF RegisterNames
  <2>5. \A k \in 1 .. 8 : k \in {1, 2, 3, 4, 5, 6, 7, 8}
    OBVIOUS
  <2>6. \A k \in 1 .. 8 : u[k + 1] = Registers[k]
    BY <2>1, <2>3, <2>5
  <2>7. RegisterCount = 8
    BY <2>1 DEF RegisterCount
  <2> QED BY <2>2, <2>4, <2>6, <2>7 DEF LayoutFits
<1>2. ASSUME ~x64 PROVE LayoutFits(UTHREAD_CONTEXT_32)
  <2>1. Registers = <<"EBP", "EBX", "ESI", "EDI">>
    BY <1>2 DEF Registers
  <2>2. PICK u : u = UTHREAD_CONTEXT_32
    OBVIOUS
  <2>3. u = <<"RetAddr", "EBP", "EBX", "ESI", "EDI">>
    BY <2>2 DEF UTHREAD_CONTEXT_32
  <2>4. u \in Seq(RegisterNames \cup {"RetAddr"}) /\ Len(u) = 5 /\ u[1] = "RetAddr"
    BY <2>3 DEF RegisterNames
  <2>5. \A k \in 1 .. 4 : k \in {1, 2, 3, 4}
    OBVIOUS
  <2>6. \A k \in 1 .. 4 : u[k + 1] = Registers[k]
    BY <2>1, <2>3, <2>5
  <2>7. RegisterCount = 4
    BY <2>1 DEF RegisterCount
  <2> QED BY <2>2, <2>4, <2>6, <2>7 DEF LayoutFits
<1> QED BY <1>1, <1>2

\* What is pushed is on top.
IsOnTop(r, a, m, b, n) ==
  /\ r \in Seq(Words) /\ Len(r) = m + n
  /\ \A k \in 1 .. m : r[k] = a[k]
  /\ \A k \in 1 .. n : r[m + k] = b[k]

\* A sequence appended to another.
LEMMA OnTop ==
  ASSUME NEW r, NEW a \in Seq(Words), NEW b \in Seq(Words), NEW m, NEW n,
         r = a \o b, Len(a) = m, Len(b) = n
  PROVE  IsOnTop(r, a, m, b, n)
<1> HIDE DEF Words
<1>1. m \in Nat /\ n \in Nat
  OBVIOUS
<1>2. r \in Seq(Words) /\ Len(r) = m + n
  BY ConcatProperties
<1>3. \A k \in 1 .. m + n : r[k] = IF k <= m THEN a[k] ELSE b[k - m]
  BY <1>1, ConcatProperties
<1>4. \A k \in 1 .. m : k \in 1 .. m + n /\ k <= m
  BY <1>1
<1>5. \A k \in 1 .. n : m + k \in 1 .. m + n /\ ~(m + k <= m) /\ m + k - m = k
  BY <1>1
<1>6. \A k \in 1 .. m : r[k] = a[k]
  BY <1>3, <1>4
<1>7. \A k \in 1 .. n : r[m + k] = b[k]
  BY <1>3, <1>5
<1> QED BY <1>2, <1>6, <1>7 DEF IsOnTop

\* The registers do not change with a step.
LEMMA SameBuild ==
  ASSUME build' = build
  PROVE  Registers' = Registers /\ RegisterCount' = RegisterCount
BY DEF Registers, RegisterCount, x64

\* A thread that is switched out, as it is on its stack.
LEMMA SwitchedOutIs ==
  ASSUME MachineIInv, NEW t \in SwitchedOut
  PROVE  /\ t \in All /\ t \notin freed /\ t # Running
         /\ stack[t] \in Seq(Words) /\ Saved(t) = stack[t]
         /\ left[t].height \in Nat /\ Len(stack[t]) = left[t].height + RegisterCount + 1
         /\ BelowContext(t) \in Seq(Words) /\ Len(BelowContext(t)) = left[t].height
         /\ HasContext(t, Saved(t))
         /\ left[t].saved \in [ToSet(Registers) -> Words]
<1>1. /\ t \in All /\ t \notin freed /\ t # Running
      /\ stack[t] \in Seq(Words) /\ left[t].height \in Nat
      /\ left[t].saved \in [ToSet(Registers) -> Words]
      /\ ThreadContext[t] = Len(stack[t]) /\ HasContext(t, stack[t])
  BY DEF SwitchedOut, MachineIInv, MachineTypeOK
<1>2. Saved(t) = stack[t]
  BY <1>1 DEF Saved
<1>3. RegisterCount \in Nat /\ Len(stack[t]) = left[t].height + RegisterCount + 1
  BY <1>1, RegistersAre DEF HasContext
<1>4. ThreadContext[t] - Len(Registers) - 1 = left[t].height
  <2>1. PICK r \in Nat, h \in Nat : r = RegisterCount /\ h = left[t].height
    BY <1>1, <1>3
  <2>2. r = Len(Registers) /\ ThreadContext[t] = h + r + 1
    BY <2>1, <1>1, <1>3 DEF RegisterCount
  <2> QED BY <2>1, <2>2
<1>5. BelowContext(t) = SubSeq(stack[t], 1, left[t].height)
  BY <1>4 DEF BelowContext
<1>6. BelowContext(t) \in Seq(Words) /\ Len(BelowContext(t)) = left[t].height
  <2>1. PICK h \in Nat, s \in Seq(Words) : h = left[t].height /\ s = stack[t]
    BY <1>1
  <2>2. h <= Len(s)
    BY <2>1, <1>3
  <2>3. SubSeq(s, 1, h) \in Seq(Words) /\ Len(SubSeq(s, 1, h)) = h
    BY <2>2
  <2> QED BY <1>5, <2>1, <2>3
<1> QED BY <1>1, <1>2, <1>3, <1>6

\* The pops find what the pushes left: the return address, and in each register
\* what is on the stack s at its place.
LEMMA PopsContext ==
  ASSUME MachineIInv, NEW t \in SwitchedOut, NEW s \in Seq(Words), PopContext(t, s),
         Len(s) = left[t].height + RegisterCount + 1,
         s[left[t].height + 1] = left[t].returnTo
  PROVE  /\ Running' = t /\ returnTo' = left[t].returnTo
         /\ HasContext(t, s) => register' = left[t].saved
<1>1. PICK h \in Nat, n \in Nat : h = left[t].height /\ n = RegisterCount
  BY SwitchedOutIs, RegistersAre
<1>2. Len(Registers) = n /\ Len(s) = h + n + 1 /\ Len(s) - n = h + 1
  BY <1>1 DEF RegisterCount
<1>3. /\ Running' = t /\ returnTo' = s[h + 1]
      /\ register' = [r \in ToSet(Registers) |-> s[h + 1 + CHOOSE k \in 1 .. n : Registers[k] = r]]
  BY <1>2 DEF PopContext
<1>4. ASSUME HasContext(t, s) PROVE register' = left[t].saved
  <2>1. ASSUME NEW r \in ToSet(Registers) PROVE register'[r] = left[t].saved[r]
    <3>1. PICK j \in 1 .. n : Registers[j] = r
      BY <1>1, RegistersAre
    <3>2. (CHOOSE k \in 1 .. n : Registers[k] = r) = j
      BY <3>1, <1>1, RegistersAre
    <3>3. register'[r] = s[h + 1 + j]
      BY <1>3, <3>2
    <3> QED BY <3>1, <3>3, <1>1, <1>4 DEF HasContext
  <2>2. left[t].saved \in [ToSet(Registers) -> Words]
    BY SwitchedOutIs
  <2>3. register' = [r \in ToSet(Registers) |-> register'[r]]
    BY <1>3
  <2> QED BY <2>1, <2>2, <2>3
<1> QED BY <1>1, <1>3, <1>4

\* A thread that is not touched stays on its stack.
LEMMA ContextStays ==
  ASSUME NEW t, HasContext(t, stack[t]), ThreadContext[t] = Len(stack[t]),
         stack'[t] = stack[t], left'[t] = left[t], ThreadContext'[t] = ThreadContext[t],
         build' = build
  PROVE  ThreadContext'[t] = Len(stack'[t]) /\ HasContext(t, stack[t])'
BY SameBuild DEF HasContext

\* The first context.
LEMMA CreateKeeps ==
  ASSUME MachineIInv, NEW t \in Stacks, NEW layout, NEW zeros \in Nat,
         LayoutFits(layout), Create(t, layout, zeros)
  PROVE  MachineIInv'
<1>1. /\ t \in freed /\ t \in All /\ t # Running
      /\ freed' = freed \ {t} /\ UNCHANGED <<build, Running, register, returnTo>>
  BY DEF Create, MachineIInv, MachineTypeOK, All
<1>2. PICK n \in Nat : n = RegisterCount
  BY RegistersAre
<1>3. PICK new : new = NewStack(layout, zeros)
  OBVIOUS
<1>4. /\ new \in Seq(Words) /\ Len(new) = zeros + n + 1
      /\ new[zeros + 1] = <<"InternalStart">>
      /\ \A k \in 1 .. n : new[zeros + 1 + k] = <<"new", Registers[k]>>
  <2>1. PICK z, c : /\ z = [k \in 1 .. zeros |-> <<"zero">>]
                    /\ c = [k \in 1 .. Len(layout) |->
                              IF layout[k] = "RetAddr" THEN <<"InternalStart">>
                              ELSE <<"new", layout[k]>>]
    OBVIOUS
  <2>2. /\ Len(layout) = n + 1 /\ layout[1] = "RetAddr"
        /\ \A k \in 1 .. n + 1 : layout[k] \in RegisterNames \cup {"RetAddr"}
        /\ \A k \in 1 .. n : layout[k + 1] = Registers[k] /\ Registers[k] # "RetAddr"
    BY <1>2, RegistersAre DEF LayoutFits
  <2>3. z \in Seq(Words) /\ Len(z) = zeros
    <3>1. <<"zero">> \in Words
      BY DEF Words
    <3>2. z \in [1 .. zeros -> Words]
      BY <2>1, <3>1
    <3> QED BY <3>2, FunctionIsSeq
  <2>4. c \in Seq(Words) /\ Len(c) = n + 1
    <3>1. \A k \in 1 .. n + 1 : layout[k] # "RetAddr" => <<"new", layout[k]>> \in Words
      BY <2>2 DEF Words
    <3>2. <<"InternalStart">> \in Words
      BY DEF Words
    <3>3. c \in [1 .. n + 1 -> Words]
      BY <2>1, <2>2, <3>1, <3>2
    <3> QED BY <3>3, FunctionIsSeq
  <2>5. c[1] = <<"InternalStart">> /\ \A k \in 1 .. n : c[k + 1] = <<"new", Registers[k]>>
    <3>1. c[1] = <<"InternalStart">>
      BY <2>1, <2>2
    <3>2. ASSUME NEW k \in 1 .. n PROVE c[k + 1] = <<"new", Registers[k]>>
      <4>1. k + 1 \in 1 .. n + 1 /\ layout[k + 1] = Registers[k] /\ layout[k + 1] # "RetAddr"
        BY <2>2
      <4> QED BY <2>1, <2>2, <4>1
    <3> QED BY <3>1, <3>2
  <2>6. new = z \o c
    BY <1>3, <2>1 DEF NewStack
  <2>7. /\ new \in Seq(Words) /\ Len(new) = zeros + (n + 1)
        /\ \A k \in 1 .. n + 1 : new[zeros + k] = c[k]
    <3>1. IsOnTop(new, z, zeros, c, n + 1)
      BY <2>3, <2>4, <2>6, OnTop
    <3> QED BY <3>1 DEF IsOnTop
  <2>8. Len(new) = zeros + n + 1
    BY <2>7
  <2>9. \A k \in 1 .. n : k + 1 \in 1 .. n + 1 /\ zeros + (k + 1) = zeros + 1 + k
    OBVIOUS
  <2>10. 1 \in 1 .. n + 1
    OBVIOUS
  <2> QED BY <2>5, <2>7, <2>8, <2>9, <2>10
<1>5. PICK was : was = [height |-> zeros, returnTo |-> <<"InternalStart">>,
                        saved |-> [r \in ToSet(Registers) |-> <<"new", r>>]]
  OBVIOUS
<1>6. /\ stack' = [stack EXCEPT ![t] = new] /\ left' = [left EXCEPT ![t] = was]
      /\ ThreadContext' = [ThreadContext EXCEPT ![t] = Len(new)]
  BY <1>3, <1>5 DEF Create
<1>7. /\ was \in [height : Nat, returnTo : Words, saved : [ToSet(Registers) -> Words]]
      /\ was.height = zeros /\ was.returnTo = <<"InternalStart">>
      /\ \A k \in 1 .. n : was.saved[Registers[k]] = <<"new", Registers[k]>>
  <2>1. \A r \in ToSet(Registers) : <<"new", r>> \in Words
    BY RegistersAre DEF Words
  <2>2. <<"InternalStart">> \in Words
    BY DEF Words
  <2>3. \A k \in 1 .. n : Registers[k] \in ToSet(Registers)
    BY <1>2, RegistersAre
  <2> QED BY <1>5, <2>1, <2>2, <2>3
<1>8. /\ stack' \in [All -> Seq(Words)] /\ stack'[t] = new
      /\ ThreadContext' \in [All -> Nat] /\ ThreadContext'[t] = Len(new)
      /\ left' \in [All -> [height : Nat, returnTo : Words, saved : [ToSet(Registers) -> Words]]]
      /\ left'[t] = was
      /\ \A u \in All \ {t} : /\ stack'[u] = stack[u] /\ left'[u] = left[u]
                              /\ ThreadContext'[u] = ThreadContext[u]
  <2>1. Len(new) \in Nat
    BY <1>4
  <2> QED BY <1>1, <1>4, <1>6, <1>7, <2>1 DEF MachineIInv, MachineTypeOK
<1>9. MachineTypeOK'
  BY <1>1, <1>8, SameBuild DEF MachineIInv, MachineTypeOK
<1>10. ContextRestored'
  <2>1. Running \in All \ {t}
    BY <1>1 DEF MachineIInv, MachineTypeOK
  <2>2. stack'[Running] = stack[Running] /\ left'[Running] = left[Running]
    BY <1>8, <2>1
  <2> QED BY <1>1, <2>2 DEF MachineIInv, ContextRestored
<1>11. ASSUME NEW u \in SwitchedOut'
       PROVE  ThreadContext'[u] = Len(stack'[u]) /\ HasContext(u, stack[u])'
  <2>1. CASE u = t
    <3>1. HasContext(t, stack[t])'
      <4>1. RegisterCount' = n /\ Registers' = Registers
        BY <1>1, <1>2, SameBuild
      <4>2. stack'[t] = new /\ left'[t].height = zeros
            /\ left'[t].returnTo = <<"InternalStart">> /\ left'[t].saved = was.saved
        BY <1>7, <1>8
      <4>3. Len(stack'[t]) = left'[t].height + RegisterCount' + 1
        BY <4>1, <4>2, <1>4
      <4>4. stack'[t][left'[t].height + 1] = left'[t].returnTo
        BY <4>2, <1>4
      <4>5. \A k \in 1 .. RegisterCount' :
              stack'[t][left'[t].height + 1 + k] = left'[t].saved[Registers'[k]]
        BY <4>1, <4>2, <1>4, <1>7
      <4> QED BY <4>3, <4>4, <4>5 DEF HasContext
    <3> QED BY <2>1, <3>1, <1>8
  <2>2. CASE u # t
    <3>1. u \in SwitchedOut /\ u \in All \ {t}
      BY <1>1, <2>2, <1>11 DEF SwitchedOut
    <3> QED BY <3>1, <1>1, <1>8, ContextStays DEF MachineIInv
  <2> QED BY <2>1, <2>2
<1> QED BY <1>9, <1>10, <1>11 DEF MachineIInv

\* A switch: the running thread's context goes onto its stack.
LEMMA SwitchKeeps ==
  ASSUME MachineIInv, NEW next \in SwitchedOut, Switch(next)
  PROVE  MachineIInv'
<1>1. PICK t : t = Running
  OBVIOUS
<1>2. PICK v \in {0, 1} :
        /\ stack' = [stack EXCEPT ![t] = Pushed(t, v), ![next] = BelowContext(next)]
        /\ ThreadContext' = [ThreadContext EXCEPT ![t] = Len(Pushed(t, v))]
        /\ left' = [left EXCEPT ![t] = [height |-> Len(stack[t]), saved |-> InUse(t, v),
                                        returnTo |-> Value(t, "RetAddr", v)]]
        /\ PopContext(next, Saved(next))
        /\ UNCHANGED <<build, freed>>
  BY <1>1 DEF Switch
<1>3. t \in All /\ t \notin freed /\ next \in All /\ next \notin freed /\ next # t
  BY <1>1, SwitchedOutIs DEF MachineIInv, MachineTypeOK
<1>4. PICK n \in Nat, h \in Nat, s \in Seq(Words) :
        n = RegisterCount /\ h = Len(s) /\ s = stack[t]
  <2>1. stack[t] \in Seq(Words)
    BY <1>3 DEF MachineIInv, MachineTypeOK
  <2>2. Len(stack[t]) \in Nat /\ RegisterCount \in Nat
    BY <2>1, RegistersAre
  <2> QED BY <2>1, <2>2
<1>5. PICK new : new = Pushed(t, v)
  OBVIOUS
<1>6. \A r \in RegisterNames \cup {"RetAddr"} : Value(t, r, v) \in Words
  BY <1>3 DEF Value, Words
<1>7. /\ new \in Seq(Words) /\ Len(new) = h + n + 1
      /\ new[h + 1] = Value(t, "RetAddr", v)
      /\ \A k \in 1 .. n : new[h + 1 + k] = Value(t, Registers[k], v)
  <2>1. PICK a, c : a = <<Value(t, "RetAddr", v)>>
                    /\ c = [k \in 1 .. Len(Registers) |-> Value(t, Registers[k], v)]
    OBVIOUS
  <2>2. c \in Seq(Words) /\ Len(c) = n /\ \A k \in 1 .. n : c[k] = Value(t, Registers[k], v)
    <3>1. Len(Registers) = n /\ \A k \in 1 .. n : Value(t, Registers[k], v) \in Words
      BY <1>4, <1>6, RegistersAre DEF RegisterCount
    <3>2. c \in [1 .. n -> Words]
      BY <2>1, <3>1
    <3>3. c \in Seq(Words) /\ Len(c) = n
      BY <3>2, FunctionIsSeq
    <3> QED BY <3>1, <3>3, <2>1
  <2>3. a \in Seq(Words) /\ Len(a) = 1 /\ a[1] = Value(t, "RetAddr", v)
    BY <2>1, <1>6
  <2>4. new = (s \o a) \o c
    BY <1>4, <1>5, <2>1 DEF Pushed
  <2>5. s \o a \in Seq(Words) /\ Len(s \o a) = h + 1 /\ (s \o a)[h + 1] = a[1]
    <3>1. IsOnTop(s \o a, s, h, a, 1)
      BY <1>4, <2>3, OnTop
    <3>2. 1 \in 1 .. 1
      OBVIOUS
    <3> QED BY <3>1, <3>2 DEF IsOnTop
  <2>6. new \in Seq(Words) /\ Len(new) = h + 1 + n /\ new[h + 1] = (s \o a)[h + 1]
        /\ \A k \in 1 .. n : new[h + 1 + k] = c[k]
    <3>1. IsOnTop(new, s \o a, h + 1, c, n)
      BY <2>2, <2>4, <2>5, OnTop
    <3>2. h \in Nat => h + 1 \in 1 .. h + 1
      OBVIOUS
    <3> QED BY <1>4, <3>1, <3>2 DEF IsOnTop
  <2>7. Len(new) = h + n + 1
    <3>1. h \in Nat /\ n \in Nat => h + 1 + n = h + n + 1
      OBVIOUS
    <3> QED BY <1>4, <2>6, <3>1
  <2> QED BY <2>2, <2>3, <2>5, <2>6, <2>7
<1>8. PICK was : was = [height |-> h, saved |-> InUse(t, v), returnTo |-> Value(t, "RetAddr", v)]
  OBVIOUS
<1>9. /\ was \in [height : Nat, returnTo : Words, saved : [ToSet(Registers) -> Words]]
      /\ was.height = h /\ was.returnTo = Value(t, "RetAddr", v)
      /\ \A k \in 1 .. n : was.saved[Registers[k]] = Value(t, Registers[k], v)
  <2>1. InUse(t, v) \in [ToSet(Registers) -> Words]
    BY <1>6, RegistersAre DEF InUse
  <2>2. \A k \in 1 .. n : InUse(t, v)[Registers[k]] = Value(t, Registers[k], v)
    BY <1>4, RegistersAre DEF InUse
  <2> QED BY <1>6, <1>8, <2>1, <2>2
<1>10. PICK below \in Seq(Words) : below = BelowContext(next) /\ Len(below) = left[next].height
  BY SwitchedOutIs
<1>11. /\ stack' \in [All -> Seq(Words)] /\ stack'[t] = new /\ stack'[next] = below
       /\ \A u \in All \ {t, next} : stack'[u] = stack[u]
  <2>1. stack' = [stack EXCEPT ![t] = new, ![next] = below] /\ stack \in [All -> Seq(Words)]
    BY <1>2, <1>5, <1>10 DEF MachineIInv, MachineTypeOK
  <2> QED BY <1>3, <1>7, <2>1
<1>12. /\ ThreadContext' \in [All -> Nat] /\ ThreadContext'[t] = Len(new)
       /\ left' \in [All -> [height : Nat, returnTo : Words, saved : [ToSet(Registers) -> Words]]]
       /\ left'[t] = was
       /\ \A u \in All \ {t} : left'[u] = left[u] /\ ThreadContext'[u] = ThreadContext[u]
  <2>1. ThreadContext' = [ThreadContext EXCEPT ![t] = Len(new)] /\ Len(new) \in Nat
    BY <1>2, <1>5, <1>7
  <2>2. left' = [left EXCEPT ![t] = was]
    BY <1>2, <1>4, <1>8
  <2> QED BY <1>3, <1>9, <2>1, <2>2 DEF MachineIInv, MachineTypeOK
<1>13. /\ Running' = next /\ returnTo' = left[next].returnTo /\ register' = left[next].saved
  <2>1. HasContext(next, Saved(next)) /\ Saved(next) \in Seq(Words)
    BY SwitchedOutIs
  <2> QED BY <1>2, <2>1, PopsContext DEF HasContext
<1>14. MachineTypeOK'
  BY <1>2, <1>3, <1>11, <1>12, <1>13, SameBuild DEF MachineIInv, MachineTypeOK
<1>15. ContextRestored'
  <2>1. left'[next] = left[next]
    BY <1>3, <1>12
  <2> QED BY <1>2, <1>3, <1>10, <1>11, <1>13, <2>1 DEF ContextRestored
<1>16. ASSUME NEW u \in SwitchedOut'
       PROVE  ThreadContext'[u] = Len(stack'[u]) /\ HasContext(u, stack[u])'
  <2>1. CASE u = t
    <3>1. HasContext(t, stack[t])'
      <4>1. RegisterCount' = n /\ Registers' = Registers
        BY <1>2, <1>4, SameBuild
      <4>2. stack'[t] = new /\ left'[t].height = h
            /\ left'[t].returnTo = Value(t, "RetAddr", v) /\ left'[t].saved = was.saved
        BY <1>9, <1>11, <1>12
      <4>3. Len(stack'[t]) = left'[t].height + RegisterCount' + 1
        BY <4>1, <4>2, <1>7
      <4>4. stack'[t][left'[t].height + 1] = left'[t].returnTo
        BY <4>2, <1>7
      <4>5. \A k \in 1 .. RegisterCount' :
              stack'[t][left'[t].height + 1 + k] = left'[t].saved[Registers'[k]]
        BY <4>1, <4>2, <1>7, <1>9
      <4> QED BY <4>3, <4>4, <4>5 DEF HasContext
    <3> QED BY <2>1, <3>1, <1>11, <1>12
  <2>2. CASE u # t
    <3>1. u \in SwitchedOut /\ u \in All \ {t, next}
      BY <1>1, <1>2, <1>13, <2>2, <1>16 DEF SwitchedOut
    <3> QED BY <3>1, <1>2, <1>11, <1>12, ContextStays DEF MachineIInv
  <2> QED BY <2>1, <2>2
<1> QED BY <1>14, <1>15, <1>16 DEF MachineIInv

\* The end of the running thread, with the stack s popped of the next one.
LEMMA ExitKeeps ==
  ASSUME MachineIInv, NEW next \in SwitchedOut, NEW s \in Seq(Words),
         Exit(next, Running, s),
         Len(s) = left[next].height + RegisterCount + 1,
         s[left[next].height + 1] = left[next].returnTo,
         build # "March64" => HasContext(next, s)
  PROVE  MachineIInv'
<1>1. PICK t : t = Running
  OBVIOUS
<1>2. /\ t # MainStack /\ freed' = freed \cup {t}
      /\ stack' = [stack EXCEPT ![t] = <<>>, ![next] = BelowContext(next)]
      /\ PopContext(next, s) /\ UNCHANGED <<build, ThreadContext, left>>
  BY <1>1 DEF Exit
<1>3. t \in All /\ t \notin freed /\ next \in All /\ next \notin freed /\ next # t
  BY <1>1, SwitchedOutIs DEF MachineIInv, MachineTypeOK
<1>4. /\ Running' = next /\ returnTo' = left[next].returnTo
      /\ build # "March64" => register' = left[next].saved
  BY <1>2, PopsContext
<1>5. PICK below \in Seq(Words) : below = BelowContext(next) /\ Len(below) = left[next].height
  BY SwitchedOutIs
<1>6. /\ stack' \in [All -> Seq(Words)] /\ stack'[next] = below
      /\ \A u \in All \ {t, next} : stack'[u] = stack[u]
  <2>1. stack' = [stack EXCEPT ![t] = <<>>, ![next] = below] /\ stack \in [All -> Seq(Words)]
    BY <1>2, <1>5 DEF MachineIInv, MachineTypeOK
  <2>2. <<>> \in Seq(Words)
    OBVIOUS
  <2> QED BY <1>3, <2>1, <2>2
<1>7. t \in Stacks
  BY <1>2, <1>3 DEF All
<1>8. MachineTypeOK'
  BY <1>2, <1>3, <1>4, <1>6, <1>7, SameBuild DEF MachineIInv, MachineTypeOK
<1>9. ContextRestored'
  BY <1>2, <1>3, <1>4, <1>5, <1>6 DEF ContextRestored
<1>10. ASSUME NEW u \in SwitchedOut'
       PROVE  ThreadContext'[u] = Len(stack'[u]) /\ HasContext(u, stack[u])'
  <2>1. u \in SwitchedOut /\ u \in All \ {t, next}
    BY <1>1, <1>2, <1>4, <1>10 DEF SwitchedOut
  <2> QED BY <2>1, <1>2, <1>6, ContextStays DEF MachineIInv
<1> QED BY <1>8, <1>9, <1>10 DEF MachineIInv

\* The ends of thread without a home space, or with one that is given up after.
LEMMA CleanExitKeeps ==
  ASSUME MachineIInv, NEW next \in SwitchedOut, Exit(next, Running, Saved(next))
  PROVE  MachineIInv'
<1>1. HasContext(next, Saved(next)) /\ Saved(next) \in Seq(Words)
  BY SwitchedOutIs
<1> QED BY <1>1, ExitKeeps DEF HasContext

\* The home space over the context: the return address is below.
LEMMA March64ExitKeeps ==
  ASSUME MachineIInv, NEW next \in SwitchedOut, InternalExit64March(next)
  PROVE  MachineIInv'
<1>1. PICK s \in CalledOn(Saved(next)) : Exit(next, Running, s)
  BY DEF InternalExit64March
<1>2. build = "March64" /\ x64
  BY DEF InternalExit64March, x64
<1>3. PICK w \in Seq(Words) : w = Saved(next) /\ HasContext(next, w)
  BY SwitchedOutIs
<1>4. PICK h \in Nat : h = left[next].height /\ Len(w) = h + 9 /\ w[h + 1] = left[next].returnTo
  <2>1. left[next].height \in Nat /\ RegisterCount = 8
    BY <1>2, SwitchedOutIs, RegistersAre
  <2>2. Len(w) = left[next].height + RegisterCount + 1 /\ w[left[next].height + 1] = left[next].returnTo
    BY <1>3 DEF HasContext
  <2>3. PICK h \in Nat : h = left[next].height
    BY <2>1
  <2>4. Len(w) = h + 9 /\ w[h + 1] = left[next].returnTo
    BY <2>1, <2>2, <2>3
  <2> QED BY <2>3, <2>4
<1>5. s = w \/ s = [k \in 1 .. Len(w) |-> IF k > Len(w) - 4 THEN <<"home">> ELSE w[k]]
  BY <1>1, <1>2, <1>3 DEF CalledOn
<1>6. s \in Seq(Words) /\ Len(s) = Len(w) /\ s[h + 1] = w[h + 1]
  <2>1. CASE s = [k \in 1 .. Len(w) |-> IF k > Len(w) - 4 THEN <<"home">> ELSE w[k]]
    <3>1. <<"home">> \in Words /\ Len(w) \in Nat
      BY DEF Words
    <3>2. s \in [1 .. Len(w) -> Words]
      BY <2>1, <3>1
    <3>3. s \in Seq(Words) /\ Len(s) = Len(w)
      BY <3>1, <3>2, FunctionIsSeq
    <3>4. h + 1 \in 1 .. Len(w) /\ ~(h + 1 > Len(w) - 4)
      BY <1>4
    <3> QED BY <2>1, <3>3, <3>4
  <2> QED BY <2>1, <1>5
<1>7. RegisterCount = 8
  BY <1>2, RegistersAre
<1>8. Len(s) = left[next].height + RegisterCount + 1
  BY <1>4, <1>6, <1>7
<1> QED BY <1>1, <1>2, <1>4, <1>6, <1>8, ExitKeeps

\* The home space below the context: nothing of it is lost.
LEMMA Exit64Keeps ==
  ASSUME MachineIInv, NEW next \in SwitchedOut, InternalExit64(next)
  PROVE  MachineIInv'
<1>1. PICK w \in Seq(Words) : w = Saved(next)
  BY SwitchedOutIs
<1>2. PICK z : z = [k \in 1 .. 4 |-> <<"zero">>]
  OBVIOUS
<1>3. PICK s \in CalledOn(w \o z) : Exit(next, Running, SubSeq(s, 1, Len(w)))
  BY <1>1, <1>2 DEF InternalExit64
<1>4. z \in Seq(Words) /\ Len(z) = 4
  <2>1. <<"zero">> \in Words
    BY DEF Words
  <2>2. 4 \in Nat /\ z = [k \in 1 .. 4 |-> z[k]] /\ \A k \in 1 .. 4 : z[k] \in Words
    BY <1>2, <2>1
  <2> QED BY <2>2, FunctionIsSeq
<1>5. PICK y \in Seq(Words) :
        y = w \o z /\ Len(y) = Len(w) + 4 /\ \A k \in 1 .. Len(w) : y[k] = w[k]
  <2>1. PICK y : y = w \o z
    OBVIOUS
  <2>2. IsOnTop(y, w, Len(w), z, 4)
    BY <1>4, <2>1, OnTop
  <2> QED BY <2>1, <2>2 DEF IsOnTop
<1>6. Len(y) = Len(w) + 4 /\ \A k \in 1 .. Len(w) : y[k] = w[k]
  BY <1>5
<1>7. s = y \/ s = [k \in 1 .. Len(y) |-> IF k > Len(y) - 4 THEN <<"home">> ELSE y[k]]
  BY <1>3, <1>5 DEF CalledOn
<1>8. s \in Seq(Words) /\ Len(s) = Len(y) /\ \A k \in 1 .. Len(w) : s[k] = w[k]
  <2>1. CASE s = [k \in 1 .. Len(y) |-> IF k > Len(y) - 4 THEN <<"home">> ELSE y[k]]
    <3>1. <<"home">> \in Words /\ Len(y) \in Nat /\ Len(w) \in Nat
      BY DEF Words
    <3>2. s \in [1 .. Len(y) -> Words]
      BY <2>1, <3>1
    <3>3. s \in Seq(Words) /\ Len(s) = Len(y)
      BY <3>1, <3>2, FunctionIsSeq
    <3>4. \A k \in 1 .. Len(w) : k \in 1 .. Len(y) /\ ~(k > Len(y) - 4)
      BY <1>6, <3>1
    <3> QED BY <2>1, <3>3, <3>4, <1>6
  <2> QED BY <2>1, <1>6, <1>7
<1>9. SubSeq(s, 1, Len(w)) = w
  <2>1. Len(w) \in Nat /\ Len(w) <= Len(s)
    BY <1>6, <1>8
  <2>2. /\ SubSeq(s, 1, Len(w)) \in Seq(Words) /\ Len(SubSeq(s, 1, Len(w))) = Len(w)
        /\ \A k \in 1 .. Len(w) : SubSeq(s, 1, Len(w))[k] = w[k]
    BY <1>8, <2>1
  <2> QED BY <2>2, SeqEqual
<1> QED BY <1>1, <1>3, <1>9, CleanExitKeeps

\* At the start only the main thread exists.
LEMMA MachineInitHolds == MachineInit => MachineIInv
<1> SUFFICES ASSUME MachineInit PROVE MachineIInv
  OBVIOUS
<1>1. /\ build \in Builds /\ stack = [t \in All |-> <<>>] /\ ThreadContext = [t \in All |-> 0]
      /\ Running = MainStack /\ returnTo = <<"UtRun">> /\ freed = Stacks
      /\ register = [r \in ToSet(Registers) |-> Value(MainStack, r, 0)]
      /\ left = [t \in All |-> [height |-> 0, returnTo |-> <<"UtRun">>, saved |-> register]]
      /\ MainStack \in All /\ MainStack \notin freed
  BY ContextSwitchAssumption DEF MachineInit, All
<1>2. register \in [ToSet(Registers) -> Words]
  <2>1. \A r \in ToSet(Registers) : Value(MainStack, r, 0) \in Words
    BY <1>1, RegistersAre DEF Words, Value
  <2> QED BY <1>1, <2>1
<1>3. stack \in [All -> Seq(Words)]
  <2>1. <<>> \in Seq(Words)
    OBVIOUS
  <2> QED BY <1>1, <2>1
<1>4. left \in [All -> [height : Nat, returnTo : Words, saved : [ToSet(Registers) -> Words]]]
  <2>1. <<"UtRun">> \in Words
    BY DEF Words
  <2> QED BY <1>1, <1>2, <2>1
<1>5. MachineTypeOK
  BY <1>1, <1>3, <1>4 DEF MachineTypeOK
<1>6. ContextRestored
  BY <1>1 DEF ContextRestored
<1>7. SwitchedOut = {}
  BY <1>1 DEF SwitchedOut, All
<1> QED BY <1>5, <1>6, <1>7 DEF MachineIInv

\* The invariant of the stacks holds in every reachable state.
LEMMA MachineInvariantHolds == MachineSpec => []MachineIInv
<1>1. ASSUME MachineIInv, NEW t \in Stacks,
             \/ UtCreate32March(t) \/ UtCreate64March(t) \/ UtCreate32(t) \/ UtCreate64(t)
             \/ UtCreate32Join(t) \/ UtCreate64Join(t) \/ UtCreateInternal(t)
      PROVE  MachineIInv'
  <2>1. \/ x64 /\ Create(t, UTHREAD_CONTEXT_64, 5)
        \/ ~x64 /\ Create(t, UTHREAD_CONTEXT_32, 1)
    BY <1>1 DEF UtCreate32March, UtCreate64March, UtCreate32, UtCreate64, UtCreate32Join,
       UtCreate64Join, UtCreateInternal, x64
  <2>2. 5 \in Nat /\ 1 \in Nat
    OBVIOUS
  <2> QED BY <1>1, <2>1, <2>2, Layouts, CreateKeeps
<1>2. ASSUME MachineIInv, NEW t \in SwitchedOut,
             \/ ContextSwitch32March(t) \/ ContextSwitch64March(t) \/ ContextSwitch32(t)
             \/ ContextSwitch64(t) \/ ContextSwitch32Join(t) \/ ContextSwitchMC(t)
      PROVE  MachineIInv'
  <2>1. Switch(t)
    BY <1>2 DEF ContextSwitch32March, ContextSwitch64March, ContextSwitch32,
       ContextSwitch64, ContextSwitch32Join, ContextSwitchMC
  <2> QED BY <1>2, <2>1, SwitchKeeps
<1>3. ASSUME MachineIInv, NEW t \in SwitchedOut,
             \/ InternalExit32March(t) \/ InternalExit32(t) \/ InternalExit32Join(t)
             \/ InternalExitMC(t)
      PROVE  MachineIInv'
  <2>1. Exit(t, Running, Saved(t))
    BY <1>3 DEF InternalExit32March, InternalExit32, InternalExit32Join, InternalExitMC
  <2> QED BY <1>3, <2>1, CleanExitKeeps
<1>4. ASSUME MachineIInv, MachineNext PROVE MachineIInv'
  BY <1>1, <1>2, <1>3, <1>4, March64ExitKeeps, Exit64Keeps DEF MachineNext
<1>5. ASSUME MachineIInv, UNCHANGED machinevars PROVE MachineIInv'
  <2>1. UNCHANGED <<build, stack, ThreadContext, Running, register, returnTo, freed, left>>
    BY <1>5 DEF machinevars
  <2>2. Registers' = Registers /\ RegisterCount' = RegisterCount
    BY <2>1, SameBuild
  <2> QED BY <1>5, <2>1, <2>2 DEF MachineIInv, MachineTypeOK, ContextRestored, SwitchedOut,
      HasContext
<1> QED BY <1>4, <1>5, MachineInitHolds, PTL DEF MachineSpec

\* Whoever is switched in goes on where it left, with its registers (not in the
\* first 64 bit version) and its stack, for any number of threads and switches.
THEOREM ContextsAreRestored == MachineSpec => []ContextRestored
<1>1. MachineIInv => ContextRestored
  BY DEF MachineIInv
<1> QED BY <1>1, MachineInvariantHolds, PTL
================================================================================
