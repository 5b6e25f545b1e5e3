-------------------------- MODULE ParallelSum_proofs --------------------------
(* Theorems about the thread pool and the parallel sum over it, for every     *)
(* number of workers and parts and every vector.                              *)
EXTENDS ParallelSum, DataLemmas

WorkerPlaces == {"get", "take", "space", "call", "signal", "set", "return"}

\* Type invariant; the units are the parts of the array.
PoolTypeOK ==
  /\ bounded \in BOOLEAN /\ putting \in BOOLEAN
  /\ bqueue \in Seq(Parts)
  /\ hasItems \in Nat /\ hasSpace \in Nat
  /\ worker \in [Workers -> WorkerPlaces]
  /\ unit \in [Workers -> Parts \cup {NoUnit}]

\* The workers that hold a permit for an item, that owe the space of one, and that
\* have a unit.
Takers == {w \in Workers : worker[w] = "take"}
Givers == {w \in Workers : worker[w] = "space"}
Busy == {w \in Workers : worker[w] \in {"space", "call", "signal"}}

\* The inductive invariant: PoolPermitsMatch, and that the unit stays with its
\* worker until it has signaled.
PoolIInv == PoolTypeOK /\ PoolPermitsMatch /\ \A w \in Busy : unit[w] \in Parts

\* The invariant in numbers.
OnePutting == IF putting THEN 1 ELSE 0

\* The permits and the queue in numbers, which the provers reason with.
LEMMA PoolNumbers ==
  ASSUME PoolIInv
  PROVE  /\ PoolTypeOK /\ \A w \in Busy : unit[w] \in Parts
         /\ Len(bqueue) = hasItems + Cardinality(Takers) + OnePutting
         /\ bounded => hasSpace + Len(bqueue) + Cardinality(Givers) = MAXITEMS
BY DEF PoolIInv, PoolPermitsMatch, Takers, Givers, OnePutting

\* The same read from the numbers of the next state.
LEMMA PoolNumbersNext ==
  ASSUME PoolTypeOK', \A w \in Busy' : unit'[w] \in Parts,
         Len(bqueue') = hasItems' + Cardinality(Takers') + OnePutting',
         bounded' => hasSpace' + Len(bqueue') + Cardinality(Givers') = MAXITEMS
  PROVE  PoolIInv'
<1>1. \A w \in Workers : worker'[w] \in {"space", "call"} => unit'[w] # NoUnit
  BY ParallelSumAssumption DEF Busy, Parts
<1> QED BY <1>1 DEF PoolIInv, PoolPermitsMatch, Takers, Givers, OnePutting

\* Sets of workers are finite, and grow and shrink by one.
LEMMA WorkersCounted ==
  ASSUME NEW S \in SUBSET Workers
  PROVE  /\ Cardinality(S) \in Nat
         /\ \A w \in Workers \ S : Cardinality(S \cup {w}) = Cardinality(S) + 1
         /\ \A w \in S : Cardinality(S \ {w}) = Cardinality(S) - 1 /\ Cardinality(S) > 0
<1>1. IsFiniteSet(S)
  BY ThreadPoolAssumption, FS_Subset
<1>2. Cardinality(S) \in Nat
  BY <1>1, FS_CardinalityType
<1>3. ASSUME NEW w \in S PROVE Cardinality(S \ {w}) = Cardinality(S) - 1 /\ Cardinality(S) > 0
  <2>1. Cardinality(S \ {w}) = Cardinality(S) - 1
    BY <1>1, FS_RemoveElement
  <2>2. Cardinality(S) # 0
    BY <1>1, FS_EmptySet
  <2> QED BY <2>1, <2>2, <1>2
<1> QED BY <1>1, <1>2, <1>3, FS_AddElement

\* What the permits and the places of the queue add up with.
LEMMA PoolCounts ==
  ASSUME PoolTypeOK
  PROVE  /\ Cardinality(Takers) \in Nat /\ Cardinality(Givers) \in Nat
         /\ Len(bqueue) \in Nat /\ hasItems \in Nat /\ hasSpace \in Nat
         /\ OnePutting \in Nat
         /\ Takers \in SUBSET Workers /\ Givers \in SUBSET Workers
<1>1. Takers \in SUBSET Workers /\ Givers \in SUBSET Workers
  BY DEF Takers, Givers
<1>2. Len(bqueue) \in Nat
  BY DEF PoolTypeOK
<1>3. OnePutting \in Nat
  BY DEF OnePutting
<1> QED BY <1>1, <1>2, <1>3, WorkersCounted DEF PoolTypeOK

\* A worker goes on.
LEMMA WorkerMoves ==
  ASSUME PoolTypeOK, NEW w \in Workers, NEW from, NEW to \in WorkerPlaces,
         WorkerGoes(w, from, to)
  PROVE  /\ worker' \in [Workers -> WorkerPlaces]
         /\ worker[w] = from /\ worker'[w] = to
         /\ \A v \in Workers \ {w} : worker'[v] = worker[v]
BY DEF PoolTypeOK, WorkerGoes

\* A worker goes on that has nothing to do with the queue before and after.
LEMMA OutsidePoolKeeps ==
  ASSUME PoolIInv, NEW w \in Workers,
         NEW from \in {"get", "call", "signal", "set", "return"},
         NEW to \in {"get", "call", "signal", "set", "return"},
         WorkerGoes(w, from, to), UNCHANGED queuevars,
         unit' \in [Workers -> Parts \cup {NoUnit}],
         \A v \in Workers \ {w} : unit'[v] = unit[v],
         to \in {"call", "signal"} => unit'[w] \in Parts
  PROVE  PoolIInv'
<1>1. /\ worker' \in [Workers -> WorkerPlaces] /\ worker[w] = from /\ worker'[w] = to
      /\ \A v \in Workers \ {w} : worker'[v] = worker[v]
  BY WorkerMoves DEF PoolIInv, WorkerPlaces
<1>2. Takers' = Takers /\ Givers' = Givers
  BY <1>1 DEF Takers, Givers
<1>3. \A v \in Busy' : unit'[v] \in Parts
  BY <1>1 DEF Busy, PoolIInv
<1>4. UNCHANGED <<bounded, bqueue, hasItems, hasSpace, putting>>
  BY DEF queuevars
<1>5. PoolTypeOK'
  BY <1>1, <1>4 DEF PoolIInv, PoolTypeOK
<1> QED
  BY <1>2, <1>3, <1>4, <1>5, PoolNumbers, PoolNumbersNext DEF OnePutting

\* A unit is put: space is taken in the bounded queue, the permit is not there yet.
LEMMA PutKeeps ==
  ASSUME PoolIInv, NEW i \in Parts, TpQueueItem(i)
  PROVE  PoolIInv'
<1>1. /\ ~putting /\ putting' = TRUE /\ bqueue' = Append(bqueue, i)
      /\ UNCHANGED <<bounded, hasItems, worker, unit>>
      /\ \/ ~bounded /\ hasSpace' = hasSpace
         \/ bounded /\ hasSpace > 0 /\ hasSpace' = hasSpace - 1
  BY DEF TpQueueItem, BQ_Put, BQ_Put0, BQ_Insert
<1>2. /\ bqueue \in Seq(Parts) /\ Len(bqueue) \in Nat /\ hasSpace \in Nat /\ hasItems \in Nat
      /\ Cardinality(Takers) \in Nat /\ Cardinality(Givers) \in Nat
  BY PoolCounts DEF PoolIInv, PoolTypeOK
<1>3. bqueue' \in Seq(Parts) /\ Len(bqueue') = Len(bqueue) + 1
  BY <1>1, <1>2
<1>4. Takers' = Takers /\ Givers' = Givers /\ Busy' = Busy
  BY <1>1 DEF Takers, Givers, Busy
<1>5. PoolTypeOK' /\ \A w \in Busy' : unit'[w] \in Parts
  BY <1>1, <1>2, <1>3, <1>4 DEF PoolIInv, PoolTypeOK
<1>6. OnePutting = 0 /\ OnePutting' = 1
  BY <1>1 DEF OnePutting
<1>7. Len(bqueue') = hasItems' + Cardinality(Takers') + OnePutting'
  BY <1>1, <1>2, <1>3, <1>4, <1>6, PoolNumbers
<1>8. bounded' => hasSpace' + Len(bqueue') + Cardinality(Givers') = MAXITEMS
  BY <1>1, <1>2, <1>3, <1>4, PoolNumbers
<1> QED BY <1>5, <1>7, <1>8, PoolNumbersNext

\* Its permit comes.
LEMMA ReleasedKeeps ==
  ASSUME PoolIInv, BQ_Released
  PROVE  PoolIInv'
<1>1. /\ putting /\ putting' = FALSE /\ hasItems' = hasItems + 1
      /\ UNCHANGED <<bounded, bqueue, hasSpace, worker, unit>>
  BY DEF BQ_Released
<1>2. /\ Len(bqueue) \in Nat /\ hasItems \in Nat /\ Cardinality(Takers) \in Nat
  BY PoolCounts DEF PoolIInv
<1>4. Takers' = Takers /\ Givers' = Givers /\ Busy' = Busy
  BY <1>1 DEF Takers, Givers, Busy
<1>5. PoolTypeOK' /\ \A w \in Busy' : unit'[w] \in Parts
  <2>1. hasItems' \in Nat
    BY <1>1, <1>2
  <2>2. putting' \in BOOLEAN
    BY <1>1
  <2> QED BY <1>1, <1>4, <2>1, <2>2 DEF PoolIInv, PoolTypeOK
<1>6. OnePutting = 1 /\ OnePutting' = 0
  BY <1>1 DEF OnePutting
<1>7. Len(bqueue') = hasItems' + Cardinality(Takers') + OnePutting'
  BY <1>1, <1>2, <1>4, <1>6, PoolNumbers
<1> QED BY <1>1, <1>4, <1>5, <1>7, PoolNumbers, PoolNumbersNext

\* A worker takes a permit.
LEMMA PermitTakenKeeps ==
  ASSUME PoolIInv, NEW w \in Workers, BQ_Wait(w)
  PROVE  PoolIInv'
<1>1. /\ worker' \in [Workers -> WorkerPlaces] /\ worker[w] = "get" /\ worker'[w] = "take"
      /\ \A v \in Workers \ {w} : worker'[v] = worker[v]
      /\ hasItems > 0 /\ hasItems' = hasItems - 1
      /\ UNCHANGED <<bounded, bqueue, hasSpace, putting, unit>>
  BY WorkerMoves DEF PoolIInv, WorkerPlaces, BQ_Wait
<1>2. /\ w \notin Takers /\ Takers' = Takers \cup {w} /\ Givers' = Givers /\ Busy' = Busy
  BY <1>1 DEF Takers, Givers, Busy
<1>3. /\ Len(bqueue) \in Nat /\ hasItems \in Nat /\ Cardinality(Takers) \in Nat
      /\ Cardinality(Takers') = Cardinality(Takers) + 1 /\ OnePutting \in Nat
  <2>1. PoolTypeOK
    BY DEF PoolIInv
  <2>2. Cardinality(Takers \cup {w}) = Cardinality(Takers) + 1
    BY <1>1, <1>2, <2>1, PoolCounts, WorkersCounted
  <2> QED BY <1>2, <2>1, <2>2, PoolCounts
<1>4. PoolTypeOK' /\ \A v \in Busy' : unit'[v] \in Parts
  <2>1. hasItems' \in Nat /\ hasSpace' \in Nat
    BY <1>1, <1>3 DEF PoolIInv, PoolTypeOK
  <2> QED BY <1>1, <1>2, <2>1 DEF PoolIInv, PoolTypeOK
<1>5. Len(bqueue') = hasItems' + Cardinality(Takers') + OnePutting'
  <2>1. OnePutting' = OnePutting
    BY <1>1 DEF OnePutting
  <2> QED BY <1>1, <1>3, <2>1, PoolNumbers
<1> QED BY <1>1, <1>2, <1>4, <1>5, PoolNumbers, PoolNumbersNext

\* With it the worker finds a unit.
LEMMA UnitTakenKeeps ==
  ASSUME PoolIInv, NEW w \in Workers, BQ_Get(w)
  PROVE  /\ PoolIInv'
         /\ bqueue # <<>> /\ bqueue' = Tail(bqueue)
         /\ worker[w] = "take" /\ worker'[w] \in {"space", "call"}
         /\ unit' = [unit EXCEPT ![w] = Head(bqueue)]
<1>1. /\ worker' \in [Workers -> WorkerPlaces] /\ worker[w] = "take"
      /\ worker'[w] = (IF bounded THEN "space" ELSE "call")
      /\ \A v \in Workers \ {w} : worker'[v] = worker[v]
      /\ UNCHANGED <<bounded, hasItems, hasSpace, putting>>
  BY WorkerMoves DEF PoolIInv, WorkerPlaces, BQ_Get
<1>2. /\ w \in Takers /\ Takers' = Takers \ {w}
      /\ w \notin Givers /\ Givers' = IF bounded THEN Givers \cup {w} ELSE Givers
      /\ Busy' = Busy \cup {w}
  BY <1>1 DEF Takers, Givers, Busy
<1>3. /\ Len(bqueue) \in Nat /\ hasItems \in Nat /\ Cardinality(Takers) \in Nat
      /\ hasSpace \in Nat /\ Cardinality(Givers) \in Nat
      /\ Cardinality(Takers) > 0 /\ Cardinality(Takers') = Cardinality(Takers) - 1
      /\ bounded => Cardinality(Givers') = Cardinality(Givers) + 1
      /\ OnePutting \in Nat
  <2>1. PoolTypeOK
    BY DEF PoolIInv
  <2>2. Cardinality(Takers \ {w}) = Cardinality(Takers) - 1 /\ Cardinality(Takers) > 0
    BY <1>2, <2>1, PoolCounts, WorkersCounted
  <2>3. bounded => Cardinality(Givers \cup {w}) = Cardinality(Givers) + 1
    BY <1>1, <1>2, <2>1, PoolCounts, WorkersCounted
  <2> QED BY <1>2, <2>1, <2>2, <2>3, PoolCounts
<1>4. Len(bqueue) > 0
  BY <1>3, PoolNumbers
<1>5. bqueue \in Seq(Parts) /\ bqueue # <<>>
  BY <1>4, EmptySeq DEF PoolIInv, PoolTypeOK
<1>6. bqueue' = Tail(bqueue) /\ unit' = [unit EXCEPT ![w] = Head(bqueue)]
  BY <1>5 DEF BQ_Get
<1>7. /\ bqueue' \in Seq(Parts) /\ Len(bqueue') = Len(bqueue) - 1 /\ Head(bqueue) \in Parts
  BY <1>5, <1>6, HeadTailProperties
<1>8. /\ unit' \in [Workers -> Parts \cup {NoUnit}] /\ unit'[w] = Head(bqueue)
      /\ \A v \in Workers \ {w} : unit'[v] = unit[v]
  BY <1>6, <1>7 DEF PoolIInv, PoolTypeOK
<1>9. PoolTypeOK' /\ \A v \in Busy' : unit'[v] \in Parts
  <2>1. PoolTypeOK'
    BY <1>1, <1>7, <1>8 DEF PoolIInv, PoolTypeOK
  <2>2. \A v \in Busy' : unit'[v] \in Parts
    BY <1>2, <1>7, <1>8 DEF PoolIInv, Busy
  <2> QED BY <2>1, <2>2
<1>10. Len(bqueue') = hasItems' + Cardinality(Takers') + OnePutting'
  <2>1. OnePutting' = OnePutting
    BY <1>1 DEF OnePutting
  <2> QED BY <1>1, <1>3, <1>7, <2>1, PoolNumbers
<1>11. bounded' => hasSpace' + Len(bqueue') + Cardinality(Givers') = MAXITEMS
  BY <1>1, <1>3, <1>7, PoolNumbers
<1> QED BY <1>1, <1>5, <1>6, <1>9, <1>10, <1>11, PoolNumbersNext

\* It gives the space back.
LEMMA SpaceGivenKeeps ==
  ASSUME PoolIInv, NEW w \in Workers, BQ_Get0(w)
  PROVE  PoolIInv'
<1>1. /\ worker' \in [Workers -> WorkerPlaces] /\ worker[w] = "space" /\ worker'[w] = "call"
      /\ \A v \in Workers \ {w} : worker'[v] = worker[v]
      /\ hasSpace' = hasSpace + 1
      /\ UNCHANGED <<bounded, bqueue, hasItems, putting, unit>>
  BY WorkerMoves DEF PoolIInv, WorkerPlaces, BQ_Get0
<1>2. /\ w \in Givers /\ Givers' = Givers \ {w} /\ Takers' = Takers /\ Busy' = Busy
  BY <1>1 DEF Takers, Givers, Busy
<1>3. /\ Len(bqueue) \in Nat /\ hasSpace \in Nat /\ Cardinality(Givers) \in Nat
      /\ Cardinality(Givers') = Cardinality(Givers) - 1
  <2>1. PoolTypeOK
    BY DEF PoolIInv
  <2>2. Cardinality(Givers \ {w}) = Cardinality(Givers) - 1
    BY <1>1, <1>2, <2>1, PoolCounts, WorkersCounted
  <2> QED BY <1>2, <2>1, <2>2, PoolCounts
<1>4. PoolTypeOK' /\ \A v \in Busy' : unit'[v] \in Parts
  <2>1. hasSpace' \in Nat
    BY <1>1, <1>3
  <2> QED BY <1>1, <1>2, <2>1 DEF PoolIInv, PoolTypeOK
<1>5. bounded' => hasSpace' + Len(bqueue') + Cardinality(Givers') = MAXITEMS
  BY <1>1, <1>3, PoolNumbers
<1>6. OnePutting' = OnePutting
  BY <1>1 DEF OnePutting
<1> QED BY <1>1, <1>2, <1>4, <1>5, <1>6, PoolNumbers, PoolNumbersNext

-----------------------------------------------------------------------------
(* The parallel sums.                                                         *)

\* Type invariant.
SumTypeOK ==
  /\ size \in Nat /\ part \in 0 .. nParts
  /\ adding \in {"test", "start", "latched", "sum"}
  /\ ctx \in [Parts -> [start : Int, end : Int, partialResult : Int]]
  /\ partialWorkDone \in [Parts -> BOOLEAN]
  /\ cdl \in [Counter : Int, WorkDone : BOOLEAN]
  /\ total \in Int /\ results \in Seq(Int) /\ system \in SUBSET Parts

EqualPartsOnly == adder \in {"ParallelAdder", "ParallelAdderTP"}

\* The part of the array that part i should be, and that its sum is known.
EndOf(i) == IF i < nParts - 1 \/ EqualPartsOnly THEN (i + 1) * partSize ELSE size
Ready(i) == ctx[i].start = i * partSize /\ ctx[i].end = EndOf(i)
Summed(i) == Ready(i) /\ ctx[i].partialResult = ctx[i].end - ctx[i].start

\* The parts handed over and not yet signaled, and those to be handed over.
Held == {unit[w] : w \in Busy}
Pending == system \cup Range(bqueue) \cup Held
ToHand == {i \in Parts : adding = "start" /\ i >= part}
Missing == Pending \cup ToHand

\* Each of them is in one place, and none is left when a call has returned.
PendingOnce ==
  /\ IsInjective(bqueue) /\ system \cap Range(bqueue) = {}
  /\ \A w \in Busy : unit[w] \notin system \cup Range(bqueue)
  /\ \A w, v \in Busy : unit[w] = unit[v] => w = v
  /\ Pending \cap ToHand = {}
  /\ adding = "test" => Pending = {}

PendingReady ==
  /\ \A i \in Pending : Ready(i)
  /\ \A w \in Busy : worker[w] = "signal" => Summed(unit[w])

\* A signaled event is that of a part whose sum is known.
EventsTell ==
  /\ \A i \in Parts : partialWorkDone[i] => Summed(i) /\ i \notin Pending
  /\ adding = "sum" => \A i \in Parts :
       i < part \/ adder = "ParallelSumTPMW" => partialWorkDone[i]

\* The latch counts the parts whose sum is not known, and is open when all are.
LatchTells ==
  /\ adding # "test" => /\ cdl.Counter = Cardinality(Missing)
                        /\ \A i \in Parts \ Missing : Summed(i)
  /\ cdl.WorkDone \/ (\E w \in Workers : worker[w] = "set") =>
       adding # "test" /\ Missing = {}
  /\ adding = "sum" => Missing = {}

\* The total of the parts added so far is the end of the last of them.
TotalSoFar ==
  /\ adding \in {"start", "latched"} => total = 0
  /\ adding = "sum" => total = IF part = 0 THEN 0 ELSE EndOf(part - 1)

\* All this holds of every call, but with a latch only of the first.
Guarded == ~WithLatch \/ results = <<>>
CallIInv ==
  /\ PendingOnce /\ PendingReady /\ TotalSoFar
  /\ IF WithLatch THEN LatchTells ELSE EventsTell

\* The inductive invariant.
SumIInv == PoolIInv /\ SumTypeOK /\ SumIsComplete /\ (Guarded => CallIInv)

\* The division of the array: the parts do not go beyond its end, and reach it if
\* they divide it evenly.
LEMMA PartSizes ==
  ASSUME size \in Nat
  PROVE  /\ partSize \in Nat /\ 0 * partSize = 0
         /\ \A i \in Parts : /\ i * partSize \in Nat /\ (i + 1) * partSize \in Nat
                             /\ (i + 1) * partSize <= size
         /\ size % nParts = 0 => nParts * partSize = size
<1>1. nParts \in Nat \ {0}
  BY ParallelSumAssumption
<1>2. /\ partSize \in Nat /\ size % nParts \in Nat
      /\ size = nParts * partSize + (size % nParts)
  BY <1>1 DEF partSize
<1>3. ASSUME NEW i \in Parts
      PROVE  /\ i * partSize \in Nat /\ (i + 1) * partSize \in Nat
             /\ (i + 1) * partSize <= size
  <2>1. PICK p \in Nat : p = partSize
    BY <1>2
  <2>2. i \in Nat /\ i + 1 <= nParts
    BY <1>1 DEF Parts
  <2>3. i * p \in Nat /\ (i + 1) * p \in Nat /\ nParts * p \in Nat
    BY <1>1, <2>2
  <2>4. (i + 1) * p <= nParts * p
    BY <1>1, <2>2
  <2>5. nParts * p <= size
    <3>1. PICK r \in Nat : r = size % nParts
      BY <1>2
    <3>2. size = nParts * p + r
      BY <1>2, <2>1, <3>1
    <3> QED BY <2>3, <3>1, <3>2
  <2>6. (i + 1) * p <= size
    BY <2>3, <2>4, <2>5
  <2> QED BY <2>1, <2>3, <2>6
<1>4. 0 * partSize = 0
  BY <1>2
<1>5. size % nParts = 0 => nParts * partSize = size
  BY <1>1, <1>2
<1> QED BY <1>2, <1>3, <1>4, <1>5

\* Where the parts of the vector end: the last one, of unequal parts, with the vector.
LEMMA EndsKnown ==
  ASSUME size \in Nat
  PROVE  /\ \A i \in Parts : EndOf(i) \in Nat
         /\ \A i \in Parts : i + 1 < nParts => EndOf(i) = (i + 1) * partSize
         /\ ~EqualPartsOnly => EndOf(nParts - 1) = size
         /\ EqualPartsOnly => EndOf(nParts - 1) = nParts * partSize
<1>1. nParts \in Nat \ {0}
  BY ParallelSumAssumption
<1>2. ASSUME NEW i \in Parts PROVE EndOf(i) \in Nat
  BY PartSizes DEF EndOf
<1>3. ASSUME NEW i \in Parts, i + 1 < nParts PROVE EndOf(i) = (i + 1) * partSize
  <2>1. i < nParts - 1
    BY <1>1, <1>3 DEF Parts
  <2> QED BY <2>1 DEF EndOf
<1>4. ~(nParts - 1 < nParts - 1) /\ nParts - 1 + 1 = nParts
  BY <1>1
<1> QED BY <1>2, <1>3, <1>4 DEF EndOf

\* A part that nobody touches stays as it is.
LEMMA PartSame ==
  ASSUME NEW i \in Parts, ctx'[i] = ctx[i], UNCHANGED <<adder, size>>
  PROVE  (Ready(i)' <=> Ready(i)) /\ (Summed(i)' <=> Summed(i))
BY DEF Ready, Summed, EndOf, EqualPartsOnly, partSize

\* Results are only added.
LEMMA ResultsSame ==
  ASSUME SumIInv, UNCHANGED <<adder, size, results>>
  PROVE  SumIsComplete' /\ (Guarded' <=> Guarded) /\ (WithLatch' <=> WithLatch)
BY DEF SumIInv, SumIsComplete, Guarded, WithLatch

\* Steps that concern no part: of workers without a unit, of the queue.
LEMMA QuietKeeps ==
  ASSUME SumIInv, PoolIInv', UNCHANGED <<sumvars, bqueue>>,
         Busy' = Busy,
         \A v \in Busy : unit'[v] = unit[v] /\ (worker'[v] = "signal" => worker[v] = "signal"),
         \A v \in Workers : worker'[v] = "set" => worker[v] = "set"
  PROVE  SumIInv'
<1>1. /\ UNCHANGED <<adder, size, adding, part, ctx, partialWorkDone, cdl, total, results,
                     system>>
      /\ UNCHANGED bqueue
  BY DEF sumvars
<1>2. Held' = Held /\ Pending' = Pending /\ ToHand' = ToHand /\ Missing' = Missing
  BY <1>1 DEF Held, Pending, ToHand, Missing
<1>3. SumTypeOK'
  BY <1>1 DEF SumIInv, SumTypeOK
<1>4. \A i \in Parts : (Ready(i)' <=> Ready(i)) /\ (Summed(i)' <=> Summed(i))
  BY <1>1, PartSame
<1>5. Pending \in SUBSET Parts /\ \A v \in Busy : unit[v] \in Parts
  BY DEF SumIInv, PoolIInv, PoolTypeOK, SumTypeOK, Pending, Held, Range
<1>6. ASSUME Guarded PROVE CallIInv'
  <2>1. CallIInv
    BY <1>6 DEF SumIInv
  <2>2. PendingOnce'
    BY <1>1, <1>2, <2>1 DEF CallIInv, PendingOnce
  <2>3. PendingReady'
    BY <1>1, <1>2, <1>4, <1>5, <2>1 DEF CallIInv, PendingReady
  <2>4. TotalSoFar'
    BY <1>1, <2>1 DEF CallIInv, TotalSoFar, EndOf, EqualPartsOnly, partSize
  <2>5. WithLatch => LatchTells'
    BY <1>1, <1>2, <1>4, <2>1 DEF CallIInv, LatchTells
  <2>6. ~WithLatch => EventsTell'
    BY <1>1, <1>2, <1>4, <2>1 DEF CallIInv, EventsTell
  <2> QED BY <1>1, <2>2, <2>3, <2>4, <2>5, <2>6 DEF CallIInv, WithLatch
<1> QED BY <1>1, <1>3, <1>6, ResultsSame DEF SumIInv

\* A thread of the system starts with a part that was handed over.
LEMMA SystemStartsKeeps ==
  ASSUME SumIInv, NEW w \in Workers, SystemStarts(w)
  PROVE  SumIInv'
<1>1. PICK i \in system : unit' = [unit EXCEPT ![w] = i] /\ system' = system \ {i}
  BY DEF SystemStarts
<1>2. /\ worker' \in [Workers -> WorkerPlaces] /\ worker[w] = "get" /\ worker'[w] = "call"
      /\ \A v \in Workers \ {w} : worker'[v] = worker[v]
      /\ UNCHANGED <<adder, size, adding, part, ctx, partialWorkDone, cdl, total, results>>
      /\ UNCHANGED queuevars /\ UNCHANGED bqueue
  BY WorkerMoves DEF SumIInv, PoolIInv, WorkerPlaces, SystemStarts, queuevars
<1>3. /\ i \in Parts /\ unit' \in [Workers -> Parts \cup {NoUnit}] /\ unit'[w] = i
      /\ \A v \in Workers \ {w} : unit'[v] = unit[v]
  BY <1>1 DEF SumIInv, SumTypeOK, PoolIInv, PoolTypeOK
<1>4. PoolIInv'
  BY <1>1, <1>2, <1>3, OutsidePoolKeeps DEF SumIInv, SystemStarts
<1>5. Busy' = Busy \cup {w} /\ w \notin Busy
  BY <1>2 DEF Busy
<1>6. Held' = Held \cup {i} /\ i \in Pending
  BY <1>1, <1>3, <1>5 DEF Held, Pending
<1>7. Pending' = Pending /\ ToHand' = ToHand /\ Missing' = Missing
  <2>1. Pending' = Pending
    BY <1>1, <1>2, <1>6 DEF Pending
  <2>2. ToHand' = ToHand
    BY <1>2 DEF ToHand
  <2> QED BY <2>1, <2>2 DEF Missing
<1>8. SumTypeOK'
  BY <1>1, <1>2 DEF SumIInv, SumTypeOK
<1>9. \A j \in Parts : (Ready(j)' <=> Ready(j)) /\ (Summed(j)' <=> Summed(j))
  BY <1>2, PartSame
<1>10. Pending \in SUBSET Parts /\ \A v \in Busy : unit[v] \in Parts
  BY DEF SumIInv, PoolIInv, PoolTypeOK, SumTypeOK, Pending, Held, Range
<1>11. ASSUME Guarded PROVE CallIInv'
  <2>1. CallIInv
    BY <1>11 DEF SumIInv
  <2>2. PendingOnce'
    <3>1. PendingOnce
      BY <2>1 DEF CallIInv
    <3>2. \A v \in Busy' : unit'[v] \notin system' \cup Range(bqueue)
      BY <1>1, <1>3, <1>5, <3>1 DEF PendingOnce
    <3>3. \A u, v \in Busy' : unit'[u] = unit'[v] => u = v
      BY <1>1, <1>3, <1>5, <3>1 DEF PendingOnce
    <3>4. system' \cap Range(bqueue) = {}
      BY <1>1, <3>1 DEF PendingOnce
    <3> QED BY <1>2, <1>7, <3>1, <3>2, <3>3, <3>4 DEF PendingOnce
  <2>3. PendingReady'
    <3>1. ASSUME NEW v \in Busy', worker'[v] = "signal" PROVE Summed(unit[v])'
      <4>1. v \in Busy /\ worker[v] = "signal" /\ unit'[v] = unit[v] /\ unit[v] \in Parts
        BY <3>1, <1>2, <1>3, <1>5, <1>10 DEF Busy
      <4> QED BY <4>1, <1>9, <2>1 DEF CallIInv, PendingReady
    <3>2. \A j \in Pending : Ready(j)'
      BY <1>9, <1>10, <2>1 DEF CallIInv, PendingReady
    <3> QED BY <3>1, <3>2, <1>7 DEF PendingReady
  <2>4. TotalSoFar'
    BY <1>2, <2>1 DEF CallIInv, TotalSoFar, EndOf, EqualPartsOnly, partSize
  <2>5. WithLatch => LatchTells'
    BY <1>2, <1>7, <1>9, <2>1 DEF CallIInv, LatchTells
  <2>6. ~WithLatch => EventsTell'
    BY <1>2, <1>7, <1>9, <2>1 DEF CallIInv, EventsTell
  <2> QED BY <1>2, <2>2, <2>3, <2>4, <2>5, <2>6 DEF CallIInv, WithLatch
<1> QED BY <1>2, <1>4, <1>8, <1>11, ResultsSame DEF SumIInv

\* A worker takes a part from the queue.
LEMMA QueueGetKeeps ==
  ASSUME SumIInv, NEW w \in Workers, BQ_Get(w), UNCHANGED sumvars
  PROVE  SumIInv'
<1>0. PICK i : i = Head(bqueue)
  OBVIOUS
<1>1. /\ PoolIInv'
      /\ bqueue # <<>> /\ bqueue' = Tail(bqueue)
      /\ worker[w] = "take" /\ worker'[w] \in {"space", "call"}
      /\ unit' = [unit EXCEPT ![w] = i]
  BY <1>0, UnitTakenKeeps DEF SumIInv
<1>2. /\ \A v \in Workers \ {w} : worker'[v] = worker[v]
      /\ UNCHANGED <<adder, size, adding, part, ctx, partialWorkDone, cdl, total, results,
                     system>>
  BY DEF BQ_Get, WorkerGoes, SumIInv, PoolIInv, PoolTypeOK, sumvars
<1>3. /\ unit'[w] = i
      /\ \A v \in Workers \ {w} : unit'[v] = unit[v]
  BY <1>1 DEF SumIInv, PoolIInv, PoolTypeOK
<1>5. Busy' = Busy \cup {w} /\ w \notin Busy
  BY <1>1, <1>2 DEF Busy
<1>6. Held' = Held \cup {i} /\ ToHand' = ToHand
  <2>1. Held' = Held \cup {i}
    BY <1>1, <1>3, <1>5 DEF Held
  <2>2. ToHand' = ToHand
    BY <1>2 DEF ToHand
  <2> QED BY <2>1, <2>2
<1>8. SumTypeOK'
  BY <1>2 DEF SumIInv, SumTypeOK
<1>9. \A j \in Parts : (Ready(j)' <=> Ready(j)) /\ (Summed(j)' <=> Summed(j))
  BY <1>2, PartSame
<1>10. Pending \in SUBSET Parts /\ \A v \in Busy : unit[v] \in Parts
  BY DEF SumIInv, PoolIInv, PoolTypeOK, SumTypeOK, Pending, Held, Range
<1>11. ASSUME Guarded PROVE CallIInv'
  <2>1. CallIInv /\ PendingOnce
    BY <1>11 DEF SumIInv, CallIInv
  <2>2. /\ i \in Range(bqueue) /\ Range(bqueue') = Range(bqueue) \ {i}
        /\ IsInjective(bqueue') /\ i \in Parts
    BY <1>0, <1>1, <2>1, RemoveHead DEF PendingOnce, SumIInv, PoolIInv, PoolTypeOK
  <2>3. Pending' = Pending /\ Missing' = Missing
    BY <1>2, <1>6, <2>2 DEF Pending, Missing
  <2>4. PendingOnce'
    <3>0. ASSUME NEW v \in Busy
          PROVE  unit'[v] = unit[v] /\ unit[v] \notin system \cup Range(bqueue)
      BY <3>0, <1>3, <1>5, <2>1 DEF PendingOnce, Busy
    <3>1. \A v \in Busy' : unit'[v] \notin system \cup Range(bqueue')
      BY <3>0, <1>3, <1>5, <2>1, <2>2 DEF PendingOnce
    <3>2. \A u, v \in Busy' : unit'[u] = unit'[v] => u = v
      BY <3>0, <1>3, <1>5, <2>1, <2>2 DEF PendingOnce
    <3>3. system \cap Range(bqueue') = {}
      BY <2>1, <2>2 DEF PendingOnce
    <3> QED BY <1>2, <1>6, <2>1, <2>2, <2>3, <3>1, <3>2, <3>3 DEF PendingOnce
  <2>5. PendingReady'
    <3>1. ASSUME NEW v \in Busy', worker'[v] = "signal" PROVE Summed(unit[v])'
      <4>1. v \in Busy /\ worker[v] = "signal" /\ unit'[v] = unit[v] /\ unit[v] \in Parts
        BY <3>1, <1>1, <1>2, <1>3, <1>5, <1>10 DEF Busy
      <4> QED BY <4>1, <1>9, <2>1 DEF CallIInv, PendingReady
    <3>2. \A j \in Pending : Ready(j)'
      BY <1>9, <1>10, <2>1 DEF CallIInv, PendingReady
    <3> QED BY <3>1, <3>2, <2>3 DEF PendingReady
  <2>6. TotalSoFar'
    BY <1>2, <2>1 DEF CallIInv, TotalSoFar, EndOf, EqualPartsOnly, partSize
  <2>7. WithLatch => LatchTells'
    BY <1>1, <1>2, <2>3, <1>9, <2>1 DEF CallIInv, LatchTells
  <2>8. ~WithLatch => EventsTell'
    BY <1>2, <2>3, <1>9, <2>1 DEF CallIInv, EventsTell
  <2> QED BY <1>2, <2>4, <2>5, <2>6, <2>7, <2>8 DEF CallIInv, WithLatch
<1> QED BY <1>1, <1>2, <1>8, <1>11, ResultsSame DEF SumIInv

\* A worker knows the sum of its part.
LEMMA WorkerFuncKeeps ==
  ASSUME SumIInv, NEW w \in Workers, WorkerFunc(w)
  PROVE  SumIInv'
<1>0. PICK i : i = unit[w]
  OBVIOUS
<1>1. /\ worker' \in [Workers -> WorkerPlaces] /\ worker[w] = "call" /\ worker'[w] = "signal"
      /\ \A v \in Workers \ {w} : worker'[v] = worker[v]
      /\ ctx' = [ctx EXCEPT ![i].partialResult = ctx[i].end - ctx[i].start]
      /\ UNCHANGED <<adder, size, adding, part, partialWorkDone, cdl, total, results, system>>
      /\ UNCHANGED queuevars /\ UNCHANGED <<bqueue, unit>>
  BY <1>0, WorkerMoves DEF SumIInv, PoolIInv, WorkerPlaces, WorkerFunc, queuevars
<1>2. w \in Busy /\ Busy' = Busy /\ i \in Parts
  BY <1>0, <1>1 DEF Busy, SumIInv, PoolIInv
<1>3. PoolIInv'
  BY <1>1, <1>2, OutsidePoolKeeps DEF SumIInv, WorkerFunc, PoolIInv, PoolTypeOK
<1>4. /\ ctx' \in [Parts -> [start : Int, end : Int, partialResult : Int]]
      /\ ctx'[i].start = ctx[i].start /\ ctx'[i].end = ctx[i].end
      /\ ctx'[i].partialResult = ctx[i].end - ctx[i].start
      /\ \A j \in Parts \ {i} : ctx'[j] = ctx[j]
  <2>1. ctx \in [Parts -> [start : Int, end : Int, partialResult : Int]]
    BY DEF SumIInv, SumTypeOK
  <2> QED BY <1>1, <1>2, <2>1
<1>5. SumTypeOK'
  BY <1>1, <1>4 DEF SumIInv, SumTypeOK
<1>6. /\ \A j \in Parts : Ready(j)' <=> Ready(j)
      /\ \A j \in Parts : Summed(j) => Summed(j)'
      /\ Ready(i) => Summed(i)'
  <2>1. \A j \in Parts \ {i} : (Ready(j)' <=> Ready(j)) /\ (Summed(j)' <=> Summed(j))
    BY <1>1, <1>4, PartSame
  <2>2. (Ready(i)' <=> Ready(i)) /\ (Ready(i) => Summed(i)')
    BY <1>1, <1>4 DEF Ready, Summed, EndOf, EqualPartsOnly, partSize
  <2>3. Summed(i) => Ready(i)
    BY DEF Summed
  <2> QED BY <2>1, <2>2, <2>3
<1>7. Held' = Held /\ Pending' = Pending /\ ToHand' = ToHand /\ Missing' = Missing
  BY <1>1, <1>2 DEF Held, Pending, ToHand, Missing
<1>8. Pending \in SUBSET Parts /\ i \in Pending /\ \A v \in Busy : unit[v] \in Parts
  BY <1>0, <1>2 DEF SumIInv, PoolIInv, PoolTypeOK, SumTypeOK, Pending, Held, Range
<1>9. ASSUME Guarded PROVE CallIInv'
  <2>1. CallIInv /\ Ready(i)
    BY <1>8, <1>9 DEF SumIInv, CallIInv, PendingReady
  <2>2. PendingOnce'
    BY <1>1, <1>2, <1>7, <2>1 DEF CallIInv, PendingOnce
  <2>3. PendingReady'
    <3>1. ASSUME NEW v \in Busy', worker'[v] = "signal" PROVE Summed(unit[v])'
      <4>1. v \in Busy /\ unit'[v] = unit[v] /\ unit[v] \in Parts
        BY <3>1, <1>1, <1>2, <1>8
      <4>2. CASE v = w
        BY <1>0, <4>1, <4>2, <1>6, <2>1
      <4>3. CASE v # w
        <5>1. worker[v] = "signal"
          BY <4>1, <4>3, <3>1, <1>1 DEF Busy
        <5> QED BY <4>1, <5>1, <1>6, <2>1 DEF CallIInv, PendingReady
      <4> QED BY <4>2, <4>3
    <3>2. \A j \in Pending : Ready(j)'
      BY <1>6, <1>8, <2>1 DEF CallIInv, PendingReady
    <3> QED BY <3>1, <3>2, <1>7 DEF PendingReady
  <2>4. TotalSoFar'
    BY <1>1, <2>1 DEF CallIInv, TotalSoFar, EndOf, EqualPartsOnly, partSize
  <2>5. WithLatch => LatchTells'
    BY <1>1, <1>6, <1>7, <2>1 DEF CallIInv, LatchTells
  <2>6. ~WithLatch => EventsTell'
    BY <1>1, <1>6, <1>7, <2>1 DEF CallIInv, EventsTell
  <2> QED BY <1>1, <2>2, <2>3, <2>4, <2>5, <2>6 DEF CallIInv, WithLatch
<1> QED BY <1>1, <1>3, <1>5, <1>9, ResultsSame DEF SumIInv

\* What is pending when a worker has signaled: its part no more.
LEMMA SignalTakesOff ==
  ASSUME SumTypeOK, PoolIInv, PendingOnce, NEW w \in Workers, worker[w] = "signal",
         \A v \in Workers \ {w} : worker'[v] = worker[v],
         worker'[w] \in {"set", "return"}, UNCHANGED <<unit, bqueue, system, adding, part>>
  PROVE  /\ Busy' = Busy \ {w} /\ w \in Busy
         /\ unit[w] \in Parts /\ unit[w] \in Pending
         /\ Pending' = Pending \ {unit[w]} /\ Missing' = Missing \ {unit[w]}
         /\ unit[w] \in Missing /\ PendingOnce'
<1>1. Busy' = Busy \ {w} /\ w \in Busy
  BY DEF Busy
<1>2. unit[w] \in Parts /\ unit[w] \in Held
  BY <1>1 DEF PoolIInv, Held
<1>3. Held' = Held \ {unit[w]}
  <2>1. Held' = {unit[v] : v \in Busy \ {w}}
    BY <1>1 DEF Held
  <2>2. \A u, v \in Busy : unit[u] = unit[v] => u = v
    BY DEF PendingOnce
  <2> QED BY <2>1, <2>2, <1>1 DEF Held
<1>4. unit[w] \notin system \cup Range(bqueue)
  BY <1>1 DEF PendingOnce
<1>5. Pending' = Pending \ {unit[w]} /\ unit[w] \in Pending
  BY <1>2, <1>3, <1>4 DEF Pending
<1>6. ToHand' = ToHand /\ unit[w] \notin ToHand
  BY <1>5 DEF ToHand, PendingOnce
<1>7. Missing' = Missing \ {unit[w]} /\ unit[w] \in Missing
  BY <1>5, <1>6 DEF Missing
<1>8. PendingOnce'
  BY <1>1, <1>5, <1>6 DEF PendingOnce
<1> QED BY <1>1, <1>2, <1>5, <1>7, <1>8

\* A worker signals the event of its part, or ends.
LEMMA WorkerFuncTPKeeps ==
  ASSUME SumIInv, NEW w \in Workers, WorkerFuncTP(w)
  PROVE  SumIInv'
<1>1. /\ worker' \in [Workers -> WorkerPlaces] /\ worker[w] = "signal" /\ worker'[w] = "return"
      /\ \A v \in Workers \ {w} : worker'[v] = worker[v]
      /\ ~WithLatch /\ partialWorkDone' = [partialWorkDone EXCEPT ![unit[w]] = TRUE]
      /\ UNCHANGED <<adder, size, adding, part, ctx, cdl, total, results, system>>
      /\ UNCHANGED queuevars /\ UNCHANGED <<bqueue, unit>>
  BY WorkerMoves DEF SumIInv, PoolIInv, WorkerPlaces, WorkerFuncTP, queuevars
<1>2. w \in Busy /\ unit[w] \in Parts
  BY <1>1 DEF Busy, SumIInv, PoolIInv
<1>3. PoolIInv'
  BY <1>1, <1>2, OutsidePoolKeeps DEF SumIInv, WorkerFuncTP, PoolIInv, PoolTypeOK
<1>4. /\ partialWorkDone' \in [Parts -> BOOLEAN] /\ partialWorkDone'[unit[w]]
      /\ \A j \in Parts \ {unit[w]} : partialWorkDone'[j] = partialWorkDone[j]
  BY <1>1, <1>2 DEF SumIInv, SumTypeOK
<1>5. SumTypeOK'
  BY <1>1, <1>4 DEF SumIInv, SumTypeOK
<1>6. \A j \in Parts : (Ready(j)' <=> Ready(j)) /\ (Summed(j)' <=> Summed(j))
  BY <1>1, PartSame
<1>7. ASSUME Guarded PROVE CallIInv'
  <2>1. CallIInv
    BY <1>7 DEF SumIInv
  <2>2. /\ Busy' = Busy \ {w}
        /\ Pending' = Pending \ {unit[w]} /\ PendingOnce'
    BY <1>1, <2>1, SignalTakesOff DEF SumIInv, CallIInv
  <2>3. Pending \in SUBSET Parts /\ \A v \in Busy : unit[v] \in Parts
    BY DEF SumIInv, PoolIInv, PoolTypeOK, SumTypeOK, Pending, Held, Range
  <2>4. Summed(unit[w])
    BY <1>1, <1>2, <2>1 DEF CallIInv, PendingReady
  <2>5. PendingReady'
    <3>1. ASSUME NEW v \in Busy', worker'[v] = "signal" PROVE Summed(unit[v])'
      <4>1. v \in Busy /\ worker[v] = "signal" /\ unit'[v] = unit[v] /\ unit[v] \in Parts
        BY <3>1, <1>1, <2>2, <2>3 DEF Busy
      <4> QED BY <4>1, <1>6, <2>1 DEF CallIInv, PendingReady
    <3>2. \A j \in Pending : Ready(j)'
      BY <1>6, <2>3, <2>1 DEF CallIInv, PendingReady
    <3> QED BY <3>1, <3>2, <2>2 DEF PendingReady
  <2>6. TotalSoFar'
    BY <1>1, <2>1 DEF CallIInv, TotalSoFar, EndOf, EqualPartsOnly, partSize
  <2>7. EventsTell'
    <3>1. EventsTell
      BY <1>1, <2>1 DEF CallIInv
    <3>2. \A j \in Parts : partialWorkDone[j] => partialWorkDone'[j]
      BY <1>4
    <3>3. ASSUME NEW j \in Parts, partialWorkDone'[j] PROVE Summed(j)' /\ j \notin Pending'
      BY <3>1, <3>3, <1>4, <1>6, <2>2, <2>4 DEF EventsTell
    <3> QED BY <1>1, <3>1, <3>2, <3>3 DEF EventsTell
  <2> QED BY <1>1, <2>2, <2>5, <2>6, <2>7 DEF CallIInv, WithLatch
<1> QED BY <1>1, <1>3, <1>5, <1>7, ResultsSame DEF SumIInv

\* There are finitely many parts: their number counts down with each that goes.
LEMMA PartsCounted ==
  /\ Cardinality(Parts) = nParts
  /\ \A S \in SUBSET Parts :
       /\ Cardinality(S) \in Nat
       /\ \A i \in S : Cardinality(S \ {i}) = Cardinality(S) - 1
       /\ Cardinality(S) = 0 <=> S = {}
<1>1. nParts \in Nat \ {0}
  BY ParallelSumAssumption
<1>2. IsFiniteSet(Parts) /\ Cardinality(Parts) = nParts
  <2>1. 0 \in Int /\ nParts - 1 \in Int /\ 0 <= nParts - 1
    BY <1>1
  <2>2. IsFiniteSet(0 .. nParts - 1) /\ Cardinality(0 .. nParts - 1) = (nParts - 1) - 0 + 1
    BY <2>1, FS_Interval
  <2> QED BY <1>1, <2>2 DEF Parts
<1>3. ASSUME NEW S \in SUBSET Parts
      PROVE  /\ Cardinality(S) \in Nat
             /\ \A i \in S : Cardinality(S \ {i}) = Cardinality(S) - 1
             /\ Cardinality(S) = 0 <=> S = {}
  <2>1. IsFiniteSet(S)
    BY <1>2, FS_Subset
  <2> QED BY <2>1, FS_CardinalityType, FS_RemoveElement, FS_EmptySet
<1> QED BY <1>2, <1>3

\* A worker counts the latch down.
LEMMA DecrementKeeps ==
  ASSUME SumIInv, NEW w \in Workers, CDL_Decrement(w)
  PROVE  SumIInv'
<1>1. /\ worker' \in [Workers -> WorkerPlaces] /\ worker[w] = "signal"
      /\ worker'[w] = (IF cdl.Counter = 1 THEN "set" ELSE "return")
      /\ \A v \in Workers \ {w} : worker'[v] = worker[v]
      /\ WithLatch /\ cdl' = [cdl EXCEPT !.Counter = @ - 1]
      /\ UNCHANGED <<adder, size, adding, part, ctx, partialWorkDone, total, results, system>>
      /\ UNCHANGED queuevars /\ UNCHANGED <<bqueue, unit>>
  BY WorkerMoves DEF SumIInv, PoolIInv, WorkerPlaces, CDL_Decrement, queuevars
<1>2. w \in Busy /\ unit[w] \in Parts
  BY <1>1 DEF Busy, SumIInv, PoolIInv
<1>3. PoolIInv'
  BY <1>1, <1>2, OutsidePoolKeeps DEF SumIInv, CDL_Decrement, PoolIInv, PoolTypeOK
<1>4. /\ cdl' \in [Counter : Int, WorkDone : BOOLEAN]
      /\ cdl'.Counter = cdl.Counter - 1 /\ cdl'.WorkDone = cdl.WorkDone
  <2>1. cdl \in [Counter : Int, WorkDone : BOOLEAN]
    BY DEF SumIInv, SumTypeOK
  <2>2. cdl' \in [Counter : Int, WorkDone : BOOLEAN]
    BY <1>1, <2>1
  <2>3. cdl'.Counter = cdl.Counter - 1
    BY <1>1, <2>1
  <2>4. cdl'.WorkDone = cdl.WorkDone
    BY <1>1, <2>1, Zenon
  <2> QED BY <2>2, <2>3, <2>4
<1>5. SumTypeOK'
  BY <1>1, <1>4 DEF SumIInv, SumTypeOK
<1>6. \A j \in Parts : (Ready(j)' <=> Ready(j)) /\ (Summed(j)' <=> Summed(j))
  BY <1>1, PartSame
<1>7. ASSUME Guarded PROVE CallIInv'
  <2>1. CallIInv
    BY <1>7 DEF SumIInv
  <2>2. /\ Busy' = Busy \ {w}
        /\ Pending' = Pending \ {unit[w]} /\ Missing' = Missing \ {unit[w]}
        /\ unit[w] \in Pending /\ unit[w] \in Missing /\ PendingOnce'
    BY <1>1, <2>1, SignalTakesOff DEF SumIInv, CallIInv
  <2>3. /\ Pending \in SUBSET Parts /\ Missing \in SUBSET Parts
        /\ \A v \in Busy : unit[v] \in Parts
    BY DEF SumIInv, PoolIInv, PoolTypeOK, SumTypeOK, Pending, Held, Range, Missing, ToHand
  <2>4. Summed(unit[w])
    BY <1>1, <1>2, <2>1 DEF CallIInv, PendingReady
  <2>5. PendingReady'
    <3>1. ASSUME NEW v \in Busy', worker'[v] = "signal" PROVE Summed(unit[v])'
      <4>1. v \in Busy /\ worker[v] = "signal" /\ unit'[v] = unit[v] /\ unit[v] \in Parts
        BY <3>1, <1>1, <2>2, <2>3 DEF Busy
      <4> QED BY <4>1, <1>6, <2>1 DEF CallIInv, PendingReady
    <3>2. \A j \in Pending : Ready(j)'
      BY <1>6, <2>3, <2>1 DEF CallIInv, PendingReady
    <3> QED BY <3>1, <3>2, <2>2 DEF PendingReady
  <2>6. TotalSoFar'
    BY <1>1, <2>1 DEF CallIInv, TotalSoFar, EndOf, EqualPartsOnly, partSize
  <2>7. LatchTells'
    <3>1. LatchTells /\ adding # "test"
      BY <1>1, <2>1, <2>2 DEF CallIInv, PendingOnce
    <3>2. /\ Cardinality(Missing) \in Nat
          /\ Cardinality(Missing') = Cardinality(Missing) - 1
          /\ Cardinality(Missing') = 0 <=> Missing' = {}
      BY <2>2, <2>3, PartsCounted
    <3>3. cdl'.Counter = Cardinality(Missing')
      BY <1>4, <3>1, <3>2 DEF LatchTells
    <3>4. worker'[w] = "set" => Missing' = {}
      BY <1>1, <3>1, <3>2 DEF LatchTells
    <3>5. ~cdl.WorkDone /\ (\A v \in Workers : worker[v] # "set") /\ adding # "sum"
      BY <2>2, <3>1 DEF LatchTells
    <3>6. \A v \in Workers : worker'[v] = "set" => Missing' = {}
      BY <1>1, <3>4, <3>5
    <3>7. \A j \in Parts \ Missing' : Summed(j)'
      BY <1>6, <2>2, <2>4, <3>1 DEF LatchTells
    <3> QED BY <1>1, <1>4, <3>1, <3>3, <3>5, <3>6, <3>7 DEF LatchTells
  <2> QED BY <1>1, <2>2, <2>5, <2>6, <2>7 DEF CallIInv, WithLatch
<1> QED BY <1>1, <1>3, <1>5, <1>7, ResultsSame DEF SumIInv

\* The last worker opens the latch.
LEMMA SetKeeps ==
  ASSUME SumIInv, NEW w \in Workers, CDL_Set(w)
  PROVE  SumIInv'
<1>1. /\ worker' \in [Workers -> WorkerPlaces] /\ worker[w] = "set" /\ worker'[w] = "return"
      /\ \A v \in Workers \ {w} : worker'[v] = worker[v]
      /\ cdl' = IF adding = "test" THEN cdl ELSE [cdl EXCEPT !.WorkDone = TRUE]
      /\ UNCHANGED <<adder, size, adding, part, ctx, partialWorkDone, total, results, system>>
      /\ UNCHANGED queuevars /\ UNCHANGED <<bqueue, unit>>
  BY WorkerMoves DEF SumIInv, PoolIInv, WorkerPlaces, CDL_Set, queuevars
<1>3. PoolIInv'
  BY <1>1, OutsidePoolKeeps DEF SumIInv, CDL_Set, PoolIInv, PoolTypeOK
<1>4. /\ cdl' \in [Counter : Int, WorkDone : BOOLEAN] /\ cdl'.Counter = cdl.Counter
  BY <1>1 DEF SumIInv, SumTypeOK
<1>5. SumTypeOK'
  BY <1>1, <1>4 DEF SumIInv, SumTypeOK
<1>6. \A j \in Parts : (Ready(j)' <=> Ready(j)) /\ (Summed(j)' <=> Summed(j))
  BY <1>1, PartSame
<1>7. Busy' = Busy
  BY <1>1 DEF Busy
<1>8. Held' = Held /\ Pending' = Pending /\ ToHand' = ToHand /\ Missing' = Missing
  BY <1>1, <1>7 DEF Held, Pending, ToHand, Missing
<1>9. Pending \in SUBSET Parts /\ \A v \in Busy : unit[v] \in Parts
  BY DEF SumIInv, PoolIInv, PoolTypeOK, SumTypeOK, Pending, Held, Range
<1>10. ASSUME Guarded PROVE CallIInv'
  <2>1. CallIInv
    BY <1>10 DEF SumIInv
  <2>2. PendingOnce'
    BY <1>1, <1>7, <1>8, <2>1 DEF CallIInv, PendingOnce
  <2>3. PendingReady'
    <3>1. \A v \in Busy : worker'[v] = "signal" => worker[v] = "signal"
      BY <1>1 DEF Busy
    <3> QED BY <3>1, <1>1, <1>6, <1>7, <1>8, <1>9, <2>1 DEF CallIInv, PendingReady
  <2>4. TotalSoFar'
    BY <1>1, <2>1 DEF CallIInv, TotalSoFar, EndOf, EqualPartsOnly, partSize
  <2>5. WithLatch => LatchTells'
    <3> SUFFICES ASSUME WithLatch PROVE LatchTells'
      OBVIOUS
    <3>1. LatchTells /\ adding # "test" /\ Missing = {}
      BY <1>1, <2>1 DEF CallIInv, LatchTells
    <3> QED BY <1>1, <1>4, <1>6, <1>8, <3>1 DEF LatchTells
  <2>6. ~WithLatch => EventsTell'
    BY <1>1, <1>6, <1>8, <2>1 DEF CallIInv, EventsTell
  <2> QED BY <1>1, <2>2, <2>3, <2>4, <2>5, <2>6 DEF CallIInv, WithLatch
<1> QED BY <1>1, <1>3, <1>5, <1>10, ResultsSame DEF SumIInv

\* The pool while the main thread does something else.
LEMMA PoolStutters ==
  ASSUME PoolIInv, UNCHANGED poolvars
  PROVE  PoolIInv' /\ Busy' = Busy /\ Held' = Held
BY DEF poolvars, queuevars, PoolIInv, PoolTypeOK, PoolPermitsMatch, Busy, Held

\* The units, and what is pending, are parts.
LEMMA PendingAreParts ==
  ASSUME SumIInv
  PROVE  /\ Pending \in SUBSET Parts /\ Missing \in SUBSET Parts
         /\ \A v \in Busy : unit[v] \in Parts
BY DEF SumIInv, PoolIInv, PoolTypeOK, SumTypeOK, Pending, Held, Range, Missing, ToHand

\* A call begins.
LEMMA TestKeeps ==
  ASSUME SumIInv, Test
  PROVE  SumIInv'
<1>1. /\ adding = "test" /\ adding' = "start" /\ part' = 0 /\ total' = 0
      /\ cdl' = IF WithLatch THEN [Counter |-> nParts, WorkDone |-> FALSE] ELSE cdl
      /\ UNCHANGED <<adder, size, ctx, partialWorkDone, results, system>>
      /\ UNCHANGED poolvars /\ UNCHANGED <<bqueue, worker, unit>>
  BY DEF Test, CDL_Create, poolvars, queuevars
<1>2. nParts \in Nat \ {0}
  BY ParallelSumAssumption
<1>3. SumTypeOK'
  BY <1>1, <1>2 DEF SumIInv, SumTypeOK
<1>4. PoolIInv' /\ Busy' = Busy /\ Held' = Held
  BY <1>1, PoolStutters DEF SumIInv
<1>5. \A j \in Parts : (Ready(j)' <=> Ready(j)) /\ (Summed(j)' <=> Summed(j))
  BY <1>1, PartSame
<1>6. ASSUME Guarded PROVE CallIInv'
  <2>1. CallIInv /\ Pending = {}
    BY <1>1, <1>6 DEF SumIInv, CallIInv, PendingOnce
  <2>2. Pending' = {}
    BY <1>1, <1>4, <2>1 DEF Pending
  <2>3. PendingOnce'
    BY <1>1, <1>4, <2>1, <2>2 DEF CallIInv, PendingOnce
  <2>4. PendingReady'
    <3>1. ASSUME NEW v \in Busy PROVE FALSE
      BY <2>1 DEF Pending, Held
    <3> QED BY <3>1, <1>4, <2>2 DEF PendingReady
  <2>5. TotalSoFar'
    BY <1>1 DEF TotalSoFar
  <2>6. WithLatch => LatchTells'
    <3> SUFFICES ASSUME WithLatch PROVE LatchTells'
      OBVIOUS
    <3>1. ToHand' = Parts
      BY <1>1, <1>2 DEF ToHand, Parts
    <3>2. Missing' = Parts
      BY <2>2, <3>1 DEF Missing
    <3>3. cdl'.Counter = Cardinality(Missing')
      BY <1>1, <3>2, PartsCounted
    <3>4. ~cdl'.WorkDone /\ \A v \in Workers : worker'[v] # "set"
      BY <1>1, <2>1 DEF CallIInv, LatchTells
    <3> QED BY <1>1, <3>2, <3>3, <3>4 DEF LatchTells
  <2>7. ~WithLatch => EventsTell'
    BY <1>1, <1>5, <2>1, <2>2 DEF CallIInv, EventsTell
  <2> QED BY <1>1, <2>3, <2>4, <2>5, <2>6, <2>7 DEF CallIInv, WithLatch
<1> QED BY <1>1, <1>3, <1>4, <1>6, ResultsSame DEF SumIInv

\* A part is handed over, to the system or to the queue of the pool.
LEMMA HandOverKeeps ==
  ASSUME SumIInv, NEW end, end = EndOf(part), CtxInit(end),
         (BySystem \/ (TpQueueItem(part) /\ UNCHANGED system)),
         IF WithLatch THEN UNCHANGED partialWorkDone
         ELSE partialWorkDone' = [partialWorkDone EXCEPT ![part] = FALSE]
  PROVE  SumIInv'
<1>0. nParts \in Nat \ {0} /\ size \in Nat
  BY ParallelSumAssumption DEF SumIInv, SumTypeOK
<1>1. /\ adding = "start" /\ part < nParts /\ part \in Nat /\ part \in Parts
      /\ ctx' = [ctx EXCEPT ![part] = [start |-> part * partSize, end |-> end,
                                       partialResult |-> 0]]
      /\ part' = part + 1
      /\ UNCHANGED <<adder, size, adding, cdl, total, results>>
  BY <1>0 DEF CtxInit, SumIInv, SumTypeOK, Parts
<1>2. PoolIInv' /\ UNCHANGED <<worker, unit>>
  BY <1>1, PutKeeps, PoolStutters
     DEF BySystem, SumIInv, TpQueueItem, BQ_Put, BQ_Put0, BQ_Insert, poolvars
<1>3. \/ bqueue' = bqueue /\ system' = system \cup {part}
      \/ bqueue' = Append(bqueue, part) /\ system' = system
  BY DEF BySystem, TpQueueItem, BQ_Put, BQ_Put0, BQ_Insert, poolvars, queuevars
<1>4. Busy' = Busy /\ Held' = Held
  BY <1>2 DEF Busy, Held
<1>5. part * partSize \in Int /\ end \in Int
  BY <1>0, <1>1, PartSizes, EndsKnown
<1>6. /\ ctx' \in [Parts -> [start : Int, end : Int, partialResult : Int]]
      /\ ctx'[part].start = part * partSize /\ ctx'[part].end = end
      /\ \A j \in Parts \ {part} : ctx'[j] = ctx[j]
  <2>1. ctx \in [Parts -> [start : Int, end : Int, partialResult : Int]]
    BY DEF SumIInv, SumTypeOK
  <2> QED BY <1>1, <1>5, <2>1
<1>7. /\ partialWorkDone' \in [Parts -> BOOLEAN]
      /\ ~WithLatch => ~partialWorkDone'[part]
      /\ ~WithLatch => \A j \in Parts \ {part} : partialWorkDone'[j] = partialWorkDone[j]
  BY <1>1 DEF SumIInv, SumTypeOK
<1>8. SumTypeOK'
  <2>1. part' \in 0 .. nParts
    BY <1>0, <1>1
  <2>2. system' \in SUBSET Parts
    <3>1. system \in SUBSET Parts
      BY DEF SumIInv, SumTypeOK
    <3> QED BY <3>1, <1>1, <1>3
  <2> QED BY <1>1, <1>6, <1>7, <2>1, <2>2 DEF SumIInv, SumTypeOK
<1>9. \A j \in Parts \ {part} : (Ready(j)' <=> Ready(j)) /\ (Summed(j)' <=> Summed(j))
  BY <1>1, <1>6, PartSame
<1>10. \A j \in Parts : j = part => Ready(j)'
  BY <1>1, <1>6 DEF Ready, EndOf, EqualPartsOnly, partSize
<1>11. part \in ToHand /\ ToHand' = ToHand \ {part}
  BY <1>0, <1>1 DEF ToHand, Parts
<1>12. ASSUME Guarded PROVE CallIInv'
  <2>1. CallIInv /\ PendingOnce /\ part \notin Pending
    BY <1>11, <1>12 DEF SumIInv, CallIInv, PendingOnce
  <2>2. /\ IsInjective(bqueue') /\ system' \cap Range(bqueue') = {}
        /\ system' \cup Range(bqueue') = system \cup Range(bqueue) \cup {part}
    <3>1. part \notin Range(bqueue) /\ part \notin system
      BY <2>1 DEF Pending
    <3>2. /\ Range(Append(bqueue, part)) = Range(bqueue) \cup {part}
          /\ IsInjective(Append(bqueue, part))
      BY <1>1, <2>1, <3>1, InsertTail DEF PendingOnce, SumIInv, PoolIInv, PoolTypeOK
    <3> QED BY <1>3, <2>1, <3>1, <3>2 DEF PendingOnce
  <2>3. Pending' = Pending \cup {part} /\ Missing' = Missing /\ part \in Missing
    <3>1. Pending' = Pending \cup {part}
      BY <1>4, <2>2 DEF Pending
    <3> QED BY <3>1, <1>11 DEF Missing
  <2>4. PendingOnce'
    <3>1. \A v \in Busy : unit[v] # part
      BY <2>1 DEF Pending, Held
    <3> QED BY <1>1, <1>2, <1>4, <1>11, <2>1, <2>2, <2>3, <3>1 DEF PendingOnce
  <2>5. PendingReady'
    <3>1. ASSUME NEW v \in Busy', worker'[v] = "signal" PROVE Summed(unit[v])'
      <4>1. /\ v \in Busy /\ worker[v] = "signal" /\ unit'[v] = unit[v]
            /\ unit[v] \in Parts \ {part}
        BY <3>1, <1>2, <1>4, <2>1, PendingAreParts DEF Pending, Held
      <4> QED BY <4>1, <1>9, <2>1 DEF CallIInv, PendingReady
    <3>2. \A j \in Pending' : Ready(j)'
      BY <1>9, <1>10, <2>1, <2>3, PendingAreParts DEF CallIInv, PendingReady
    <3> QED BY <3>1, <3>2 DEF PendingReady
  <2>6. TotalSoFar'
    BY <1>1, <2>1 DEF CallIInv, TotalSoFar
  <2>7. WithLatch => LatchTells'
    BY <1>1, <1>2, <1>9, <2>1, <2>3 DEF CallIInv, LatchTells
  <2>8. ~WithLatch => EventsTell'
    BY <1>1, <1>7, <1>9, <2>1, <2>3 DEF CallIInv, EventsTell
  <2> QED BY <1>1, <2>4, <2>5, <2>6, <2>7, <2>8 DEF CallIInv, WithLatch
<1> QED BY <1>1, <1>2, <1>8, <1>12, ResultsSame DEF SumIInv

\* The main thread begins to add, when its wait is over.
LEMMA LoopBeginsKeeps ==
  ASSUME SumIInv, NEW from \in {"start", "latched"}, MainGoes(from, "sum"),
         WithLatch => cdl.WorkDone \/ cdl.Counter = 0,
         adder = "ParallelSumTPMW" => \A i \in Parts : partialWorkDone[i]
  PROVE  SumIInv'
<1>0. nParts \in Nat \ {0}
  BY ParallelSumAssumption
<1>1. /\ adding = from /\ adding' = "sum" /\ part = nParts /\ part' = 0
      /\ UNCHANGED <<adder, size, ctx, partialWorkDone, cdl, total, results, system>>
      /\ UNCHANGED poolvars /\ UNCHANGED <<bqueue, worker, unit>>
  BY DEF MainGoes, poolvars, queuevars
<1>2. SumTypeOK'
  BY <1>0, <1>1 DEF SumIInv, SumTypeOK
<1>3. PoolIInv' /\ Busy' = Busy /\ Held' = Held
  BY <1>1, PoolStutters DEF SumIInv
<1>4. \A j \in Parts : (Ready(j)' <=> Ready(j)) /\ (Summed(j)' <=> Summed(j))
  BY <1>1, PartSame
<1>5. ToHand = {} /\ ToHand' = {}
  BY <1>0, <1>1 DEF ToHand, Parts
<1>6. Pending' = Pending /\ Missing' = Missing
  BY <1>1, <1>3, <1>5 DEF Pending, Missing
<1>7. ASSUME Guarded PROVE CallIInv'
  <2>1. CallIInv
    BY <1>7 DEF SumIInv
  <2>2. PendingOnce'
    BY <1>1, <1>3, <1>5, <1>6, <2>1 DEF CallIInv, PendingOnce
  <2>3. PendingReady'
    BY <1>1, <1>3, <1>4, <1>6, <2>1, PendingAreParts DEF CallIInv, PendingReady
  <2>4. TotalSoFar'
    BY <1>1, <2>1 DEF CallIInv, TotalSoFar
  <2>5. WithLatch => LatchTells'
    <3> SUFFICES ASSUME WithLatch PROVE LatchTells'
      OBVIOUS
    <3>1. LatchTells /\ adding # "test"
      BY <1>1, <2>1 DEF CallIInv
    <3>2. Missing = {}
      BY <3>1, PartsCounted, PendingAreParts DEF LatchTells
    <3> QED BY <1>1, <1>4, <1>6, <3>1, <3>2 DEF LatchTells
  <2>6. ~WithLatch => EventsTell'
    <3> SUFFICES ASSUME ~WithLatch PROVE EventsTell'
      OBVIOUS
    <3>1. EventsTell
      BY <2>1 DEF CallIInv
    <3>2. \A i \in Parts : ~(i < part')
      BY <1>0, <1>1 DEF Parts
    <3> QED BY <1>1, <1>4, <1>6, <3>1, <3>2 DEF EventsTell
  <2> QED BY <1>1, <2>2, <2>3, <2>4, <2>5, <2>6 DEF CallIInv, WithLatch
<1> QED BY <1>1, <1>2, <1>3, <1>7, ResultsSame DEF SumIInv

\* It goes to wait for the latch.
LEMMA LatchedKeeps ==
  ASSUME SumIInv, adding = "start", part = nParts, adding' = "latched",
         UNCHANGED <<adder, size, part, ctx, partialWorkDone, cdl, total, results,
                     system, poolvars>>
  PROVE  SumIInv'
<1>0. nParts \in Nat \ {0}
  BY ParallelSumAssumption
<1>1. UNCHANGED <<bqueue, worker, unit>>
  BY DEF poolvars, queuevars
<1>2. SumTypeOK'
  BY DEF SumIInv, SumTypeOK
<1>3. PoolIInv' /\ Busy' = Busy /\ Held' = Held
  BY PoolStutters DEF SumIInv
<1>4. \A j \in Parts : (Ready(j)' <=> Ready(j)) /\ (Summed(j)' <=> Summed(j))
  BY PartSame
<1>5. ToHand = {} /\ ToHand' = {}
  BY <1>0 DEF ToHand, Parts
<1>6. Pending' = Pending /\ Missing' = Missing
  BY <1>1, <1>3, <1>5 DEF Pending, Missing
<1>7. ASSUME Guarded PROVE CallIInv'
  <2>1. CallIInv
    BY <1>7 DEF SumIInv
  <2>2. PendingOnce'
    BY <1>1, <1>3, <1>5, <1>6, <2>1 DEF CallIInv, PendingOnce
  <2>3. PendingReady'
    BY <1>1, <1>3, <1>4, <1>6, <2>1, PendingAreParts DEF CallIInv, PendingReady
  <2>4. TotalSoFar'
    BY <2>1 DEF CallIInv, TotalSoFar
  <2>5. WithLatch => LatchTells'
    BY <1>1, <1>4, <1>6, <2>1 DEF CallIInv, LatchTells
  <2>6. ~WithLatch => EventsTell'
    BY <1>1, <1>4, <1>6, <2>1 DEF CallIInv, EventsTell
  <2> QED BY <2>2, <2>3, <2>4, <2>5, <2>6 DEF CallIInv, WithLatch
<1> QED BY <1>2, <1>3, <1>7, ResultsSame DEF SumIInv

\* It adds the sum of a part, which is known.
LEMMA CollectKeeps ==
  ASSUME SumIInv, Collect,
         ~WithLatch => adder = "ParallelSumTPMW" \/ partialWorkDone[part]
  PROVE  SumIInv'
<1>0. nParts \in Nat \ {0} /\ size \in Nat
  BY ParallelSumAssumption DEF SumIInv, SumTypeOK
<1>1. /\ adding = "sum" /\ part < nParts /\ part \in Nat /\ part \in Parts
      /\ total' = total + ctx[part].partialResult /\ part' = part + 1
      /\ UNCHANGED <<adder, size, adding, ctx, partialWorkDone, cdl, results, system>>
      /\ UNCHANGED poolvars /\ UNCHANGED <<bqueue, worker, unit>>
  BY <1>0 DEF Collect, SumIInv, SumTypeOK, Parts, poolvars, queuevars
<1>2. SumTypeOK'
  <2>1. part' \in 0 .. nParts
    BY <1>0, <1>1
  <2>2. total' \in Int
    <3>1. total \in Int /\ ctx[part].partialResult \in Int
      BY <1>1 DEF SumIInv, SumTypeOK
    <3> QED BY <1>1, <3>1
  <2> QED BY <1>1, <2>1, <2>2 DEF SumIInv, SumTypeOK
<1>3. PoolIInv' /\ Busy' = Busy /\ Held' = Held
  BY <1>1, PoolStutters DEF SumIInv
<1>4. \A j \in Parts : (Ready(j)' <=> Ready(j)) /\ (Summed(j)' <=> Summed(j))
  BY <1>1, PartSame
<1>5. ToHand = {} /\ ToHand' = {}
  BY <1>1 DEF ToHand
<1>6. Pending' = Pending /\ Missing' = Missing
  BY <1>1, <1>3, <1>5 DEF Pending, Missing
<1>7. ASSUME Guarded PROVE CallIInv'
  <2>1. CallIInv
    BY <1>7 DEF SumIInv
  <2>2. PendingOnce'
    BY <1>1, <1>3, <1>5, <1>6, <2>1 DEF CallIInv, PendingOnce
  <2>3. PendingReady'
    BY <1>1, <1>3, <1>4, <1>6, <2>1, PendingAreParts DEF CallIInv, PendingReady
  <2>4. Summed(part)
    <3>1. CASE WithLatch
      <4>1. LatchTells
        BY <2>1, <3>1 DEF CallIInv
      <4> QED BY <4>1, <1>1 DEF LatchTells
    <3>2. CASE ~WithLatch
      <4>1. EventsTell
        BY <2>1, <3>2 DEF CallIInv
      <4> QED BY <4>1, <3>2, <1>1 DEF EventsTell
    <3> QED BY <3>1, <3>2
  <2>5. TotalSoFar'
    <3>1. PICK a \in Int : a = part * partSize
      BY <1>0, <1>1, PartSizes
    <3>2. PICK b \in Int : b = EndOf(part)
      BY <1>0, <1>1, EndsKnown
    <3>3. ctx[part].partialResult = b - a
      BY <2>4, <3>1, <3>2 DEF Summed, Ready
    <3>4. total = a
      <4>1. TotalSoFar
        BY <2>1 DEF CallIInv
      <4>2. CASE part = 0
        BY <4>1, <4>2, <1>0, <1>1, <3>1, PartSizes DEF TotalSoFar
      <4>3. CASE part # 0
        <5>1. part - 1 \in Parts /\ (part - 1) + 1 < nParts /\ (part - 1) + 1 = part
          BY <1>0, <1>1, <4>3 DEF Parts
        <5>2. EndOf(part - 1) = part * partSize
          BY <5>1, <1>0, EndsKnown
        <5> QED BY <4>1, <4>3, <5>2, <1>1, <3>1 DEF TotalSoFar
      <4> QED BY <4>2, <4>3
    <3>5. total' = b
      BY <1>1, <3>1, <3>2, <3>3, <3>4
    <3>6. part' # 0 /\ part' - 1 = part
      BY <1>1
    <3>7. EndOf(part - 1)' = EndOf(part)
      BY <3>6, <1>1 DEF EndOf, EqualPartsOnly, partSize
    <3>8. total' = EndOf(part - 1)'
      BY <3>2, <3>5, <3>7
    <3> QED BY <1>1, <3>6, <3>8 DEF TotalSoFar
  <2>6. WithLatch => LatchTells'
    BY <1>1, <1>4, <1>6, <2>1 DEF CallIInv, LatchTells
  <2>7. ~WithLatch => EventsTell'
    <3> SUFFICES ASSUME ~WithLatch PROVE EventsTell'
      OBVIOUS
    <3>1. EventsTell
      BY <2>1 DEF CallIInv
    <3>2. \A i \in Parts : i < part' => i < part \/ i = part
      BY <1>1 DEF Parts
    <3>3. \A i \in Parts : i < part' \/ adder = "ParallelSumTPMW" => partialWorkDone[i]
      BY <1>1, <3>1, <3>2 DEF EventsTell
    <3> QED BY <1>1, <1>4, <1>6, <3>1, <3>3 DEF EventsTell
  <2> QED BY <1>1, <2>2, <2>3, <2>5, <2>6, <2>7 DEF CallIInv, WithLatch
<1> QED BY <1>1, <1>2, <1>3, <1>7, ResultsSame DEF SumIInv

\* The call returns the sum of all parts.
LEMMA ReturnKeeps ==
  ASSUME SumIInv, Return
  PROVE  SumIInv'
<1>0. nParts \in Nat \ {0} /\ size \in Nat
  BY ParallelSumAssumption DEF SumIInv, SumTypeOK
<1>1. /\ adding = "sum" /\ part = nParts /\ adding' = "test"
      /\ results' = Append(results, total)
      /\ UNCHANGED <<adder, size, part, ctx, partialWorkDone, cdl, total, system>>
      /\ UNCHANGED poolvars /\ UNCHANGED <<bqueue, worker, unit>>
  BY DEF Return, poolvars, queuevars
<1>2. /\ results \in Seq(Int) /\ total \in Int /\ results' \in Seq(Int)
      /\ Len(results) \in Nat /\ Len(results') = Len(results) + 1
      /\ results'[Len(results) + 1] = total
      /\ \A n \in 1 .. Len(results) : results'[n] = results[n]
  BY <1>1 DEF SumIInv, SumTypeOK
<1>3. SumTypeOK'
  BY <1>1, <1>2 DEF SumIInv, SumTypeOK
<1>4. PoolIInv' /\ Busy' = Busy /\ Held' = Held
  BY <1>1, PoolStutters DEF SumIInv
<1>5. \A j \in Parts : (Ready(j)' <=> Ready(j)) /\ (Summed(j)' <=> Summed(j))
  BY <1>1, PartSame
<1>6. Guarded => \/ total = size
                 \/ EqualPartsOnly /\ size % nParts # 0
  <2> SUFFICES ASSUME Guarded PROVE total = size \/ (EqualPartsOnly /\ size % nParts # 0)
    OBVIOUS
  <2>1. total = EndOf(nParts - 1)
    BY <1>0, <1>1 DEF SumIInv, CallIInv, TotalSoFar
  <2>2. CASE ~EqualPartsOnly
    BY <2>1, <2>2, <1>0, EndsKnown
  <2>3. CASE EqualPartsOnly
    <3>1. total = nParts * partSize
      BY <2>1, <2>3, <1>0, EndsKnown
    <3> QED BY <3>1, <2>3, <1>0, PartSizes
  <2> QED BY <2>2, <2>3
<1>7. ~Guarded => WithLatch /\ Len(results) # 0
  BY <1>2, EmptySeq DEF Guarded
<1>8. SumIsComplete'
  <2> SUFFICES ASSUME NEW n \in 1 .. Len(results')
               PROVE  \/ results'[n] = size
                      \/ EqualPartsOnly /\ size % nParts # 0
                      \/ WithLatch /\ n > 1
    BY <1>1 DEF SumIsComplete, EqualPartsOnly, WithLatch
  <2>1. CASE n \in 1 .. Len(results)
    BY <2>1, <1>2 DEF SumIInv, SumIsComplete, EqualPartsOnly
  <2>2. CASE n = Len(results) + 1
    <3>1. CASE Guarded
      BY <3>1, <2>2, <1>2, <1>6
    <3>2. CASE ~Guarded
      <4>1. n > 1
        BY <3>2, <2>2, <1>2, <1>7
      <4> QED BY <4>1, <3>2, <1>7
    <3> QED BY <3>1, <3>2
  <2>3. n \in 1 .. Len(results) \/ n = Len(results) + 1
    BY <1>2
  <2> QED BY <2>1, <2>2, <2>3
<1>9. ASSUME Guarded' PROVE CallIInv'
  <2>1. ~WithLatch /\ ~WithLatch' /\ Guarded
    <3>1. results' # <<>>
      BY <1>2
    <3> QED BY <3>1, <1>1, <1>9 DEF Guarded, WithLatch
  <2>2. CallIInv /\ EventsTell
    BY <2>1 DEF SumIInv, CallIInv
  <2>3. Pending = {} /\ Pending' = {}
    <3>1. \A i \in Parts : i < part
      BY <1>0, <1>1 DEF Parts
    <3>2. \A i \in Parts : i \notin Pending
      BY <3>1, <1>1, <2>2 DEF EventsTell
    <3>3. Pending' = Pending
      BY <1>1, <1>4 DEF Pending
    <3> QED BY <3>2, <3>3, PendingAreParts
  <2>4. PendingOnce'
    BY <1>1, <1>4, <2>2, <2>3 DEF CallIInv, PendingOnce
  <2>5. PendingReady'
    <3>1. ASSUME NEW v \in Busy PROVE FALSE
      BY <2>3 DEF Pending, Held
    <3> QED BY <3>1, <1>4, <2>3 DEF PendingReady
  <2>6. TotalSoFar'
    BY <1>1 DEF TotalSoFar
  <2>7. EventsTell'
    BY <1>1, <1>5, <2>2, <2>3 DEF EventsTell
  <2> QED BY <2>1, <2>4, <2>5, <2>6, <2>7 DEF CallIInv
<1> QED BY <1>3, <1>4, <1>8, <1>9 DEF SumIInv

\* The worker gets no unit yet, gives space back or ends its turn.
LEMMA WaitKeeps ==
  ASSUME SumIInv, NEW w \in Workers, BQ_Wait(w), UNCHANGED sumvars
  PROVE  SumIInv'
<1>1. PoolIInv'
  BY PermitTakenKeeps DEF SumIInv
<1>2. /\ worker[w] = "get" /\ worker'[w] = "take"
      /\ \A v \in Workers \ {w} : worker'[v] = worker[v]
      /\ UNCHANGED <<bqueue, unit>>
  BY WorkerMoves DEF SumIInv, PoolIInv, WorkerPlaces, BQ_Wait
<1>3. Busy' = Busy
  BY <1>2 DEF Busy
<1>4. \A v \in Busy : unit'[v] = unit[v] /\ (worker'[v] = "signal" => worker[v] = "signal")
  BY <1>2 DEF Busy
<1>5. \A v \in Workers : worker'[v] = "set" => worker[v] = "set"
  BY <1>2
<1>6. UNCHANGED <<sumvars, bqueue>>
  BY <1>2
<1> QED BY <1>1, <1>3, <1>4, <1>5, <1>6, QuietKeeps

\* A place that is given back leaves the parts with their workers.
LEMMA Get0Keeps ==
  ASSUME SumIInv, NEW w \in Workers, BQ_Get0(w), UNCHANGED sumvars
  PROVE  SumIInv'
<1>1. PoolIInv'
  BY SpaceGivenKeeps DEF SumIInv
<1>2. /\ worker[w] = "space" /\ worker'[w] = "call"
      /\ \A v \in Workers \ {w} : worker'[v] = worker[v]
      /\ UNCHANGED <<bqueue, unit>>
  BY WorkerMoves DEF SumIInv, PoolIInv, WorkerPlaces, BQ_Get0
<1>3. Busy' = Busy
  BY <1>2 DEF Busy
<1>4. \A v \in Busy : unit'[v] = unit[v] /\ (worker'[v] = "signal" => worker[v] = "signal")
  BY <1>2 DEF Busy
<1>5. \A v \in Workers : worker'[v] = "set" => worker[v] = "set"
  BY <1>2
<1>6. UNCHANGED <<sumvars, bqueue>>
  BY <1>2
<1> QED BY <1>1, <1>3, <1>4, <1>5, <1>6, QuietKeeps

\* A worker that returns from its unit, which has signaled, leaves the sums.
LEMMA FuncReturnsKeeps ==
  ASSUME SumIInv, NEW w \in Workers, WorkerThreadFunc(w), UNCHANGED sumvars
  PROVE  SumIInv'
<1>1. /\ worker[w] = "return" /\ worker'[w] = "get"
      /\ \A v \in Workers \ {w} : worker'[v] = worker[v]
      /\ unit' \in [Workers -> Parts \cup {NoUnit}]
      /\ \A v \in Workers \ {w} : unit'[v] = unit[v]
      /\ UNCHANGED queuevars /\ UNCHANGED bqueue
  BY WorkerMoves
     DEF SumIInv, PoolIInv, PoolTypeOK, WorkerPlaces, WorkerThreadFunc, queuevars
<1>2. PoolIInv'
  BY <1>1, OutsidePoolKeeps DEF SumIInv, WorkerThreadFunc
<1>3. Busy' = Busy
  BY <1>1 DEF Busy
<1>4. \A v \in Busy : unit'[v] = unit[v] /\ (worker'[v] = "signal" => worker[v] = "signal")
  BY <1>1 DEF Busy
<1>5. \A v \in Workers : worker'[v] = "set" => worker[v] = "set"
  BY <1>1
<1>6. UNCHANGED <<sumvars, bqueue>>
  BY <1>1
<1> QED BY <1>2, <1>3, <1>4, <1>5, <1>6, QuietKeeps

\* The permit for an item leaves the parts in the queue.
LEMMA QueueReleasedKeeps ==
  ASSUME SumIInv, QueueReleased
  PROVE  SumIInv'
<1>1. PoolIInv' /\ UNCHANGED <<worker, unit, bqueue>>
  BY ReleasedKeeps DEF SumIInv, QueueReleased, BQ_Released
<1>2. Busy' = Busy
  BY <1>1 DEF Busy
<1> QED BY <1>1, <1>2, QuietKeeps DEF QueueReleased

\* Before the first call every part is still to be summed.
LEMMA SumInitHolds == SumInit => SumIInv
<1> SUFFICES ASSUME SumInit PROVE SumIInv
  OBVIOUS
<1>0. nParts \in Nat \ {0} /\ MAXITEMS \in Nat /\ Sizes \subseteq Nat
  BY ParallelSumAssumption, ThreadPoolAssumption
<1>1. Busy = {} /\ Takers = {} /\ Givers = {} /\ OnePutting = 0
  BY DEF SumInit, TpInit, Busy, Takers, Givers, OnePutting
<1>2. PoolTypeOK
  <2>1. /\ bounded \in BOOLEAN /\ bqueue = <<>> /\ hasItems = 0 /\ hasSpace = MAXITEMS
        /\ worker = [w \in Workers |-> "get"] /\ unit = [w \in Workers |-> NoUnit]
        /\ putting = FALSE
    BY DEF SumInit, TpInit
  <2>2. bqueue \in Seq(Parts)
    BY <2>1
  <2>3. worker \in [Workers -> WorkerPlaces] /\ unit \in [Workers -> Parts \cup {NoUnit}]
    BY <2>1 DEF WorkerPlaces
  <2>4. hasItems \in Nat /\ hasSpace \in Nat /\ putting \in BOOLEAN
    BY <1>0, <2>1
  <2> QED BY <2>1, <2>2, <2>3, <2>4 DEF PoolTypeOK
<1>3. PoolPermitsMatch
  <2>1. Cardinality(Takers) = 0 /\ Cardinality(Givers) = 0 /\ Len(bqueue) = 0
    BY <1>1, FS_EmptySet DEF SumInit, TpInit
  <2>2. hasItems = 0 /\ hasSpace = MAXITEMS /\ ~putting
    BY DEF SumInit, TpInit
  <2>3. \A w \in Workers : worker[w] = "get"
    BY DEF SumInit, TpInit
  <2>4. Len(bqueue) = hasItems + Cardinality(Takers) + OnePutting
    BY <1>1, <2>1, <2>2
  <2>5. hasSpace + Len(bqueue) + Cardinality(Givers) = MAXITEMS
    BY <1>0, <2>1, <2>2
  <2> QED BY <2>3, <2>4, <2>5 DEF PoolPermitsMatch, Takers, Givers, OnePutting
<1>4. PoolIInv
  BY <1>1, <1>2, <1>3 DEF PoolIInv
<1>5. SumTypeOK
  BY <1>0 DEF SumInit, SumTypeOK
<1>6. SumIsComplete
  BY DEF SumInit, SumIsComplete
<1>7. /\ Pending = {} /\ ToHand = {} /\ Missing = {} /\ bqueue = <<>>
  <2>1. Held = {}
    BY <1>1 DEF Held
  <2> QED BY <2>1 DEF SumInit, TpInit, Pending, ToHand, Missing, Range
<1>8. PendingOnce
  BY <1>1, <1>7 DEF SumInit, PendingOnce, IsInjective
<1>9. PendingReady
  BY <1>1, <1>7 DEF PendingReady, Busy
<1>10. EventsTell
  BY DEF SumInit, EventsTell
<1>11. LatchTells
  BY DEF SumInit, TpInit, LatchTells
<1>12. TotalSoFar
  BY DEF SumInit, TotalSoFar
<1> QED BY <1>4, <1>5, <1>6, <1>8, <1>9, <1>10, <1>11, <1>12 DEF SumIInv, CallIInv

\* Where the first loop ends each part.
LEMMA EndsGiven ==
  ASSUME SumIInv, part < nParts
  PROVE  /\ ~EqualPartsOnly => LastTakesRest = EndOf(part)
         /\ EqualPartsOnly => EqualParts = EndOf(part)
<1>0. nParts \in Nat \ {0} /\ size \in Nat /\ part \in Parts
  BY ParallelSumAssumption DEF SumIInv, SumTypeOK, Parts
<1>1. PICK e \in Nat : e = (part + 1) * partSize
  BY <1>0, PartSizes
<1>2. e <= size
  BY <1>0, <1>1, PartSizes
<1>3. EqualParts = e
  BY <1>0, <1>1, <1>2 DEF EqualParts
<1> QED BY <1>1, <1>3 DEF EndOf, LastTakesRest

\* Every step of a worker keeps the invariant.
LEMMA WorkerStepKeeps ==
  ASSUME SumIInv, NEW w \in Workers, SumWorkerStep(w)
  PROVE  SumIInv'
<1>1. CASE PoolStep(w)
  <2>1. UNCHANGED sumvars
    BY <1>1 DEF PoolStep
  <2>2. BQ_Wait(w) \/ BQ_Get(w) \/ BQ_Get0(w) \/ WorkerThreadFunc(w)
    BY <1>1 DEF PoolStep, WorkerGets
  <2> QED BY <2>1, <2>2, WaitKeeps, QueueGetKeeps, Get0Keeps, FuncReturnsKeeps
<1> QED
  BY <1>1, SystemStartsKeeps, WorkerFuncKeeps, WorkerFuncTPKeeps, DecrementKeeps, SetKeeps
     DEF SumWorkerStep

\* Every step of the thread that called the sum keeps the invariant.
LEMMA MainStepKeeps ==
  ASSUME SumIInv, SumMainStep
  PROVE  SumIInv'
<1>1. ASSUME NEW end, end = EndOf(part), StartTp(end), ~WithLatch PROVE SumIInv'
  BY <1>1, HandOverKeeps DEF StartTp, CtxInitTp
<1>2. ASSUME ~WithLatch, ~EqualPartsOnly, StartTp(LastTakesRest) PROVE SumIInv'
  <2>1. part < nParts
    BY <1>2 DEF StartTp, CtxInitTp, CtxInit
  <2> QED BY <2>1, <1>1, <1>2, EndsGiven
<1>3. ASSUME EqualPartsOnly, StartTp(EqualParts) PROVE SumIInv'
  <2>1. part < nParts /\ ~WithLatch
    BY <1>3 DEF StartTp, CtxInitTp, CtxInit, EqualPartsOnly, WithLatch
  <2> QED BY <2>1, <1>1, <1>3, EndsGiven
<1>4. ASSUME WithLatch, CtxInitTpCdl(LastTakesRest),
             BySystem \/ (TpQueueItem(part) /\ UNCHANGED system)
      PROVE  SumIInv'
  <2>1. part < nParts /\ ~EqualPartsOnly
    BY <1>4 DEF CtxInitTpCdl, CtxInit, EqualPartsOnly, WithLatch
  <2>2. LastTakesRest = EndOf(part) /\ CtxInit(LastTakesRest) /\ UNCHANGED partialWorkDone
    BY <2>1, <1>4, EndsGiven DEF CtxInitTpCdl
  <2> QED BY <2>2, <1>4, HandOverKeeps
<1>5. ASSUME ~WithLatch, adder # "ParallelSumTPMW", NoWait \/ WaitEach PROVE SumIInv'
  BY <1>5, LoopBeginsKeeps, CollectKeeps DEF NoWait, WaitEach
<1>6. ASSUME WithLatch, CDL_Wait \/ Collect PROVE SumIInv'
  <2>1. adder # "ParallelSumTPMW"
    BY <1>6 DEF WithLatch
  <2>2. CASE Collect
    BY <2>2, <1>6, CollectKeeps
  <2>3. CASE CDL_Wait
    <3>1. CASE cdl.Counter = 0 /\ MainGoes("start", "sum")
      BY <2>1, <3>1, LoopBeginsKeeps
    <3>2. CASE cdl.WorkDone /\ MainGoes("latched", "sum")
      BY <2>1, <3>2, LoopBeginsKeeps
    <3> QED BY <2>3, <3>1, <3>2, LatchedKeeps DEF CDL_Wait
  <2> QED BY <1>6, <2>2, <2>3
<1>7. CASE ParallelSum \/ ParallelArraySum \/ ParallelSumTP
  <2>1. ~WithLatch /\ ~EqualPartsOnly /\ adder # "ParallelSumTPMW"
    BY <1>7 DEF ParallelSum, ParallelArraySum, ParallelSumTP, WithLatch, EqualPartsOnly
  <2> QED BY <1>7, <2>1, <1>2, <1>5 DEF ParallelSum, ParallelArraySum, ParallelSumTP
<1>8. CASE ParallelAdder \/ ParallelAdderTP
  <2>1. ~WithLatch /\ EqualPartsOnly /\ adder # "ParallelSumTPMW"
    BY <1>8 DEF ParallelAdder, ParallelAdderTP, WithLatch, EqualPartsOnly
  <2> QED BY <1>8, <2>1, <1>3, <1>5 DEF ParallelAdder, ParallelAdderTP
<1>9. CASE ParallelSumTPMW
  <2>1. ~WithLatch /\ ~EqualPartsOnly /\ adder = "ParallelSumTPMW"
    BY <1>9 DEF ParallelSumTPMW, WithLatch, EqualPartsOnly
  <2>2. CASE WaitForMultiple
    BY <2>1, <2>2, LoopBeginsKeeps DEF WaitForMultiple
  <2>3. CASE Collect
    BY <2>1, <2>3, CollectKeeps
  <2> QED BY <1>9, <2>1, <2>2, <2>3, <1>2 DEF ParallelSumTPMW
<1>10. CASE ParallelSumTPCDL
  <2>1. WithLatch
    BY <1>10 DEF ParallelSumTPCDL, WithLatch
  <2> QED BY <1>10, <2>1, <1>4, <1>6 DEF ParallelSumTPCDL
<1>11. CASE ParallelSumSOTPCDL
  <2>1. WithLatch
    BY <1>11 DEF ParallelSumSOTPCDL, WithLatch
  <2> QED BY <1>11, <2>1, <1>4, <1>6, QueueReleasedKeeps DEF ParallelSumSOTPCDL
<1> QED
  BY <1>7, <1>8, <1>9, <1>10, <1>11, TestKeeps, ReturnKeeps DEF SumMainStep

\* A step that changes nothing of the sum keeps the invariant.
LEMMA SumStuttersKeeps ==
  ASSUME SumIInv, UNCHANGED <<sumvars, poolvars>>
  PROVE  SumIInv'
<1>1. PoolIInv' /\ Busy' = Busy
  BY PoolStutters DEF SumIInv
<1>2. UNCHANGED <<bqueue, worker, unit>>
  BY DEF poolvars, queuevars
<1> QED BY <1>1, <1>2, QuietKeeps

\* The invariant holds in every reachable state.
LEMMA SumInvariantHolds == SumSpec => []SumIInv
<1>1. SumIInv /\ [SumNext]_<<sumvars, poolvars>> => SumIInv'
  BY WorkerStepKeeps, MainStepKeeps, SumStuttersKeeps DEF SumNext
<1> QED BY <1>1, SumInitHolds, PTL DEF SumSpec

\* Every call returns the sum of the whole array (with the exceptions that
\* SumIsComplete names), for any number of parts, of workers and of elements.
THEOREM SumComplete == SumSpec => []SumIsComplete
<1>1. SumIInv => SumIsComplete
  BY DEF SumIInv
<1> QED BY <1>1, SumInvariantHolds, PTL

\* The permits of the pool match the items and the space of its queue.
THEOREM PermitsMatch == SumSpec => []PoolPermitsMatch
<1>1. SumIInv => PoolPermitsMatch
  BY DEF SumIInv, PoolIInv
<1> QED BY <1>1, SumInvariantHolds, PTL
=============================================================================
