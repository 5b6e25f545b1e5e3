---------------------------- MODULE WinSynch_proofs ----------------------------
(* Theorems about the synchronizers of WinSynch, for every set of threads and *)
(* every value of the bounds.  The threads share one object, so its invariant *)
(* holds while the others stay as they were made.                             *)
EXTENDS WinSynch, FiniteSetTheorems, SequenceTheorems, TLAPS

\* Where the threads can be in the calls of each object.
SQueuePlaces == {"program", "put", "filled", "get", "emptied"}
LatchPlaces == {"program", "set", "latched", "resetting"}
BarrierPlaces == {"program", "restart", "bsignal", "bevent", "bwait"}

\* A thread of the bounded queue goes on: where it was, where it is, and that the
\* others stay.
LEMMA SQueueGoes ==
  ASSUME pc \in [Threads -> SQueuePlaces], NEW t \in Threads,
         NEW from, NEW to \in SQueuePlaces, Goto(t, from, to)
  PROVE  /\ pc' \in [Threads -> SQueuePlaces] /\ pc[t] = from /\ pc'[t] = to
         /\ \A u \in Threads \ {t} : pc'[u] = pc[u]
BY DEF Goto

\* So does a thread of the latch.
LEMMA LatchGoes ==
  ASSUME pc \in [Threads -> LatchPlaces], NEW t \in Threads,
         NEW from, NEW to \in LatchPlaces, Goto(t, from, to)
  PROVE  /\ pc' \in [Threads -> LatchPlaces] /\ pc[t] = from /\ pc'[t] = to
         /\ \A u \in Threads \ {t} : pc'[u] = pc[u]
BY DEF Goto

\* So does a peer of the barrier.
LEMMA PeerGoes ==
  ASSUME pc \in [Threads -> BarrierPlaces], NEW t \in Threads,
         NEW from, NEW to \in BarrierPlaces, Goto(t, from, to)
  PROVE  /\ pc' \in [Threads -> BarrierPlaces] /\ pc[t] = from /\ pc'[t] = to
         /\ \A u \in Threads \ {t} : pc'[u] = pc[u]
BY DEF Goto

\* The number of a set of threads that one joins.
LEMMA OneMore ==
  ASSUME NEW S \in SUBSET Threads, NEW t \in Threads \ S
  PROVE  Cardinality(S) \in Nat /\ Cardinality(S \cup {t}) = Cardinality(S) + 1
<1>1. IsFiniteSet(S)
  BY WinThreadsAssumption, FS_Subset
<1> QED BY <1>1, FS_AddElement, FS_CardinalityType

\* The number of a set that one leaves.
LEMMA OneLess ==
  ASSUME NEW S \in SUBSET Threads, NEW t \in S
  PROVE  /\ Cardinality(S) \in Nat \ {0}
         /\ Cardinality(S \ {t}) = Cardinality(S) - 1
<1>1. IsFiniteSet(S)
  BY WinThreadsAssumption, FS_Subset
<1> QED BY <1>1, FS_RemoveElement, FS_CardinalityType, FS_EmptySet

-----------------------------------------------------------------------------
(* The user-level mutex.                                                      *)

Places == {"program", "spin", "cas", "increment", "sleep", "enter", "inside",
           "leave", "signal"}

\* Type invariant.
UMtxTypeOK ==
  /\ pc \in [Threads -> Places]
  /\ Owner \in Threads \cup {NULL}
  /\ Count \in Nat
  /\ Wakeup \in BOOLEAN

\* The inductive invariant.  What the two checked ones lack is that the mutex is
\* passed on only when somebody sleeps: otherwise Count could be 0, and a spinner
\* win the exchange, while the event is about to be set.
SomebodyToWake == Passing # {} \/ Wakeup => At("sleep") # {}

UMtxIInv == UMtxTypeOK /\ UMtxExclusion /\ UMtxNoLostWakeup /\ SomebodyToWake

\* Those whom Count counts.
Counted == Holders \cup At("sleep")

\* Count is 0 only when nobody holds the mutex or sleeps, and then nobody passes
\* it on either.
LEMMA CountZero ==
  ASSUME UMtxIInv, Count = 0
  PROVE  Holders = {} /\ At("sleep") = {} /\ Passing = {} /\ ~Wakeup
<1>1. IsFiniteSet(Counted)
  BY WinThreadsAssumption, FS_Subset DEF Counted, Holders, At
<1>2. Cardinality(Counted) = 0
  BY DEF UMtxIInv, UMtxNoLostWakeup, Counted
<1>3. Counted = {}
  BY <1>1, <1>2, FS_EmptySet
<1> QED BY <1>3 DEF Counted, UMtxIInv, SomebodyToWake

\* The places of all threads after one has gone on.
LEMMA Moves ==
  ASSUME UMtxTypeOK, NEW t \in Threads, NEW from, NEW to \in Places, Goto(t, from, to)
  PROVE  /\ pc' \in [Threads -> Places]
         /\ pc[t] = from /\ pc'[t] = to
         /\ \A u \in Threads \ {t} : pc'[u] = pc[u]
BY DEF UMtxTypeOK, Goto

\* Count grows with the thread that joins those it counts.
LEMMA CountUp ==
  ASSUME NEW t \in Threads, t \notin Counted, Counted' = Counted \cup {t},
         Count = Cardinality(Counted), Count' = Count + 1
  PROVE  Count' = Cardinality(Counted')
<1>1. IsFiniteSet(Counted)
  BY WinThreadsAssumption, FS_Subset DEF Counted, Holders, At
<1>2. Cardinality(Counted \cup {t}) = Cardinality(Counted) + 1
  BY <1>1, FS_AddElement
<1> QED BY <1>2

\* Count falls with the thread that leaves.
LEMMA CountDown ==
  ASSUME NEW t \in Threads, t \in Counted, Counted' = Counted \ {t},
         Count = Cardinality(Counted), Count' = Count - 1
  PROVE  Count' = Cardinality(Counted') /\ Count' \in Nat
<1>1. IsFiniteSet(Counted)
  BY WinThreadsAssumption, FS_Subset DEF Counted, Holders, At
<1>2. Cardinality(Counted \ {t}) = Cardinality(Counted) - 1 /\ IsFiniteSet(Counted \ {t})
  BY <1>1, FS_RemoveElement
<1> QED BY <1>2, FS_CardinalityType

\* A step inside the acquisition that neither gets the mutex nor waits.
LEMMA ElsewhereKeeps ==
  ASSUME UMtxIInv, NEW t \in Threads,
         NEW from \in {"program", "spin", "cas", "increment"},
         NEW to \in {"program", "spin", "cas", "increment"},
         Goto(t, from, to), UNCHANGED <<Owner, Count, Wakeup>>
  PROVE  UMtxIInv'
<1>1. /\ pc' \in [Threads -> Places]
      /\ pc[t] = from /\ pc'[t] = to
      /\ \A u \in Threads \ {t} : pc'[u] = pc[u]
  BY Moves DEF UMtxIInv, Places
<1>2. \A l \in {"sleep", "enter", "inside", "leave", "signal"} : At(l)' = At(l)
  BY <1>1 DEF At
<1>3. Holders' = Holders /\ Passing' = Passing /\ At("sleep")' = At("sleep")
  BY <1>2 DEF Holders, Passing
<1>4. \A u \in Threads : pc'[u] = "inside" <=> pc[u] = "inside"
  BY <1>1
<1> QED BY <1>1, <1>3, <1>4
    DEF UMtxIInv, UMtxTypeOK, UMtxExclusion, UMtxNoLostWakeup, SomebodyToWake

\* The mutex gets a holder who neither slept nor was passed it: Count was 0.
LEMMA FreeEntered ==
  ASSUME UMtxIInv, NEW t \in Threads, Count = 0, Count' = 1,
         NEW from \in {"cas", "increment"}, Goto(t, from, "enter"),
         UNCHANGED <<Owner, Wakeup>>
  PROVE  UMtxIInv'
<1>1. /\ pc' \in [Threads -> Places]
      /\ pc[t] = from /\ pc'[t] = "enter"
      /\ \A u \in Threads \ {t} : pc'[u] = pc[u]
  BY Moves DEF UMtxIInv, Places
<1>2. Holders = {} /\ At("sleep") = {} /\ Passing = {} /\ ~Wakeup
  BY CountZero
<1>3. Holders' = {t} /\ Passing' = {} /\ At("sleep")' = {}
  BY <1>1, <1>2 DEF Holders, Passing, At
<1>4. Counted = {} /\ Counted' = {t}
  BY <1>2, <1>3 DEF Counted
<1>5. Count' = Cardinality(Counted')
  <2>1. Count = Cardinality(Counted) /\ Count' = Count + 1
    BY DEF UMtxIInv, UMtxNoLostWakeup, Counted
  <2>2. t \notin Counted /\ Counted' = Counted \cup {t}
    BY <1>4
  <2> QED BY <2>1, <2>2, CountUp
<1>6. \A u \in Threads : pc'[u] = "inside" <=> pc[u] = "inside"
  BY <1>1
<1> QED BY <1>1, <1>2, <1>3, <1>5, <1>6
    DEF UMtxIInv, UMtxTypeOK, UMtxExclusion, UMtxNoLostWakeup, SomebodyToWake, Counted

\* The invariant holds at the start.
LEMMA UMtxInitHolds ==
  UMtxInit /\ pc = [t \in Threads |-> "program"] => UMtxIInv
<1> SUFFICES ASSUME UMtxInit, pc = [t \in Threads |-> "program"] PROVE UMtxIInv
  OBVIOUS
<1>1. \A l \in Places \ {"program"} : At(l) = {}
  BY DEF At, Places
<1>2. Holders = {} /\ Passing = {} /\ At("sleep") = {}
  BY <1>1 DEF Holders, Passing, Places
<1> QED BY <1>2, FS_EmptySet, WinThreadsAssumption
    DEF UMtxInit, UMtxIInv, UMtxTypeOK, UMtxExclusion, UMtxNoLostWakeup,
        SomebodyToWake, Places

\* Whoever spins, sleeps, enters and leaves, the mutex has one holder at most and
\* Count, the event and the owner agree with it.
LEMMA UMtxNextKeeps ==
  ASSUME UMtxIInv, [UMtxNext]_<<pc, umtxvars>>
  PROVE  UMtxIInv'
<1>1. ASSUME NEW t \in Threads, UMtxAcquireAgain(t) \/ UMtxReleaseOnce(t)
      PROVE  UMtxIInv'
  BY <1>1
  DEF UMtxAcquireAgain, UMtxReleaseOnce, UMtxIInv, UMtxTypeOK, UMtxExclusion,
      UMtxNoLostWakeup, SomebodyToWake, Holders, Passing, At
<1>2. ASSUME NEW t \in Threads, UMtxAcquire(t) \/ UMtxSpun(t) PROVE UMtxIInv'
  BY <1>2, ElsewhereKeeps DEF UMtxAcquire, UMtxSpun, umtxvars
<1>3. ASSUME NEW t \in Threads, UMtxSpin(t) PROVE UMtxIInv'
  <2>1. CASE Goto(t, "spin", "cas")
    BY <1>3, <2>1, ElsewhereKeeps DEF UMtxSpin
  <2>2. CASE UNCHANGED pc
    BY <1>3, <2>2
    DEF UMtxSpin, UMtxIInv, UMtxTypeOK, UMtxExclusion, UMtxNoLostWakeup,
        SomebodyToWake, Holders, Passing, At
  <2> QED BY <1>3, <2>1, <2>2 DEF UMtxSpin
<1>4. ASSUME NEW t \in Threads, UMtxTry(t) PROVE UMtxIInv'
  BY <1>4, ElsewhereKeeps, FreeEntered DEF UMtxTry
<1>5. ASSUME NEW t \in Threads, UMtxIncrement(t) PROVE UMtxIInv'
  <2>1. CASE Count = 0
    BY <1>5, <2>1, FreeEntered DEF UMtxIncrement
  <2>2. CASE Count # 0
    <3>1. Count > 0 /\ Count \in Nat /\ Count' \in Nat
      BY <1>5, <2>2 DEF UMtxIncrement, UMtxIInv, UMtxTypeOK
    <3>2. /\ Goto(t, "increment", "sleep") /\ Count' = Count + 1
          /\ UNCHANGED <<Owner, Wakeup>>
      BY <1>5, <3>1 DEF UMtxIncrement
    <3>3. /\ pc' \in [Threads -> Places]
          /\ pc[t] = "increment" /\ pc'[t] = "sleep"
          /\ \A u \in Threads \ {t} : pc'[u] = pc[u]
      BY <3>2, Moves DEF UMtxIInv, Places
    <3>4. /\ Holders' = Holders /\ Passing' = Passing
          /\ At("sleep")' = At("sleep") \cup {t} /\ t \notin Counted
      BY <3>3 DEF Holders, Passing, At, Counted
    <3>5. Count' = Cardinality(Counted')
      BY <3>2, <3>4, CountUp DEF Counted, UMtxIInv, UMtxNoLostWakeup
    <3>6. Counted # {}
      BY <3>1, FS_EmptySet DEF Counted, UMtxIInv, UMtxNoLostWakeup
    <3>7. Holders' \cup Passing' # {} \/ Wakeup'
      BY <3>2, <3>4, <3>6 DEF Counted, UMtxIInv, UMtxNoLostWakeup
    <3>8. \A u \in Threads : pc'[u] = "inside" <=> pc[u] = "inside"
      BY <3>3
    <3> QED BY <3>1, <3>2, <3>3, <3>4, <3>5, <3>7, <3>8
        DEF UMtxIInv, UMtxTypeOK, UMtxExclusion, UMtxNoLostWakeup, SomebodyToWake,
            Counted
  <2> QED BY <2>1, <2>2
<1>6. ASSUME NEW t \in Threads, UMtxWait(t) PROVE UMtxIInv'
  <2>1. /\ pc' \in [Threads -> Places]
        /\ pc[t] = "sleep" /\ pc'[t] = "enter"
        /\ \A u \in Threads \ {t} : pc'[u] = pc[u]
        /\ Wakeup /\ Wakeup' = FALSE /\ UNCHANGED <<Owner, Count>>
    BY <1>6, Moves DEF UMtxWait, UMtxIInv, Places
  <2>2. Holders = {} /\ Passing = {}
    BY <2>1 DEF UMtxIInv, UMtxExclusion
  <2>3. /\ Holders' = {t} /\ Passing' = {}
        /\ At("sleep")' = At("sleep") \ {t} /\ t \in At("sleep")
    BY <2>1, <2>2 DEF Holders, Passing, At
  <2>4. Counted' = Counted
    BY <2>2, <2>3 DEF Counted
  <2>5. \A u \in Threads : pc'[u] = "inside" <=> pc[u] = "inside"
    BY <2>1
  <2> QED BY <2>1, <2>3, <2>4, <2>5
      DEF UMtxIInv, UMtxTypeOK, UMtxExclusion, UMtxNoLostWakeup, SomebodyToWake,
          Counted
<1>7. ASSUME NEW t \in Threads, UMtxEnter(t) \/ UMtxRelease(t) PROVE UMtxIInv'
  <2>1. /\ pc' \in [Threads -> Places]
        /\ \A u \in Threads \ {t} : pc'[u] = pc[u]
        /\ \/ pc[t] = "enter" /\ pc'[t] = "inside" /\ Owner' = t
           \/ pc[t] = "inside" /\ pc'[t] = "leave" /\ Owner' = NULL
        /\ UNCHANGED <<Count, Wakeup>>
    BY <1>7, Moves DEF UMtxEnter, UMtxRelease, UMtxIInv, Places
  <2>2. Holders' = Holders /\ Passing' = Passing /\ At("sleep")' = At("sleep")
    BY <2>1 DEF Holders, Passing, At
  <2>3. t \in Holders
    BY <2>1 DEF Holders, At
  <2>4. \A u \in Threads : pc'[u] = "inside" <=> Owner' = u
    BY <2>1, <2>3, WinThreadsAssumption DEF UMtxIInv, UMtxExclusion, Holders, At
  <2> QED BY <2>1, <2>2, <2>4
      DEF UMtxIInv, UMtxTypeOK, UMtxExclusion, UMtxNoLostWakeup, SomebodyToWake
<1>8. ASSUME NEW t \in Threads, UMtxDecrement(t) PROVE UMtxIInv'
  <2>1. /\ pc[t] = "leave" /\ pc' \in [Threads -> Places]
        /\ pc'[t] = IF Count > 1 THEN "signal" ELSE "program"
        /\ \A u \in Threads \ {t} : pc'[u] = pc[u]
        /\ Count' = Count - 1 /\ UNCHANGED <<Owner, Wakeup>>
    BY <1>8, Moves DEF UMtxDecrement, UMtxIInv, Places
  <2>2. Holders = {t} /\ Passing = {} /\ ~Wakeup
    BY <2>1 DEF UMtxIInv, UMtxExclusion, Holders, Passing, At
  <2>3. /\ Holders' = {} /\ At("sleep")' = At("sleep")
        /\ Passing' = IF Count > 1 THEN {t} ELSE {}
    BY <2>1, <2>2 DEF Holders, Passing, At
  <2>4. t \in Counted /\ Counted' = Counted \ {t} /\ Counted' = At("sleep")
    BY <2>1, <2>2, <2>3 DEF Counted, At
  <2>5. Count' = Cardinality(Counted') /\ Count' \in Nat
    BY <2>1, <2>4, CountDown DEF Counted, UMtxIInv, UMtxNoLostWakeup
  <2>6. Count > 1 <=> At("sleep") # {}
    <3>1. IsFiniteSet(At("sleep"))
      BY WinThreadsAssumption, FS_Subset DEF At
    <3>2. Cardinality(At("sleep")) = 0 <=> At("sleep") = {}
      BY <3>1, FS_EmptySet
    <3> QED BY <2>1, <2>4, <2>5, <3>2 DEF UMtxIInv, UMtxTypeOK
  <2>7. \A u \in Threads : pc'[u] = "inside" <=> pc[u] = "inside"
    BY <2>1
  <2> QED BY <2>1, <2>2, <2>3, <2>4, <2>5, <2>6, <2>7
      DEF UMtxIInv, UMtxTypeOK, UMtxExclusion, UMtxNoLostWakeup, SomebodyToWake,
          Counted
<1>9. ASSUME NEW t \in Threads, UMtxSignal(t) PROVE UMtxIInv'
  <2>1. /\ pc' \in [Threads -> Places]
        /\ pc[t] = "signal" /\ pc'[t] = "program"
        /\ \A u \in Threads \ {t} : pc'[u] = pc[u]
        /\ Wakeup' = TRUE /\ UNCHANGED <<Owner, Count>>
    BY <1>9, Moves DEF UMtxSignal, UMtxIInv, Places
  <2>2. Holders = {} /\ Passing = {t} /\ At("sleep") # {}
    BY <2>1
    DEF UMtxIInv, UMtxExclusion, SomebodyToWake, Holders, Passing, At
  <2>3. Holders' = {} /\ Passing' = {} /\ At("sleep")' = At("sleep")
    BY <2>1, <2>2 DEF Holders, Passing, At
  <2>4. \A u \in Threads : pc'[u] = "inside" <=> pc[u] = "inside"
    BY <2>1
  <2> QED BY <2>1, <2>2, <2>3, <2>4
      DEF UMtxIInv, UMtxTypeOK, UMtxExclusion, UMtxNoLostWakeup, SomebodyToWake
<1>10. CASE UNCHANGED <<pc, umtxvars>>
  BY <1>10
  DEF umtxvars, UMtxIInv, UMtxTypeOK, UMtxExclusion, UMtxNoLostWakeup,
      SomebodyToWake, Holders, Passing, At
<1> QED BY <1>1, <1>2, <1>3, <1>4, <1>5, <1>6, <1>7, <1>8, <1>9, <1>10
    DEF UMtxNext, UMtxStep

-----------------------------------------------------------------------------
(* The queue that can be closed.                                              *)

QueuePlaces == {"program", "release", "index0", "index1"}

\* Type invariant.
QueueTypeOK ==
  /\ pc \in [Threads -> QueuePlaces]
  /\ list \in Seq(Threads)
  /\ nItems \in Int
  /\ itemsAvaiable \in Nat
  /\ terminated \in BOOLEAN
  /\ refusedGet \in BOOLEAN

\* Those whose permit is not in the semaphore.
Underway == At("release") \cup At("index0")

\* After QueueClose the length can be wrong, but only of an empty list, and not
\* too high: a getter that finds none left is right.
LengthIsKnown ==
  /\ nItems <= Len(list)
  /\ list # <<>> => nItems = Len(list)
  /\ At("index1") # {} => terminated

\* The inductive invariant.
QueueIInv == QueueTypeOK /\ LengthIsKnown /\ QueuePermitsMatch

\* There are finitely many of them.
LEMMA UnderwayFinite == IsFiniteSet(Underway) /\ Cardinality(Underway) \in Nat
<1>1. IsFiniteSet(Underway)
  BY WinThreadsAssumption, FS_Subset DEF Underway, At
<1> QED BY <1>1, FS_CardinalityType

\* One more permit is not in the semaphore.
LEMMA Joins ==
  ASSUME NEW t \in Threads, t \notin Underway, Underway' = Underway \cup {t}
  PROVE  Cardinality(Underway') = Cardinality(Underway) + 1
BY UnderwayFinite, FS_AddElement

\* One of them is again.
LEMMA Leaves ==
  ASSUME NEW t \in Threads, t \in Underway, Underway' = Underway \ {t}
  PROVE  Cardinality(Underway') = Cardinality(Underway) - 1
BY UnderwayFinite, FS_RemoveElement

\* The places of all threads after one has gone on.
LEMMA QueueMoves ==
  ASSUME QueueTypeOK, NEW t \in Threads, NEW to \in QueuePlaces,
         pc' = [pc EXCEPT ![t] = to]
  PROVE  /\ pc' \in [Threads -> QueuePlaces] /\ pc'[t] = to
         /\ \A u \in Threads \ {t} : pc'[u] = pc[u]
BY DEF QueueTypeOK

\* The queue starts with its invariant.
LEMMA QueueInitHolds ==
  QueueInit /\ pc = [t \in Threads |-> "program"] => QueueIInv
<1> SUFFICES ASSUME QueueInit, pc = [t \in Threads |-> "program"] PROVE QueueIInv
  OBVIOUS
<1>1. At("release") \cup At("index0") = {} /\ At("index1") = {}
  BY DEF At
<1>2. QueueTypeOK
  <2>1. pc \in [Threads -> QueuePlaces]
    BY DEF QueuePlaces
  <2>2. list \in Seq(Threads)
    BY EmptySeq DEF QueueInit
  <2>3. nItems \in Int /\ itemsAvaiable \in Nat
    BY DEF QueueInit
  <2>4. terminated \in BOOLEAN /\ refusedGet \in BOOLEAN
    BY DEF QueueInit
  <2> QED BY <2>1, <2>2, <2>3, <2>4 DEF QueueTypeOK
<1>3. LengthIsKnown
  BY <1>1 DEF QueueInit, LengthIsKnown
<1>4. Cardinality(At("release") \cup At("index0")) = 0
  BY <1>1, FS_EmptySet
<1>5. QueuePermitsMatch
  BY <1>4 DEF QueueInit, QueuePermitsMatch
<1> QED BY <1>2, <1>3, <1>5 DEF QueueIInv

\* Permits, items and the length stay consistent, before and after QueueClose.
LEMMA QueueNextKeeps ==
  ASSUME QueueIInv, [QueueNext]_<<pc, qvars>>
  PROVE  QueueIInv'
<1> DEFINE n == Cardinality(Underway)
<1>0. /\ n \in Nat /\ Len(list) \in Nat
      /\ QueueTypeOK
      /\ nItems <= Len(list)
      /\ list # <<>> => nItems = Len(list)
      /\ At("index1") # {} => terminated
      /\ Len(list) <= itemsAvaiable + n
      /\ ~terminated => Len(list) = itemsAvaiable + n /\ nItems = Len(list)
      /\ refusedGet => terminated /\ list = <<>>
  BY UnderwayFinite
  DEF QueueIInv, QueueTypeOK, LengthIsKnown, QueuePermitsMatch, Underway
<1>a. ASSUME QueueTypeOK',
             nItems' <= Len(list'), list' # <<>> => nItems' = Len(list'),
             At("index1")' # {} => terminated',
             Len(list') <= itemsAvaiable' + n',
             ~terminated' => Len(list') = itemsAvaiable' + n' /\ nItems' = Len(list'),
             refusedGet' => terminated' /\ list' = <<>>
      PROVE  QueueIInv'
  BY <1>a DEF QueueIInv, LengthIsKnown, QueuePermitsMatch, Underway
<1> HIDE DEF n
<1>1. ASSUME NEW t \in Threads, QueuePut(t) PROVE QueueIInv'
  <2>1. CASE terminated
    <3>1. UNCHANGED <<pc, list, nItems, itemsAvaiable, terminated, refusedGet>>
      BY <1>1, <2>1 DEF QueuePut
    <3>2. n' = n /\ At("index1")' = At("index1")
      BY <3>1 DEF n, Underway, At
    <3> QED BY <3>1, <3>2, <1>0, <1>a DEF QueueTypeOK
  <2>2. CASE ~terminated
    <3>1. /\ pc[t] = "program" /\ pc' = [pc EXCEPT ![t] = "release"]
          /\ list' = Append(list, t) /\ nItems' = nItems + 1
          /\ UNCHANGED <<itemsAvaiable, terminated, refusedGet>>
      BY <1>1, <2>2 DEF QueuePut, Goto
    <3>2. list' \in Seq(Threads) /\ Len(list') = Len(list) + 1
      BY <3>1, <1>0 DEF QueueTypeOK
    <3>3. /\ pc' \in [Threads -> QueuePlaces] /\ pc'[t] = "release"
          /\ \A u \in Threads \ {t} : pc'[u] = pc[u]
      BY <3>1, <1>0, QueueMoves DEF QueuePlaces
    <3>4. /\ t \notin Underway /\ Underway' = Underway \cup {t}
          /\ At("index1")' = At("index1")
      BY <3>1, <3>3 DEF Underway, At
    <3>5. n' = n + 1
      BY <3>4, Joins DEF n
    <3> QED BY <3>1, <3>2, <3>3, <3>4, <3>5, <2>2, <1>0, <1>a DEF QueueTypeOK
  <2> QED BY <2>1, <2>2
<1>2. ASSUME NEW t \in Threads, QueueRelease(t) PROVE QueueIInv'
  <2>1. /\ pc[t] = "release" /\ pc' = [pc EXCEPT ![t] = "program"]
        /\ itemsAvaiable' = itemsAvaiable + 1
        /\ UNCHANGED <<list, nItems, terminated, refusedGet>>
    BY <1>2 DEF QueueRelease, Goto
  <2>2. /\ pc' \in [Threads -> QueuePlaces] /\ pc'[t] = "program"
        /\ \A u \in Threads \ {t} : pc'[u] = pc[u]
    BY <2>1, <1>0, QueueMoves DEF QueuePlaces
  <2>3. /\ t \in Underway /\ Underway' = Underway \ {t}
        /\ At("index1")' = At("index1")
    BY <2>1, <2>2 DEF Underway, At
  <2>4. n' = n - 1
    BY <2>3, Leaves DEF n
  <2> QED BY <2>1, <2>2, <2>3, <2>4, <1>0, <1>a DEF QueueTypeOK
<1>3. ASSUME NEW t \in Threads, QueueWait(t) PROVE QueueIInv'
  <2>1. CASE itemsAvaiable > 0
    <3>1. /\ pc[t] = "program" /\ pc' = [pc EXCEPT ![t] = "index0"]
          /\ itemsAvaiable' = itemsAvaiable - 1
          /\ UNCHANGED <<list, nItems, terminated, refusedGet>>
      BY <1>3, <2>1 DEF QueueWait, Goto
    <3>2. /\ pc' \in [Threads -> QueuePlaces] /\ pc'[t] = "index0"
          /\ \A u \in Threads \ {t} : pc'[u] = pc[u]
      BY <3>1, <1>0, QueueMoves DEF QueuePlaces
    <3>3. /\ t \notin Underway /\ Underway' = Underway \cup {t}
          /\ At("index1")' = At("index1")
      BY <3>1, <3>2 DEF Underway, At
    <3>4. n' = n + 1
      BY <3>3, Joins DEF n
    <3> QED BY <3>1, <3>2, <3>3, <3>4, <2>1, <1>0, <1>a DEF QueueTypeOK
  <2>2. CASE itemsAvaiable = 0
    <3>1. /\ pc[t] = "program" /\ pc' = [pc EXCEPT ![t] = "index1"] /\ terminated
          /\ UNCHANGED <<list, nItems, itemsAvaiable, terminated, refusedGet>>
      BY <1>3, <2>2 DEF QueueWait, Goto
    <3>2. /\ pc' \in [Threads -> QueuePlaces] /\ pc'[t] = "index1"
          /\ \A u \in Threads \ {t} : pc'[u] = pc[u]
      BY <3>1, <1>0, QueueMoves DEF QueuePlaces
    <3>3. Underway' = Underway
      BY <3>1, <3>2 DEF Underway, At
    <3>4. n' = n
      BY <3>3 DEF n
    <3> QED BY <3>1, <3>2, <3>4, <1>0, <1>a DEF QueueTypeOK
  <2> QED BY <2>1, <2>2, <1>0 DEF QueueTypeOK
<1>4. ASSUME NEW t \in Threads, QueueTake(t) PROVE QueueIInv'
  <2> DEFINE rest == IF list = <<>> THEN <<>> ELSE Tail(list)
  <2>1. /\ rest \in Seq(Threads)
        /\ Len(rest) = IF list = <<>> THEN 0 ELSE Len(list) - 1
        /\ list = <<>> <=> Len(list) = 0
        /\ rest = <<>> <=> Len(rest) = 0
    BY <1>0, EmptySeq, LenProperties, HeadTailProperties DEF QueueTypeOK
  <2>2. /\ pc' \in [Threads -> QueuePlaces] /\ pc'[t] = "program"
        /\ \A u \in Threads \ {t} : pc'[u] = pc[u]
        /\ UNCHANGED <<itemsAvaiable, terminated>>
    BY <1>4, <1>0, QueueMoves DEF QueueTake, QueuePlaces
  <2>3. At("index1")' # {} => At("index1") # {}
    BY <2>2 DEF At
  <2>4. CASE pc[t] = "index0"
    <3>1. list' = rest /\ nItems' = nItems - 1 /\ UNCHANGED refusedGet
      BY <1>4, <2>4 DEF QueueTake
    <3>2. t \in Underway /\ Underway' = Underway \ {t}
      BY <2>2, <2>4 DEF Underway, At
    <3>a. n' = n - 1
      BY <3>2, Leaves DEF n
    <3>b. n # 0
      BY <3>2, UnderwayFinite, FS_EmptySet DEF n
    <3>3. n' = n - 1 /\ n' \in Nat
      BY <3>a, <3>b, <1>0
    <3> HIDE DEF rest
    <3> QED BY <2>1, <2>2, <2>3, <3>1, <3>3, <1>0, <1>a DEF QueueTypeOK
  <2>5. CASE pc[t] = "index1"
    <3>1. Underway' = Underway /\ terminated
      BY <2>2, <2>5, <1>0 DEF Underway, At
    <3>2. n' = n
      BY <3>1 DEF n
    <3>3. CASE nItems > 0
      <4>1. list' = rest /\ nItems' = nItems - 1 /\ UNCHANGED refusedGet
        BY <1>4, <2>5, <3>3, <1>0 DEF QueueTake, QueueTypeOK
      <4> HIDE DEF rest
      <4> QED BY <2>1, <2>2, <2>3, <3>1, <3>2, <3>3, <4>1, <1>0, <1>a DEF QueueTypeOK
    <3>4. CASE nItems <= 0
      <4>1. UNCHANGED <<list, nItems>> /\ refusedGet' = TRUE
        BY <1>4, <2>5, <3>4, <1>0 DEF QueueTake, QueueTypeOK
      <4> QED BY <2>1, <2>2, <2>3, <3>1, <3>2, <3>4, <4>1, <1>0, <1>a DEF QueueTypeOK
    <3> QED BY <3>3, <3>4, <1>0 DEF QueueTypeOK
  <2> QED BY <1>4, <2>4, <2>5 DEF QueueTake
<1>5. ASSUME NEW t \in Threads, QueueClose(t) PROVE QueueIInv'
  <2>1. /\ UNCHANGED <<pc, list, nItems, itemsAvaiable, refusedGet>>
        /\ terminated' = TRUE
    BY <1>5 DEF QueueClose
  <2>2. n' = n
    BY <2>1 DEF n, Underway, At
  <2> QED BY <2>1, <2>2, <1>0, <1>a DEF QueueTypeOK
<1>6. CASE QueueDestroy \/ UNCHANGED <<pc, qvars>>
  <2>1. UNCHANGED <<pc, list, nItems, itemsAvaiable, refusedGet, terminated>>
    BY <1>6 DEF QueueDestroy, qvars
  <2>2. n' = n /\ At("index1")' = At("index1")
    BY <2>1 DEF n, Underway, At
  <2> QED BY <2>1, <2>2, <1>0, <1>a DEF QueueTypeOK
<1> QED BY <1>1, <1>2, <1>3, <1>4, <1>5, <1>6 DEF QueueNext

-----------------------------------------------------------------------------
(* The bounded queue.                                                         *)

\* Threads on their way from a place to the item, and from the item to a place.
Filling == At("filled") \cup At("get")
Emptying == At("put") \cup At("emptied")

\* The inductive invariant: SQueueAccounts and the types.
SQueueIInv ==
  /\ pc \in [Threads -> SQueuePlaces]
  /\ slist \in Seq(Threads)
  /\ sitemsAvaiable \in Nat /\ spaceAvaiable \in Nat /\ lost \in Nat
  /\ SQueueAccounts

\* All places are free at the start.
LEMMA AllFree == maxItems = maxItems + 0 + 0 + 0
BY SimpleQueueAssumption

\* The bounded queue starts with its invariant.
LEMMA SQueueInitHolds ==
  ASSUME SQueueInit, pc = [t \in Threads |-> "program"]
  PROVE  SQueueIInv
<1>1. At("filled") \cup At("get") = {} /\ At("put") \cup At("emptied") = {}
  BY DEF At
<1>2. Cardinality({}) = 0 /\ Len(<<>>) = 0 /\ <<>> \in Seq(Threads)
  BY FS_EmptySet, EmptySeq
<1>3. SQueueAccounts
  <2>1. /\ Cardinality(At("filled") \cup At("get")) = 0
        /\ Cardinality(At("put") \cup At("emptied")) = 0 /\ Len(slist) = 0
    BY <1>1, <1>2 DEF SQueueInit
  <2> QED BY <2>1, AllFree DEF SQueueAccounts, SQueueInit
<1>4. pc \in [Threads -> SQueuePlaces]
  BY DEF SQueuePlaces
<1> QED BY <1>2, <1>3, <1>4, SimpleQueueAssumption DEF SQueueIInv, SQueueInit

\* A place is free, filled, lost to a close, or on its way, and each step moves one.
LEMMA SQueueNextKeeps ==
  ASSUME SQueueIInv, SQueueNext
  PROVE  SQueueIInv'
<1> DEFINE f == Cardinality(Filling)
           e == Cardinality(Emptying)
<1>0. /\ pc \in [Threads -> SQueuePlaces]
      /\ slist \in Seq(Threads) /\ Len(slist) \in Nat
      /\ sitemsAvaiable \in Nat /\ spaceAvaiable \in Nat /\ lost \in Nat
      /\ snItems = Len(slist)
      /\ Len(slist) = sitemsAvaiable + f
      /\ maxItems = spaceAvaiable + Len(slist) + lost + e
  BY DEF SQueueIInv, SQueueAccounts, Filling, Emptying
<1>a. ASSUME pc' \in [Threads -> SQueuePlaces],
             slist' \in Seq(Threads),
             sitemsAvaiable' \in Nat, spaceAvaiable' \in Nat, lost' \in Nat,
             snItems' = Len(slist'),
             Len(slist') = sitemsAvaiable' + f',
             maxItems = spaceAvaiable' + Len(slist') + lost' + e'
      PROVE  SQueueIInv'
  BY <1>a DEF SQueueIInv, SQueueAccounts, Filling, Emptying
<1>b. f \in Nat /\ e \in Nat
  <2>1. IsFiniteSet(Filling) /\ IsFiniteSet(Emptying)
    BY WinThreadsAssumption, FS_Subset DEF Filling, Emptying, At
  <2> QED BY <2>1, FS_CardinalityType
<1> HIDE DEF f, e
\* The four ways the sets change.
<1>c. ASSUME NEW t \in Threads, t \notin Filling, Filling' = Filling \cup {t}
      PROVE  f' = f + 1
  BY <1>c, OneMore DEF f, Filling, At
<1>d. ASSUME NEW t \in Threads, t \in Filling, Filling' = Filling \ {t}
      PROVE  f' = f - 1 /\ f > 0
  <2>1. Filling \in SUBSET Threads
    BY DEF Filling, At
  <2> QED BY <2>1, <1>d, OneLess DEF f
<1>e. ASSUME NEW t \in Threads, t \notin Emptying, Emptying' = Emptying \cup {t}
      PROVE  e' = e + 1
  BY <1>e, OneMore DEF e, Emptying, At
<1>f. ASSUME NEW t \in Threads, t \in Emptying, Emptying' = Emptying \ {t}
      PROVE  e' = e - 1 /\ e > 0
  <2>1. Emptying \in SUBSET Threads
    BY DEF Emptying, At
  <2> QED BY <2>1, <1>f, OneLess DEF e
<1>g. ASSUME UNCHANGED <<Filling, Emptying>> PROVE f' = f /\ e' = e
  BY <1>g DEF f, e
<1>1. ASSUME NEW t \in Threads, SQueueWaitSpace(t) PROVE SQueueIInv'
  <2>1. /\ pc[t] = "program" /\ pc'[t] = "put" /\ pc' \in [Threads -> SQueuePlaces]
        /\ \A u \in Threads \ {t} : pc'[u] = pc[u]
        /\ spaceAvaiable' = spaceAvaiable - 1 /\ spaceAvaiable > 0
        /\ UNCHANGED <<slist, snItems, sitemsAvaiable, lost>>
    BY <1>0, <1>1, SQueueGoes DEF SQueueWaitSpace, SQueuePlaces
  <2>2. t \notin Emptying /\ Emptying' = Emptying \cup {t} /\ Filling' = Filling
    BY <2>1 DEF Filling, Emptying, At
  <2>3. e' = e + 1 /\ f' = f
    BY <2>2, <1>e DEF f
  <2> QED BY <2>1, <2>3, <1>0, <1>a, <1>b
<1>2. ASSUME NEW t \in Threads, SQueuePut(t) PROVE SQueueIInv'
  <2>1. CASE ~sterminated
    <3>1. /\ pc[t] = "put" /\ pc'[t] = "filled" /\ pc' \in [Threads -> SQueuePlaces]
          /\ \A u \in Threads \ {t} : pc'[u] = pc[u]
          /\ slist' = Append(slist, t) /\ snItems' = snItems + 1
          /\ UNCHANGED <<sitemsAvaiable, spaceAvaiable, lost>>
      BY <1>0, <1>2, <2>1, SQueueGoes DEF SQueuePut, SQueuePlaces
    <3>2. /\ t \in Emptying /\ Emptying' = Emptying \ {t}
          /\ t \notin Filling /\ Filling' = Filling \cup {t}
      BY <3>1 DEF Filling, Emptying, At
    <3>3. e' = e - 1 /\ f' = f + 1
      BY <3>2, <1>c, <1>f
    <3>4. slist' \in Seq(Threads) /\ Len(slist') = Len(slist) + 1
      BY <3>1, <1>0
    <3> QED BY <3>1, <3>3, <3>4, <1>0, <1>a, <1>b
  <2>2. CASE sterminated
    <3>1. /\ pc[t] = "put" /\ pc'[t] = "program" /\ pc' \in [Threads -> SQueuePlaces]
          /\ \A u \in Threads \ {t} : pc'[u] = pc[u]
          /\ lost' = lost + 1
          /\ UNCHANGED <<slist, snItems, sitemsAvaiable, spaceAvaiable>>
      BY <1>0, <1>2, <2>2, SQueueGoes DEF SQueuePut, SQueuePlaces
    <3>2. t \in Emptying /\ Emptying' = Emptying \ {t} /\ Filling' = Filling
      BY <3>1 DEF Filling, Emptying, At
    <3>3. e' = e - 1 /\ f' = f
      BY <3>2, <1>f DEF f
    <3> QED BY <3>1, <3>3, <1>0, <1>a, <1>b
  <2> QED BY <2>1, <2>2
<1>3. ASSUME NEW t \in Threads, SQueueReleaseItem(t) PROVE SQueueIInv'
  <2>1. /\ pc[t] = "filled" /\ pc'[t] = "program" /\ pc' \in [Threads -> SQueuePlaces]
        /\ \A u \in Threads \ {t} : pc'[u] = pc[u]
        /\ sitemsAvaiable' = sitemsAvaiable + 1
        /\ UNCHANGED <<slist, snItems, spaceAvaiable, lost>>
    BY <1>0, <1>3, SQueueGoes DEF SQueueReleaseItem, SQueuePlaces
  <2>2. t \in Filling /\ Filling' = Filling \ {t} /\ Emptying' = Emptying
    BY <2>1 DEF Filling, Emptying, At
  <2>3. f' = f - 1 /\ e' = e
    BY <2>2, <1>d DEF e
  <2> QED BY <2>1, <2>3, <1>0, <1>a, <1>b
<1>4. ASSUME NEW t \in Threads, SQueueWait(t) PROVE SQueueIInv'
  <2>1. CASE sitemsAvaiable > 0
    <3>1. /\ pc[t] = "program" /\ pc'[t] = "get" /\ pc' \in [Threads -> SQueuePlaces]
          /\ \A u \in Threads \ {t} : pc'[u] = pc[u]
          /\ sitemsAvaiable' = sitemsAvaiable - 1
          /\ UNCHANGED <<slist, snItems, spaceAvaiable, lost>>
      BY <1>0, <1>4, <2>1, SQueueGoes DEF SQueueWait, SQueuePlaces
    <3>2. t \notin Filling /\ Filling' = Filling \cup {t} /\ Emptying' = Emptying
      BY <3>1 DEF Filling, Emptying, At
    <3>3. f' = f + 1 /\ e' = e
      BY <3>2, <1>c DEF e
    <3> QED BY <3>1, <3>3, <2>1, <1>0, <1>a, <1>b
  <2>2. CASE ~(sitemsAvaiable > 0)
    <3>1. UNCHANGED <<pc, slist, snItems, sitemsAvaiable, spaceAvaiable, lost>>
      BY <1>4, <2>2 DEF SQueueWait
    <3>2. f' = f /\ e' = e
      BY <3>1 DEF f, e, Filling, Emptying, At
    <3> QED BY <3>1, <3>2, <1>0, <1>a
  <2> QED BY <2>1, <2>2
<1>5. ASSUME NEW t \in Threads, SQueueGet(t) PROVE SQueueIInv'
  <2>1. /\ pc[t] = "get" /\ pc'[t] = "emptied" /\ pc' \in [Threads -> SQueuePlaces]
        /\ \A u \in Threads \ {t} : pc'[u] = pc[u]
        /\ slist' = (IF slist = <<>> THEN <<>> ELSE Tail(slist))
        /\ snItems' = snItems - 1
        /\ UNCHANGED <<sitemsAvaiable, spaceAvaiable, lost>>
    BY <1>0, <1>5, SQueueGoes DEF SQueueGet, SQueuePlaces
  <2>2. /\ t \in Filling /\ Filling' = Filling \ {t}
        /\ t \notin Emptying /\ Emptying' = Emptying \cup {t}
    BY <2>1 DEF Filling, Emptying, At
  <2>3. f' = f - 1 /\ f > 0 /\ e' = e + 1
    BY <2>2, <1>d, <1>e
  <2>4. slist # <<>>
    BY <2>3, <1>0, <1>b, EmptySeq
  <2>5. slist' \in Seq(Threads) /\ Len(slist') = Len(slist) - 1
    BY <2>1, <2>4, <1>0, HeadTailProperties
  <2>6. Len(slist') = sitemsAvaiable' + f'
    BY <2>1, <2>3, <2>5, <1>0, <1>b
  <2>7. maxItems = spaceAvaiable' + Len(slist') + lost' + e'
    <3>1. maxItems = spaceAvaiable + Len(slist) + lost + e
      BY <1>0
    <3>2. /\ spaceAvaiable' = spaceAvaiable /\ Len(slist') = Len(slist) - 1
          /\ lost' = lost /\ e' = e + 1
          /\ spaceAvaiable \in Nat /\ Len(slist) \in Nat /\ lost \in Nat /\ e \in Nat
      BY <2>1, <2>3, <2>5, <1>0, <1>b
    <3> QED BY <3>1, <3>2
  <2>8. snItems' = Len(slist')
    BY <2>1, <2>5, <1>0
  <2> QED BY <2>1, <2>5, <2>6, <2>7, <2>8, <1>0, <1>a
<1>6. ASSUME NEW t \in Threads, SQueueReleaseSpace(t) PROVE SQueueIInv'
  <2>1. /\ pc[t] = "emptied" /\ pc'[t] = "program" /\ pc' \in [Threads -> SQueuePlaces]
        /\ \A u \in Threads \ {t} : pc'[u] = pc[u]
        /\ spaceAvaiable' = spaceAvaiable + 1
        /\ UNCHANGED <<slist, snItems, sitemsAvaiable, lost>>
    BY <1>0, <1>6, SQueueGoes DEF SQueueReleaseSpace, SQueuePlaces
  <2>2. t \in Emptying /\ Emptying' = Emptying \ {t} /\ Filling' = Filling
    BY <2>1 DEF Filling, Emptying, At
  <2>3. e' = e - 1 /\ f' = f
    BY <2>2, <1>f DEF f
  <2> QED BY <2>1, <2>3, <1>0, <1>a, <1>b
<1>7. ASSUME NEW t \in Threads, SQueueClose(t) PROVE SQueueIInv'
  <2>1. UNCHANGED <<pc, slist, snItems, sitemsAvaiable, spaceAvaiable, lost>>
    BY <1>7 DEF SQueueClose
  <2>2. f' = f /\ e' = e
    BY <2>1 DEF f, e, Filling, Emptying, At
  <2> QED BY <2>1, <2>2, <1>0, <1>a
<1> QED BY <1>1, <1>2, <1>3, <1>4, <1>5, <1>6, <1>7 DEF SQueueNext

-----------------------------------------------------------------------------
(* The latch.                                                                 *)

\* In a round whose reset met no other call, the event, or a thread about to set
\* it, stands for a counter that is 0; while the reset is in progress the event may
\* still be that of the round before, but every other thread is outside.
Undisturbed ==
  /\ \A t \in At("resetting") :
       signals = 0 /\ returned = {} /\ \A u \in Threads \ {t} : pc[u] = "program"
  /\ At("set") # {} => signals = initialCount
  /\ signaled /\ At("resetting") = {} => signals = initialCount

\* The inductive invariant: the counter is what is still to be signaled, in every
\* round; the event can be trusted in a round that nothing disturbed.
LatchIInv ==
  /\ pc \in [Threads -> LatchPlaces]
  /\ signals \in 0 .. initialCount
  /\ counter = initialCount - signals
  /\ signaled \in BOOLEAN
  /\ disturbed \in BOOLEAN
  /\ ~disturbed => Undisturbed
  /\ CDL_WaitsForAll

\* The latch starts with its invariant.
LEMMA LatchInitHolds ==
  ASSUME CDL_Init, pc = [t \in Threads |-> "program"]
  PROVE  LatchIInv
<1>1. At("set") = {} /\ At("resetting") = {} /\ pc \in [Threads -> LatchPlaces]
  BY DEF At, LatchPlaces
<1>2. 0 \in 0 .. initialCount /\ initialCount = initialCount - 0
  BY LatchAssumption
<1> QED BY <1>1, <1>2 DEF CDL_Init, LatchIInv, Undisturbed, CDL_WaitsForAll

\* A call that starts in a round and leaves it undisturbed met no reset.
LEMMA CallMeetsNoReset ==
  ASSUME LatchIInv, CallStarts
  PROVE  /\ disturbed' \in BOOLEAN
         /\ ~disturbed' => ~disturbed /\ At("resetting") = {}
BY DEF LatchIInv, CallStarts

\* The last signal, and nothing else, opens the latch, until it is reset; a reset
\* that meets a call, or a call that meets a reset, disturbs the round.
LEMMA LatchNextKeeps ==
  ASSUME LatchIInv, CDL_Next
  PROVE  LatchIInv'
<1> USE LatchAssumption
<1>0. PICK t \in Threads : CDL_Step(t)
  BY DEF CDL_Next
<1>1. CASE CDL_Signal(t)
  <2>1. /\ signals < initialCount /\ signals' = signals + 1 /\ counter' = counter - 1
        /\ pc' = [pc EXCEPT ![t] = IF counter = 1 THEN "set" ELSE "program"]
        /\ pc[t] = "program" /\ UNCHANGED <<signaled, returned>>
    BY <1>1 DEF CDL_Signal, InProgram
  <2>2. disturbed' \in BOOLEAN /\ (~disturbed' => ~disturbed /\ At("resetting") = {})
    BY <1>1, CallMeetsNoReset DEF CDL_Signal
  <2>3. pc' \in [Threads -> LatchPlaces]
    BY <2>1 DEF LatchIInv, LatchPlaces
  <2>4. /\ signals' \in 0 .. initialCount /\ counter' = initialCount - signals'
        /\ signaled' \in BOOLEAN
    BY <2>1 DEF LatchIInv
  <2>5. ASSUME ~disturbed' PROVE Undisturbed' /\ returned' = {}
    <3>1. /\ ~signaled /\ At("set") = {} /\ returned = {} /\ At("resetting") = {}
      BY <2>1, <2>2, <2>5 DEF LatchIInv, Undisturbed, CDL_WaitsForAll
    <3>2. At("resetting")' = {}
      BY <2>1, <3>1 DEF At, LatchIInv
    <3>3. At("set")' # {} => counter = 1
      BY <2>1, <3>1 DEF At, LatchIInv
    <3>4. At("set")' # {} => signals' = initialCount
      BY <2>1, <3>3 DEF LatchIInv
    <3> QED BY <2>1, <3>1, <3>2, <3>4 DEF Undisturbed
  <2> QED BY <2>2, <2>3, <2>4, <2>5 DEF LatchIInv, CDL_WaitsForAll
<1>2. CASE CDL_SetEvent(t)
  <2>1. /\ pc[t] = "set" /\ pc'[t] = "program" /\ pc' \in [Threads -> LatchPlaces]
        /\ \A u \in Threads \ {t} : pc'[u] = pc[u]
        /\ signaled' = TRUE /\ UNCHANGED <<counter, signals, returned, disturbed>>
    BY <1>2, LatchGoes DEF CDL_SetEvent, LatchIInv, LatchPlaces
  <2>2. ASSUME ~disturbed PROVE Undisturbed'
    <3>1. t \in At("set") /\ signals = initialCount
      BY <2>1, <2>2 DEF At, LatchIInv, Undisturbed
    <3>2. At("resetting")' = {}
      <4>1. ASSUME NEW u \in At("resetting")' PROVE FALSE
        <5>1. u \in Threads \ {t} /\ u \in At("resetting")
          BY <2>1, <4>1 DEF At
        <5>2. pc[t] = "program"
          BY <5>1, <2>2 DEF LatchIInv, Undisturbed
        <5> QED BY <5>2, <2>1
      <4> QED BY <4>1
    <3> QED BY <2>1, <3>1, <3>2 DEF Undisturbed
  <2> QED BY <2>1, <2>2 DEF LatchIInv, CDL_WaitsForAll
<1>3. CASE CDL_Wait(t)
  <2>1. disturbed' \in BOOLEAN /\ (~disturbed' => ~disturbed /\ At("resetting") = {})
    BY <1>3, CallMeetsNoReset DEF CDL_Wait
  <2>2. CASE counter = 0
    <3>1. /\ UNCHANGED <<pc, counter, signaled, signals>>
          /\ returned' = returned \cup {t}
      BY <1>3, <2>2 DEF CDL_Wait
    <3>2. signals = initialCount
      BY <2>2 DEF LatchIInv
    <3>3. ~disturbed' => Undisturbed'
      BY <2>1, <3>1, <3>2 DEF LatchIInv, Undisturbed, At
    <3> QED BY <2>1, <3>1, <3>2, <3>3 DEF LatchIInv, CDL_WaitsForAll
  <2>3. CASE counter # 0
    <3>1. /\ pc[t] = "program" /\ pc'[t] = "latched" /\ pc' \in [Threads -> LatchPlaces]
          /\ \A u \in Threads \ {t} : pc'[u] = pc[u]
          /\ UNCHANGED <<counter, signaled, signals, returned>>
      BY <1>3, <2>3, LatchGoes DEF CDL_Wait, LatchIInv, LatchPlaces
    <3>2. At("set")' = At("set") /\ At("resetting")' = At("resetting")
      BY <3>1 DEF At
    <3>3. ~disturbed' => Undisturbed'
      BY <2>1, <3>1, <3>2 DEF LatchIInv, Undisturbed
    <3> QED BY <2>1, <3>1, <3>3 DEF LatchIInv, CDL_WaitsForAll
  <2> QED BY <2>2, <2>3
<1>4. CASE CDL_WaitEvent(t)
  <2>1. /\ pc[t] = "latched" /\ pc'[t] = "program" /\ pc' \in [Threads -> LatchPlaces]
        /\ \A u \in Threads \ {t} : pc'[u] = pc[u]
        /\ signaled /\ UNCHANGED <<counter, signaled, signals, disturbed>>
    BY <1>4, LatchGoes DEF CDL_WaitEvent, LatchIInv, LatchPlaces
  <2>2. At("set")' = At("set") /\ At("resetting")' = At("resetting")
    BY <2>1 DEF At
  <2>3. ASSUME ~disturbed PROVE Undisturbed' /\ signals = initialCount
    <3>1. At("resetting") = {}
      <4>1. ASSUME NEW u \in At("resetting") PROVE FALSE
        <5>1. u \in Threads \ {t}
          BY <2>1, <4>1 DEF At
        <5>2. pc[t] = "program"
          BY <5>1, <4>1, <2>3 DEF LatchIInv, Undisturbed
        <5> QED BY <5>2, <2>1
      <4> QED BY <4>1
    <3> QED BY <2>1, <2>2, <2>3, <3>1 DEF LatchIInv, Undisturbed
  <2> QED BY <2>1, <2>3 DEF LatchIInv, CDL_WaitsForAll
<1>5. CASE CDL_Reset(t)
  <2>1. /\ pc[t] = "program" /\ pc'[t] = "resetting" /\ pc' \in [Threads -> LatchPlaces]
        /\ \A u \in Threads \ {t} : pc'[u] = pc[u]
        /\ counter' = initialCount /\ signals' = 0 /\ returned' = {}
        /\ disturbed' = (\E u \in Threads \ {t} : pc[u] # "program")
        /\ UNCHANGED signaled
    BY <1>5, LatchGoes DEF CDL_Reset, LatchIInv, LatchPlaces, InProgram
  <2>2. 0 \in 0 .. initialCount /\ initialCount = initialCount - 0
    OBVIOUS
  <2>3. ASSUME ~disturbed' PROVE Undisturbed'
    <3>1. \A u \in Threads \ {t} : pc'[u] = "program"
      BY <2>1, <2>3
    <3>2. At("resetting")' = {t} /\ At("set")' = {}
      BY <2>1, <3>1 DEF At
    <3> QED BY <2>1, <3>1, <3>2 DEF Undisturbed
  <2> QED BY <2>1, <2>2, <2>3 DEF LatchIInv, CDL_WaitsForAll
<1>6. CASE CDL_ResetEvent(t)
  <2>1. /\ pc[t] = "resetting" /\ pc'[t] = "program" /\ pc' \in [Threads -> LatchPlaces]
        /\ \A u \in Threads \ {t} : pc'[u] = pc[u]
        /\ signaled' = FALSE /\ UNCHANGED <<counter, signals, returned, disturbed>>
    BY <1>6, LatchGoes DEF CDL_ResetEvent, LatchIInv, LatchPlaces
  <2>2. ASSUME ~disturbed PROVE Undisturbed'
    <3>1. \A u \in Threads \ {t} : pc[u] = "program"
      BY <2>1, <2>2 DEF At, LatchIInv, Undisturbed
    <3>2. At("resetting")' = {} /\ At("set")' = {}
      BY <2>1, <3>1 DEF At
    <3> QED BY <2>1, <3>2 DEF Undisturbed
  <2> QED BY <2>1, <2>2 DEF LatchIInv, CDL_WaitsForAll
<1> QED BY <1>0, <1>1, <1>2, <1>3, <1>4, <1>5, <1>6 DEF CDL_Step

\* A step of another object leaves the latch as it is.
LEMMA LatchStutters ==
  ASSUME LatchIInv, UNCHANGED <<pc, cdlvars>>
  PROVE  LatchIInv'
BY DEF LatchIInv, Undisturbed, cdlvars, CDL_WaitsForAll, At

-----------------------------------------------------------------------------
(* The barrier.                                                               *)

\* Type invariant.
BarrierTypeOK ==
  /\ pc \in [Threads -> BarrierPlaces]
  /\ count \in 0 .. total /\ usedEvents \in Nat
  /\ barrierReached \in [Events -> BOOLEAN]
  /\ tls \in [Threads -> Events \cup {-1}]
  /\ signaling \in [Threads -> 0 .. total]
  /\ arrived \in [Threads -> Nat] /\ left \in [Threads -> Nat]

\* The peers that have an event.  The events given so far are the first ones,
\* each to one peer.
WithEvent == {t \in Threads : tls[t] # -1}

EventsGiven ==
  /\ usedEvents = Cardinality(WithEvent)
  /\ \A t \in WithEvent : tls[t] < usedEvents
  /\ \A e \in 0 .. usedEvents - 1 : \E t \in Threads : tls[t] = e
  /\ \A t, u \in WithEvent : tls[t] = tls[u] => t = u

\* After g complete rounds: the peers that have arrived for the next one, and
\* those that have still to leave round g.
Entered(g) == {t \in Threads : arrived[t] = g + 1}
Leaving(g) == {t \in Threads : pc[t] \in {"bevent", "bwait"} /\ left[t] + 1 = g}

PeersAt(g) ==
  \A t \in Threads :
    \/ pc[t] = "program" /\ arrived[t] = g /\ left[t] = g
    \/ pc[t] \in {"bevent", "bwait"} /\ arrived[t] = g + 1 /\ left[t] = g
    \/ pc[t] # "program" /\ arrived[t] = g /\ left[t] + 1 = g

MissingAt(g) ==
  count = IF At("restart") # {} THEN 0 ELSE total - Cardinality(Entered(g))

OneCompletes == \A s, t \in At("restart") \cup At("bsignal") : s = t

\* Who completes a round finds all the others waiting, and no event signaled; it
\* then signals the events in turn, each before its peer leaves.
CompletesAt(g) ==
  \A s \in At("restart") :
    /\ \A t \in Threads \ {s} : t \in Leaving(g)
    /\ \A e \in Events : ~barrierReached[e]

SignalsAt(g) ==
  \A s \in At("bsignal") :
    /\ signaling[s] > 0 => tls[s] # -1
    /\ \A e \in Events : e >= signaling[s] => ~barrierReached[e]
    /\ \A t \in Threads \ {s} : tls[t] >= signaling[s] => t \in Leaving(g)

\* A signaled event is that of a peer that has still to leave the round.
ReachedAt(g) ==
  /\ g = 0 => \A e \in Events : ~barrierReached[e]
  /\ \A t \in Threads : left[t] > 0 \/ pc[t] = "bwait" => tls[t] # -1
  /\ \A t \in WithEvent : barrierReached[tls[t]] => t \in Leaving(g)

Round(g) ==
  PeersAt(g) /\ MissingAt(g) /\ OneCompletes /\ CompletesAt(g) /\ SignalsAt(g)
  /\ ReachedAt(g)

\* The inductive invariant: all peers are in the same round, or in the next.
BarrierIInv == BarrierTypeOK /\ EventsGiven /\ \E g \in Nat : Round(g)

\* The peers among a set of threads.
LEMMA PeersCounted ==
  ASSUME NEW S \in SUBSET Threads
  PROVE  /\ total \in Nat /\ Cardinality(S) \in 0 .. total
         /\ Cardinality(S) = total => S = Threads
         /\ \A t \in Threads \ S : Cardinality(S \cup {t}) = Cardinality(S) + 1
                                   /\ Cardinality(S) < total
<1>1. IsFiniteSet(S) /\ Cardinality(S) <= total /\ (Cardinality(S) = total => S = Threads)
  BY WinThreadsAssumption, FS_Subset DEF total
<1>2. total \in Nat /\ Cardinality(S) \in Nat
  BY <1>1, WinThreadsAssumption, FS_CardinalityType DEF total
<1>3. ASSUME NEW t \in Threads \ S
      PROVE  Cardinality(S \cup {t}) = Cardinality(S) + 1 /\ Cardinality(S) < total
  <2>1. Cardinality(S \cup {t}) = Cardinality(S) + 1
    BY <1>1, FS_AddElement
  <2>2. Cardinality(S) # total
    BY <1>1
  <2> HIDE DEF total
  <2> QED BY <2>1, <2>2, <1>1, <1>2
<1> HIDE DEF total
<1> QED BY <1>1, <1>2, <1>3

\* The event of a peer: its own, or the next one, which nobody has.
LEMMA EventIsFound ==
  ASSUME BarrierTypeOK, EventsGiven, NEW t \in Threads, GetThreadEvent(t)
  PROVE  /\ EventsGiven'
         /\ usedEvents' \in Nat /\ tls' \in [Threads -> Events \cup {-1}]
         /\ tls'[t] # -1 /\ (tls[t] # -1 => tls'[t] = tls[t])
         /\ \A u \in Threads \ {t} : tls'[u] = tls[u]
<1>1. CASE tls[t] # -1
  <2>1. UNCHANGED <<usedEvents, tls>>
    BY <1>1 DEF GetThreadEvent
  <2> QED BY <1>1, <2>1 DEF BarrierTypeOK, EventsGiven, WithEvent
<1>2. CASE tls[t] = -1
  <2>1. usedEvents' = usedEvents + 1 /\ tls' = [tls EXCEPT ![t] = usedEvents]
    BY <1>2 DEF GetThreadEvent
  <2>2. /\ total \in Nat /\ Cardinality(WithEvent \cup {t}) = Cardinality(WithEvent) + 1
        /\ Cardinality(WithEvent) < total
    BY <1>2, PeersCounted DEF WithEvent
  <2>3. usedEvents \in Events /\ usedEvents \in Nat /\ usedEvents # -1
    BY <2>2 DEF EventsGiven, BarrierTypeOK, Events
  <2>4. /\ tls' \in [Threads -> Events \cup {-1}]
        /\ tls'[t] = usedEvents
        /\ \A u \in Threads \ {t} : tls'[u] = tls[u]
    BY <2>1, <2>3 DEF BarrierTypeOK
  <2>5. WithEvent' = WithEvent \cup {t} /\ t \notin WithEvent
    BY <2>3, <2>4, <1>2 DEF WithEvent
  <2>6. usedEvents' = Cardinality(WithEvent')
    BY <2>1, <2>2, <2>5 DEF EventsGiven
  <2>7. \A u \in WithEvent' : tls'[u] < usedEvents'
    <3>1. ASSUME NEW u \in WithEvent, u # t PROVE tls'[u] < usedEvents'
      <4>1. tls'[u] = tls[u] /\ tls[u] < usedEvents /\ tls[u] \in Int
        BY <2>4, <3>1 DEF EventsGiven, WithEvent, BarrierTypeOK, Events
      <4> QED BY <4>1, <2>1, <2>3
    <3>2. tls'[t] < usedEvents'
      BY <2>1, <2>3, <2>4
    <3> QED BY <3>1, <3>2, <2>5
  <2>8. \A e \in 0 .. usedEvents' - 1 : \E u \in Threads : tls'[u] = e
    <3> SUFFICES ASSUME NEW e \in 0 .. usedEvents' - 1
                 PROVE  \E u \in Threads : tls'[u] = e
      OBVIOUS
    <3>1. CASE e = usedEvents
      BY <3>1, <2>4
    <3>2. CASE e # usedEvents
      <4>1. e \in 0 .. usedEvents - 1
        BY <3>2, <2>1, <2>3
      <4>2. PICK u \in Threads : tls[u] = e
        BY <4>1 DEF EventsGiven
      <4>3. u # t
        BY <4>1, <4>2, <1>2
      <4> QED BY <4>2, <4>3, <2>4
    <3> QED BY <3>1, <3>2
  <2>9. \A u, v \in WithEvent' : tls'[u] = tls'[v] => u = v
    <3>1. ASSUME NEW u \in WithEvent, u # t PROVE tls'[u] = tls[u] /\ tls'[u] # tls'[t]
      <4>1. tls'[u] = tls[u] /\ tls[u] < usedEvents /\ tls[u] \in Int
        BY <2>4, <3>1 DEF EventsGiven, WithEvent, BarrierTypeOK, Events
      <4> QED BY <4>1, <2>3, <2>4
    <3>2. \A u, v \in WithEvent : tls[u] = tls[v] => u = v
      BY DEF EventsGiven
    <3> QED BY <3>1, <3>2, <2>5
  <2> QED BY <2>1, <2>3, <2>4, <2>6, <2>7, <2>8, <2>9, <1>2 DEF EventsGiven
<1> QED BY <1>1, <1>2

\* A peer in round g or the next, whatever it does: no round number is negative.
LEMMA PeerInRound ==
  ASSUME BarrierTypeOK, NEW g \in Nat, PeersAt(g), NEW t \in Threads
  PROVE  /\ pc[t] \in BarrierPlaces /\ arrived[t] \in Nat /\ left[t] \in Nat
         /\ t \in Leaving(g) => arrived[t] = g /\ left[t] + 1 = g
         /\ pc[t] = "program" => arrived[t] = g /\ left[t] = g
         /\ pc[t] \in {"restart", "bsignal"} => arrived[t] = g /\ left[t] + 1 = g
         /\ t \in Entered(g) => left[t] = g /\ pc[t] \in {"bevent", "bwait"}
BY DEF BarrierTypeOK, PeersAt, Leaving, Entered

\* A peer arrives that is not the last one.
LEMMA ArrivalKeeps ==
  ASSUME BarrierTypeOK, EventsGiven, NEW g \in Nat, Round(g),
         NEW t \in Threads, CB_Wait(t), count # 1
  PROVE  BarrierTypeOK' /\ EventsGiven' /\ Round(g)'
<1>1. /\ pc[t] = "program" /\ pc'[t] = "bevent" /\ pc' \in [Threads -> BarrierPlaces]
      /\ \A u \in Threads \ {t} : pc'[u] = pc[u]
      /\ arrived' = [arrived EXCEPT ![t] = @ + 1] /\ count' = count - 1
      /\ UNCHANGED <<usedEvents, barrierReached, tls, signaling, left>>
  BY PeerGoes DEF CB_Wait, BarrierTypeOK, BarrierPlaces
<1>2. /\ arrived[t] = g /\ left[t] = g
      /\ arrived \in [Threads -> Nat] /\ left \in [Threads -> Nat]
  BY <1>1, PeerInRound DEF Round, BarrierTypeOK
<1>3. /\ arrived'[t] = g + 1 /\ \A u \in Threads \ {t} : arrived'[u] = arrived[u]
      /\ arrived' \in [Threads -> Nat]
  BY <1>1, <1>2
<1>4. At("restart") = {} /\ At("restart")' = {} /\ At("bsignal")' = At("bsignal")
  BY <1>1 DEF Round, CompletesAt, Leaving, At
<1>5. t \notin Entered(g) /\ Entered(g)' = Entered(g) \cup {t} /\ Leaving(g)' = Leaving(g)
  BY <1>1, <1>2, <1>3 DEF Entered, Leaving
<1>6. MissingAt(g)' /\ count' \in 0 .. total
  <2>1. /\ total \in Nat /\ Cardinality(Entered(g)) \in 0 .. total
        /\ Cardinality(Entered(g)') = Cardinality(Entered(g)) + 1
        /\ Cardinality(Entered(g)) < total
    BY <1>5, PeersCounted DEF Entered
  <2>2. count = total - Cardinality(Entered(g))
    BY <1>4 DEF Round, MissingAt
  <2>3. count' = total - Cardinality(Entered(g)') /\ count' \in 0 .. total
    BY <1>1, <2>1, <2>2
  <2> QED BY <1>4, <2>3 DEF MissingAt, total
<1>7. PeersAt(g)'
  BY <1>1, <1>2, <1>3 DEF Round, PeersAt
<1>8. OneCompletes' /\ CompletesAt(g)' /\ SignalsAt(g)'
  BY <1>1, <1>4, <1>5 DEF Round, OneCompletes, CompletesAt, SignalsAt
<1>9. ReachedAt(g)'
  BY <1>1, <1>5 DEF Round, ReachedAt, WithEvent
<1>10. BarrierTypeOK'
  BY <1>1, <1>3, <1>6 DEF BarrierTypeOK, total, Events
<1> QED BY <1>1, <1>6, <1>7, <1>8, <1>9, <1>10 DEF EventsGiven, WithEvent, Round

\* The last peer arrives: the round is complete, and no event is signaled.
LEMMA LastArrivalKeeps ==
  ASSUME BarrierTypeOK, EventsGiven, NEW g \in Nat, Round(g),
         NEW t \in Threads, CB_Wait(t), count = 1
  PROVE  BarrierTypeOK' /\ EventsGiven' /\ Round(g + 1)'
<1>1. /\ pc[t] = "program" /\ pc'[t] = "restart" /\ pc' \in [Threads -> BarrierPlaces]
      /\ \A u \in Threads \ {t} : pc'[u] = pc[u]
      /\ arrived' = [arrived EXCEPT ![t] = @ + 1] /\ count' = 0
      /\ UNCHANGED <<usedEvents, barrierReached, tls, signaling, left>>
  BY PeerGoes DEF CB_Wait, BarrierTypeOK, BarrierPlaces
<1>2. /\ arrived[t] = g /\ left[t] = g
      /\ arrived \in [Threads -> Nat] /\ left \in [Threads -> Nat]
  BY <1>1, PeerInRound DEF Round, BarrierTypeOK
<1>3. /\ arrived'[t] = g + 1 /\ \A u \in Threads \ {t} : arrived'[u] = arrived[u]
      /\ arrived' \in [Threads -> Nat]
  BY <1>1, <1>2
<1>4. At("restart") = {}
  BY <1>1 DEF Round, CompletesAt, Leaving, At
<1>5. \A u \in Threads \ {t} : u \in Entered(g)
  <2>1. t \notin Entered(g) /\ Entered(g) \in SUBSET Threads
    BY <1>2 DEF Entered
  <2>2. /\ total \in Nat /\ Cardinality(Entered(g)) \in 0 .. total
        /\ Cardinality(Entered(g) \cup {t}) = Cardinality(Entered(g)) + 1
    BY <2>1, PeersCounted
  <2>3. count = total - Cardinality(Entered(g))
    BY <1>4 DEF Round, MissingAt
  <2>4. Cardinality(Entered(g) \cup {t}) = total
    BY <2>2, <2>3
  <2>5. Entered(g) \cup {t} = Threads
    BY <2>1, <2>4, PeersCounted
  <2> QED BY <2>5
<1>6. \A u \in Threads : left[u] = g /\ arrived'[u] = g + 1
  BY <1>2, <1>3, <1>5, PeerInRound DEF Round, Entered
<1>7. \A u \in Threads \ {t} : pc'[u] \in {"bevent", "bwait"}
  BY <1>1, <1>5, PeerInRound DEF Round
<1>8. \A u \in Threads \ {t} : u \in Leaving(g + 1)'
  BY <1>1, <1>6, <1>7 DEF Leaving
<1>9. At("restart")' = {t} /\ At("bsignal")' = {}
  BY <1>1, <1>7 DEF At
<1>10. \A e \in Events : ~barrierReached[e]
  <2>1. CASE g = 0
    BY <2>1 DEF Round, ReachedAt
  <2>2. CASE g # 0
    <3>1. WithEvent = Threads
      BY <2>2, <1>6 DEF Round, ReachedAt, WithEvent
    <3>2. Events = 0 .. usedEvents - 1
      BY <3>1 DEF EventsGiven, Events, total
    <3>3. SUFFICES ASSUME NEW e \in Events, barrierReached[e] PROVE FALSE
      BY DEF BarrierTypeOK
    <3>4. PICK u \in Threads : tls[u] = e
      BY <3>2 DEF EventsGiven
    <3>5. u \in Leaving(g)
      BY <3>1, <3>3, <3>4 DEF Round, ReachedAt
    <3> QED BY <3>5, <1>6 DEF Leaving
  <2> QED BY <2>1, <2>2
<1>11. PeersAt(g + 1)' /\ MissingAt(g + 1)'
  BY <1>1, <1>6, <1>7, <1>9 DEF PeersAt, MissingAt
<1>12. OneCompletes' /\ CompletesAt(g + 1)' /\ SignalsAt(g + 1)'
  BY <1>1, <1>8, <1>9, <1>10 DEF OneCompletes, CompletesAt, SignalsAt, Events, total
<1>13. ReachedAt(g + 1)'
  <2>1. \A u \in Threads : left[u] > 0 \/ pc[u] = "bwait" => tls[u] # -1
    BY DEF Round, ReachedAt
  <2>2. \A u \in WithEvent : tls[u] \in Events
    BY DEF WithEvent, BarrierTypeOK
  <2> QED BY <1>1, <1>10, <2>1, <2>2 DEF ReachedAt, WithEvent, Events, total
<1>14. BarrierTypeOK'
  <2>1. 0 \in 0 .. total
    BY PeersCounted
  <2> QED BY <1>1, <1>3, <2>1 DEF BarrierTypeOK, total, Events
<1> QED BY <1>1, <1>11, <1>12, <1>13, <1>14 DEF EventsGiven, WithEvent, Round

\* The last peer makes the barrier ready for the next round.
LEMMA RestartKeeps ==
  ASSUME BarrierTypeOK, EventsGiven, NEW g \in Nat, Round(g),
         NEW t \in Threads, CB_Restart(t)
  PROVE  BarrierTypeOK' /\ EventsGiven' /\ Round(g)'
<1>1. /\ pc[t] = "restart" /\ pc'[t] = "bsignal" /\ pc' \in [Threads -> BarrierPlaces]
      /\ \A u \in Threads \ {t} : pc'[u] = pc[u]
      /\ count' = total
      /\ signaling' = [signaling EXCEPT ![t] = 0]
      /\ UNCHANGED <<usedEvents, barrierReached, tls, arrived, left>>
  BY PeerGoes DEF CB_Restart, BarrierTypeOK, BarrierPlaces
<1>2. t \in At("restart")
  BY <1>1 DEF At
<1>3. \A u \in Threads \ {t} : u \in Leaving(g) /\ arrived[u] = g
  BY <1>2, PeerInRound DEF Round, CompletesAt
<1>4. arrived[t] = g
  BY <1>1, PeerInRound DEF Round
<1>5. Entered(g)' = {}
  BY <1>1, <1>3, <1>4 DEF Entered
<1>6. At("restart")' = {} /\ At("bsignal")' = {t}
  BY <1>1, <1>3 DEF At, Leaving
<1>7. Leaving(g)' = Leaving(g)
  BY <1>1 DEF Leaving
<1>8. signaling' \in [Threads -> 0 .. total] /\ signaling'[t] = 0 /\ count' \in 0 .. total
  BY <1>1, PeersCounted DEF BarrierTypeOK
<1>9. MissingAt(g)'
  <2>1. Cardinality(Entered(g)') = 0 /\ total \in Nat
    BY <1>5, FS_EmptySet, PeersCounted
  <2>2. count' = total - Cardinality(Entered(g)')
    BY <1>1, <2>1
  <2> QED BY <1>6, <2>2 DEF MissingAt, total
<1>10. PeersAt(g)' /\ OneCompletes' /\ CompletesAt(g)'
  BY <1>1, <1>6 DEF Round, PeersAt, OneCompletes, CompletesAt
<1>11. SignalsAt(g)'
  BY <1>1, <1>2, <1>3, <1>6, <1>7, <1>8
     DEF Round, CompletesAt, SignalsAt, Events, total
<1>12. ReachedAt(g)'
  BY <1>1, <1>7 DEF Round, ReachedAt, WithEvent
<1>13. BarrierTypeOK'
  BY <1>1, <1>8 DEF BarrierTypeOK, total, Events
<1> QED BY <1>1, <1>9, <1>10, <1>11, <1>12, <1>13 DEF EventsGiven, WithEvent, Round

\* It signals one event, of a peer that has still to leave the round.
LEMMA SignalKeeps ==
  ASSUME BarrierTypeOK, EventsGiven, NEW g \in Nat, Round(g),
         NEW t \in Threads, CB_Signal(t)
  PROVE  BarrierTypeOK' /\ EventsGiven' /\ Round(g)'
<1> DEFINE i == signaling[t]
<1>0. total \in Nat /\ i \in Nat /\ i < total /\ i \in Events /\ i + 1 \in 0 .. total
  <2>1. total \in Nat /\ i \in 0 .. total /\ i < total
    BY PeersCounted DEF CB_Signal, BarrierTypeOK
  <2> HIDE DEF i
  <2> QED BY <2>1 DEF Events
<1>1. /\ pc[t] = "bsignal" /\ i \in Nat /\ i \in Events /\ GetThreadEvent(t)
      /\ barrierReached' = [barrierReached EXCEPT ![i] = @ \/ i # tls'[t]]
      /\ signaling' = [signaling EXCEPT ![t] = i + 1]
      /\ UNCHANGED <<pc, count, arrived, left>>
  BY <1>0 DEF CB_Signal
<1>2. /\ EventsGiven' /\ usedEvents' \in Nat /\ tls' \in [Threads -> Events \cup {-1}]
      /\ tls'[t] # -1 /\ (tls[t] # -1 => tls'[t] = tls[t])
      /\ \A u \in Threads \ {t} : tls'[u] = tls[u]
  BY <1>1, EventIsFound
<1>3. /\ barrierReached' \in [Events -> BOOLEAN]
      /\ \A e \in Events \ {i} : barrierReached'[e] = barrierReached[e]
      /\ barrierReached'[i] <=> barrierReached[i] \/ i # tls'[t]
  <2>1. barrierReached \in [Events -> BOOLEAN]
    BY DEF BarrierTypeOK
  <2>2. (barrierReached[i] \/ i # tls'[t]) \in BOOLEAN
    OBVIOUS
  <2> HIDE DEF i
  <2> QED BY <2>1, <2>2, <1>1
<1>4. /\ signaling' \in [Threads -> 0 .. total] /\ signaling'[t] = i + 1
      /\ \A u \in Threads \ {t} : signaling'[u] = signaling[u]
  BY <1>0, <1>1 DEF BarrierTypeOK
<1>5. /\ t \in At("bsignal") /\ g # 0 /\ t \notin Leaving(g)
      /\ i > 0 => tls[t] # -1
      /\ \A e \in Events : e >= i => ~barrierReached[e]
      /\ \A u \in Threads \ {t} : tls[u] >= i => u \in Leaving(g)
  BY <1>1, PeerInRound DEF Round, SignalsAt, At, Leaving
<1>6. /\ At("bsignal")' = At("bsignal") /\ At("restart")' = {} /\ At("restart") = {}
      /\ At("bsignal") = {t}
  BY <1>1, <1>5 DEF Round, OneCompletes, At
<1>7. Leaving(g)' = Leaving(g) /\ Entered(g)' = Entered(g)
  BY <1>1 DEF Leaving, Entered
<1>8. ~barrierReached'[tls'[t]]
  <2>1. tls'[t] \in Events
    BY <1>2
  <2>2. CASE tls[t] = -1
    BY <2>1, <2>2, <1>1, <1>3, <1>5 DEF Events
  <2>3. CASE tls[t] # -1
    <3>1. ~barrierReached[tls[t]]
      BY <2>3, <1>5 DEF Round, ReachedAt, WithEvent
    <3> QED BY <2>1, <2>3, <3>1, <1>2, <1>3
  <2> QED BY <2>2, <2>3
<1>9. \A u \in WithEvent' : barrierReached'[tls'[u]] => u \in Leaving(g)
  <2> SUFFICES ASSUME NEW u \in Threads \ {t}, tls[u] # -1, barrierReached'[tls[u]]
               PROVE  u \in Leaving(g)
    BY <1>2, <1>8 DEF WithEvent
  <2>1. tls[u] \in Events
    BY DEF BarrierTypeOK
  <2>2. CASE tls[u] = i
    BY <2>2, <1>1, <1>5
  <2>3. CASE tls[u] # i
    BY <2>1, <2>3, <1>3 DEF Round, ReachedAt, WithEvent
  <2> QED BY <2>2, <2>3
<1>10. ReachedAt(g)'
  <2>1. \A u \in Threads : left[u] > 0 \/ pc[u] = "bwait" => tls'[u] # -1
    BY <1>2 DEF Round, ReachedAt
  <2> QED BY <1>1, <1>5, <1>7, <1>9, <2>1 DEF ReachedAt
<1>11. SignalsAt(g)'
  <2>1. \A e \in Events : e >= i + 1 => ~barrierReached'[e]
    <3> SUFFICES ASSUME NEW e \in Events, e >= i + 1 PROVE ~barrierReached'[e]
      OBVIOUS
    <3>1. e >= i /\ e # i
      BY <1>1 DEF Events
    <3> QED BY <3>1, <1>3, <1>5
  <2>2. \A u \in Threads \ {t} : tls'[u] >= i + 1 => u \in Leaving(g)
    <3> SUFFICES ASSUME NEW u \in Threads \ {t}, tls'[u] >= i + 1 PROVE u \in Leaving(g)
      OBVIOUS
    <3>1. tls'[u] = tls[u] /\ tls[u] \in Int
      BY <1>2 DEF BarrierTypeOK, Events
    <3>2. tls[u] >= i
      BY <3>1, <1>1
    <3> QED BY <3>2, <1>5
  <2> HIDE DEF i
  <2> QED BY <2>1, <2>2, <1>2, <1>4, <1>6, <1>7 DEF SignalsAt, Events, total
<1>12. PeersAt(g)' /\ MissingAt(g)' /\ OneCompletes' /\ CompletesAt(g)'
  BY <1>1, <1>6, <1>7
     DEF Round, PeersAt, MissingAt, OneCompletes, CompletesAt, total
<1>13. BarrierTypeOK'
  BY <1>1, <1>2, <1>3, <1>4 DEF BarrierTypeOK, total, Events
<1> QED BY <1>2, <1>10, <1>11, <1>12, <1>13 DEF Round

\* It has signaled them all, and leaves.
LEMMA SignalEndKeeps ==
  ASSUME BarrierTypeOK, EventsGiven, NEW g \in Nat, Round(g),
         NEW t \in Threads, CB_SignalEnd(t)
  PROVE  BarrierTypeOK' /\ EventsGiven' /\ Round(g)'
<1>1. /\ pc[t] = "bsignal" /\ pc'[t] = "program" /\ pc' \in [Threads -> BarrierPlaces]
      /\ \A u \in Threads \ {t} : pc'[u] = pc[u]
      /\ signaling[t] = total
      /\ left' = [left EXCEPT ![t] = @ + 1]
      /\ UNCHANGED <<count, usedEvents, barrierReached, tls, signaling, arrived>>
  BY PeerGoes DEF CB_SignalEnd, BarrierTypeOK, BarrierPlaces
<1>2. arrived[t] = g /\ left[t] + 1 = g /\ left \in [Threads -> Nat]
  BY <1>1, PeerInRound DEF Round, BarrierTypeOK
<1>3. /\ left'[t] = g /\ \A u \in Threads \ {t} : left'[u] = left[u]
      /\ left' \in [Threads -> Nat]
  BY <1>1, <1>2
<1>4. t \in At("bsignal") /\ tls[t] # -1
  <2>1. total > 0
    <3>1. total \in Nat /\ Cardinality({}) < total
      BY PeersCounted
    <3> QED BY <3>1, FS_EmptySet
  <2> QED BY <2>1, <1>1 DEF Round, SignalsAt, At
<1>5. At("restart") = {} /\ At("restart")' = {} /\ At("bsignal")' = {}
  BY <1>1, <1>4 DEF Round, OneCompletes, At
<1>6. Entered(g)' = Entered(g) /\ Leaving(g)' = Leaving(g)
  BY <1>1, <1>3 DEF Entered, Leaving
<1>7. PeersAt(g)'
  BY <1>1, <1>2, <1>3 DEF Round, PeersAt
<1>8. MissingAt(g)' /\ OneCompletes' /\ CompletesAt(g)' /\ SignalsAt(g)'
  BY <1>1, <1>5, <1>6 DEF Round, MissingAt, OneCompletes, CompletesAt, SignalsAt, total
<1>9. ReachedAt(g)'
  BY <1>1, <1>3, <1>4, <1>6 DEF Round, ReachedAt, WithEvent, Events, total
<1>10. BarrierTypeOK'
  BY <1>1, <1>3 DEF BarrierTypeOK, total, Events
<1> QED BY <1>1, <1>7, <1>8, <1>9, <1>10 DEF EventsGiven, WithEvent, Round

\* A peer finds its event, before or after it was signaled.
LEMMA FindEventKeeps ==
  ASSUME BarrierTypeOK, EventsGiven, NEW g \in Nat, Round(g),
         NEW t \in Threads, CB_FindEvent(t)
  PROVE  BarrierTypeOK' /\ EventsGiven' /\ Round(g)'
<1>1. /\ pc[t] = "bevent" /\ pc'[t] = "bwait" /\ pc' \in [Threads -> BarrierPlaces]
      /\ \A u \in Threads \ {t} : pc'[u] = pc[u]
      /\ GetThreadEvent(t)
      /\ UNCHANGED <<count, barrierReached, signaling, arrived, left>>
  BY PeerGoes DEF CB_FindEvent, BarrierTypeOK, BarrierPlaces
<1>2. /\ EventsGiven' /\ usedEvents' \in Nat /\ tls' \in [Threads -> Events \cup {-1}]
      /\ tls'[t] # -1 /\ (tls[t] # -1 => tls'[t] = tls[t])
      /\ \A u \in Threads \ {t} : tls'[u] = tls[u]
  BY <1>1, EventIsFound
<1>3. /\ At("restart")' = At("restart") /\ At("bsignal")' = At("bsignal")
      /\ Entered(g)' = Entered(g) /\ Leaving(g)' = Leaving(g)
  BY <1>1 DEF At, Entered, Leaving
\* A peer without an event is in its first round, or in its last wait of it.
<1>4. tls[t] = -1 => g = 0 \/ t \in Leaving(g)
  <2> SUFFICES ASSUME tls[t] = -1, g # 0 PROVE t \in Leaving(g)
    OBVIOUS
  <2>1. left[t] = 0
    BY PeerInRound DEF Round, ReachedAt, BarrierTypeOK
  <2> QED BY <2>1, <1>1 DEF Round, PeersAt, Leaving
<1>5. SignalsAt(g)'
  <2>1. ASSUME NEW s \in At("bsignal") PROVE g # 0 /\ s # t
    BY <1>1, PeerInRound DEF At, Round
  <2>2. ASSUME NEW s \in At("bsignal"), tls'[t] >= signaling[s] PROVE t \in Leaving(g)
    BY <2>1, <2>2, <1>2, <1>4 DEF Round, SignalsAt
  <2>3. ASSUME NEW s \in At("bsignal")
        PROVE  /\ signaling[s] > 0 => tls'[s] # -1
               /\ \A e \in Events : e >= signaling[s] => ~barrierReached[e]
               /\ \A u \in Threads \ {s} : tls'[u] >= signaling[s] => u \in Leaving(g)
    <3>1. tls'[s] = tls[s]
      BY <2>1, <2>3, <1>2 DEF At
    <3> QED BY <2>2, <2>3, <3>1, <1>2 DEF Round, SignalsAt
  <2> QED BY <2>3, <1>1, <1>3 DEF SignalsAt, Events, total
<1>6. ReachedAt(g)'
  <2>1. \A u \in WithEvent' : barrierReached[tls'[u]] => u \in Leaving(g)
    <3>1. ASSUME barrierReached[tls'[t]] PROVE t \in Leaving(g)
      <4>1. g = 0 => ~barrierReached[tls'[t]]
        BY <1>2 DEF Round, ReachedAt
      <4>2. CASE tls[t] = -1
        BY <4>1, <4>2, <3>1, <1>4
      <4>3. CASE tls[t] # -1
        BY <4>3, <3>1, <1>2 DEF Round, ReachedAt, WithEvent
      <4> QED BY <4>2, <4>3
    <3> QED BY <3>1, <1>2 DEF Round, ReachedAt, WithEvent
  <2>2. \A u \in Threads : left[u] > 0 \/ pc'[u] = "bwait" => tls'[u] # -1
    BY <1>1, <1>2 DEF Round, ReachedAt
  <2> QED BY <2>1, <2>2, <1>1, <1>3 DEF Round, ReachedAt, Events, total
<1>7. PeersAt(g)'
  BY <1>1 DEF Round, PeersAt
<1>8. MissingAt(g)' /\ OneCompletes' /\ CompletesAt(g)'
  BY <1>1, <1>3 DEF Round, MissingAt, OneCompletes, CompletesAt, Events, total
<1>9. BarrierTypeOK'
  BY <1>1, <1>2 DEF BarrierTypeOK, total, Events
<1> QED BY <1>2, <1>5, <1>6, <1>7, <1>8, <1>9 DEF Round

\* A peer whose event is signaled leaves the round.
LEMMA WaitOnEventKeeps ==
  ASSUME BarrierTypeOK, EventsGiven, NEW g \in Nat, Round(g),
         NEW t \in Threads, CB_WaitOnThreadEvent(t)
  PROVE  BarrierTypeOK' /\ EventsGiven' /\ Round(g)'
<1>1. /\ pc[t] = "bwait" /\ pc'[t] = "program" /\ pc' \in [Threads -> BarrierPlaces]
      /\ \A u \in Threads \ {t} : pc'[u] = pc[u]
      /\ barrierReached[tls[t]]
      /\ barrierReached' = [barrierReached EXCEPT ![tls[t]] = FALSE]
      /\ left' = [left EXCEPT ![t] = @ + 1]
      /\ UNCHANGED <<count, usedEvents, tls, signaling, arrived>>
  BY PeerGoes DEF CB_WaitOnThreadEvent, BarrierTypeOK, BarrierPlaces
<1>2. t \in WithEvent /\ tls[t] \in Events /\ t \in Leaving(g)
  BY <1>1 DEF Round, ReachedAt, WithEvent, BarrierTypeOK
<1>3. arrived[t] = g /\ left[t] + 1 = g /\ left \in [Threads -> Nat]
  BY <1>2, PeerInRound DEF Round, BarrierTypeOK
<1>4. /\ left'[t] = g /\ \A u \in Threads \ {t} : left'[u] = left[u]
      /\ left' \in [Threads -> Nat]
  BY <1>1, <1>3
<1>5. /\ barrierReached' \in [Events -> BOOLEAN] /\ ~barrierReached'[tls[t]]
      /\ \A e \in Events \ {tls[t]} : barrierReached'[e] = barrierReached[e]
  BY <1>1, <1>2 DEF BarrierTypeOK
<1>6. At("restart") = {} /\ At("restart")' = {} /\ At("bsignal")' = At("bsignal")
  BY <1>1, <1>2 DEF Round, CompletesAt, At
<1>7. Entered(g)' = Entered(g) /\ \A u \in Threads \ {t} : u \in Leaving(g)' <=> u \in Leaving(g)
  BY <1>1, <1>4 DEF Entered, Leaving
<1>8. PeersAt(g)'
  BY <1>1, <1>3, <1>4 DEF Round, PeersAt
<1>9. SignalsAt(g)'
  <2>1. ASSUME NEW s \in At("bsignal")
        PROVE  ~(tls[t] >= signaling[s]) /\ s # t
    BY <2>1, <1>1, <1>2 DEF Round, SignalsAt, At
  <2>2. ASSUME NEW s \in At("bsignal")
        PROVE  /\ signaling[s] > 0 => tls[s] # -1
               /\ \A e \in Events : e >= signaling[s] => ~barrierReached'[e]
               /\ \A u \in Threads \ {s} : tls[u] >= signaling[s] => u \in Leaving(g)'
    BY <2>1, <1>5, <1>7 DEF Round, SignalsAt
  <2> QED BY <2>2, <1>1, <1>6 DEF SignalsAt, Events, total
<1>10. ReachedAt(g)'
  <2>1. \A u \in WithEvent : barrierReached'[tls[u]] => u \in Leaving(g)'
    <3> SUFFICES ASSUME NEW u \in WithEvent, barrierReached'[tls[u]]
                 PROVE  u \in Leaving(g)'
      OBVIOUS
    <3>1. u # t /\ tls[u] \in Events
      BY <1>5 DEF WithEvent, BarrierTypeOK
    <3>2. tls[u] # tls[t]
      BY <1>5
    <3> QED BY <3>1, <3>2, <1>5, <1>7 DEF Round, ReachedAt, WithEvent
  <2>2. \A u \in Threads : left'[u] > 0 \/ pc'[u] = "bwait" => tls[u] # -1
    BY <1>1, <1>2, <1>4 DEF Round, ReachedAt, WithEvent
  <2>3. g # 0
    BY <1>3 DEF BarrierTypeOK
  <2> QED BY <2>1, <2>2, <2>3, <1>1 DEF ReachedAt, WithEvent
<1>11. MissingAt(g)' /\ OneCompletes' /\ CompletesAt(g)'
  BY <1>1, <1>6, <1>7 DEF Round, MissingAt, OneCompletes, CompletesAt, total
<1>12. BarrierTypeOK'
  BY <1>1, <1>4, <1>5 DEF BarrierTypeOK, total, Events
<1> QED BY <1>1, <1>8, <1>9, <1>10, <1>11, <1>12 DEF EventsGiven, WithEvent, Round

\* The barrier starts in round 0.
LEMMA BarrierInitHolds ==
  ASSUME CB_Init, pc = [t \in Threads |-> "program"]
  PROVE  BarrierIInv
<1>1. BarrierTypeOK
  <2>1. total \in 0 .. total /\ 0 \in 0 .. total
    BY PeersCounted
  <2> QED BY <2>1 DEF CB_Init, BarrierTypeOK, BarrierPlaces
<1>2. EventsGiven
  <2>1. WithEvent = {} /\ usedEvents = 0
    BY DEF CB_Init, WithEvent
  <2>2. Cardinality(WithEvent) = 0
    BY <2>1, FS_EmptySet
  <2> QED BY <2>1, <2>2 DEF EventsGiven
<1>3. At("restart") = {} /\ At("bsignal") = {} /\ Entered(0) = {} /\ WithEvent = {}
  BY DEF At, CB_Init, Entered, WithEvent
<1>4. MissingAt(0)
  <2>1. Cardinality(Entered(0)) = 0 /\ total \in Nat
    BY <1>3, FS_EmptySet, PeersCounted
  <2>2. total = total - Cardinality(Entered(0))
    BY <2>1
  <2> QED BY <2>2, <1>3 DEF MissingAt, CB_Init
<1>5. PeersAt(0) /\ OneCompletes /\ CompletesAt(0) /\ SignalsAt(0) /\ ReachedAt(0)
  BY <1>3 DEF CB_Init, PeersAt, OneCompletes, CompletesAt, SignalsAt, ReachedAt
<1> QED BY <1>1, <1>2, <1>4, <1>5 DEF BarrierIInv, Round

\* A round ends when its last peer arrives, and that starts the next one.
LEMMA BarrierNextKeeps ==
  ASSUME BarrierIInv, CB_Next
  PROVE  BarrierIInv'
<1>1. PICK g \in Nat : Round(g)
  BY DEF BarrierIInv
<1>2. BarrierTypeOK /\ EventsGiven
  BY DEF BarrierIInv
<1>3. PICK t \in Threads : CB_Wait(t) \/ CB_Continue(t)
  BY DEF CB_Next
<1>4. CASE CB_Wait(t)
  <2>1. CASE count = 1
    <3>1. BarrierTypeOK' /\ EventsGiven' /\ Round(g + 1)'
      BY <1>1, <1>2, <1>4, <2>1, LastArrivalKeeps
    <3>2. g + 1 \in Nat
      OBVIOUS
    <3> QED BY <3>1, <3>2 DEF BarrierIInv
  <2>2. CASE count # 1
    BY <1>1, <1>2, <1>4, <2>2, ArrivalKeeps DEF BarrierIInv
  <2> QED BY <2>1, <2>2
<1>5. CASE CB_Continue(t)
  <2>1. BarrierTypeOK' /\ EventsGiven' /\ Round(g)'
    BY <1>1, <1>2, <1>5, RestartKeeps, SignalKeeps, SignalEndKeeps, FindEventKeeps,
       WaitOnEventKeeps DEF CB_Continue
  <2> QED BY <2>1 DEF BarrierIInv
<1> QED BY <1>3, <1>4, <1>5

\* A step of another object leaves the barrier as it is.
LEMMA BarrierStutters ==
  ASSUME BarrierIInv, UNCHANGED <<pc, cbvars>>
  PROVE  BarrierIInv'
<1>1. PICK g \in Nat : Round(g)
  BY DEF BarrierIInv
<1>2. BarrierTypeOK' /\ EventsGiven'
  BY DEF BarrierIInv, BarrierTypeOK, EventsGiven, WithEvent, cbvars, Events, total
<1>3. Round(g)'
  BY <1>1
  DEF cbvars, Round, PeersAt, MissingAt, OneCompletes, CompletesAt, SignalsAt,
      ReachedAt, WithEvent, Entered, Leaving, At, Events, total
<1> QED BY <1>2, <1>3 DEF BarrierIInv

\* Nobody is a round ahead of those that have not arrived.
LEMMA RoundsMeet == BarrierIInv => CB_Rendezvous
<1> SUFFICES ASSUME BarrierIInv, NEW t \in Threads, NEW u \in Threads
             PROVE  left[t] <= arrived[u]
  BY DEF CB_Rendezvous
<1>1. PICK g \in Nat : Round(g)
  BY DEF BarrierIInv
<1>2. left[t] \in Nat /\ left[t] <= g
  BY <1>1 DEF Round, PeersAt, BarrierIInv, BarrierTypeOK
<1>3. arrived[u] \in Nat /\ g <= arrived[u]
  BY <1>1 DEF Round, PeersAt, BarrierIInv, BarrierTypeOK
<1> QED BY <1>2, <1>3

-----------------------------------------------------------------------------
(* The synchronizers together.                                                *)

\* The object in use has its invariant, and the others are untouched.
WinIInv ==
  /\ object \in {"mutex", "barrier", "latch", "queue", "simple queue"}
  /\ IF object = "mutex" THEN UMtxIInv ELSE UMtxInit
  /\ IF object = "latch" THEN LatchIInv ELSE CDL_Init
  /\ IF object = "queue" THEN QueueIInv ELSE QueueInit
  /\ IF object = "simple queue" THEN SQueueIInv ELSE SQueueInit
  /\ IF object = "barrier" THEN BarrierIInv ELSE CB_Init

\* The invariant holds in every behavior, whichever object the threads share.
LEMMA WinInvariantHolds == WinSynchSpec => []WinIInv
<1>1. WinSynchInit => WinIInv
  <2> SUFFICES ASSUME WinSynchInit PROVE WinIInv
    OBVIOUS
  <2>1. pc = [t \in Threads |-> "program"] /\ UMtxInit /\ CB_Init
        /\ CDL_Init /\ QueueInit /\ SQueueInit
    BY DEF WinSynchInit
  <2>2. UMtxIInv /\ BarrierIInv /\ LatchIInv /\ QueueIInv /\ SQueueIInv
    BY <2>1, UMtxInitHolds, BarrierInitHolds, LatchInitHolds, QueueInitHolds,
       SQueueInitHolds
  <2> QED BY <2>1, <2>2 DEF WinIInv, WinSynchInit
<1>2. WinIInv /\ [WinSynchNext]_winvars => WinIInv'
  <2> SUFFICES ASSUME WinIInv, [WinSynchNext]_winvars PROVE WinIInv'
    OBVIOUS
  <2>a. UNCHANGED umtxvars => (UMtxInit => UMtxInit')
    BY DEF umtxvars, UMtxInit
  <2>b. UNCHANGED cdlvars => (CDL_Init => CDL_Init')
    BY DEF cdlvars, CDL_Init
  <2>c. UNCHANGED qvars => (QueueInit => QueueInit')
    BY DEF qvars, QueueInit
  <2>d. UNCHANGED sqvars => (SQueueInit => SQueueInit')
    BY DEF sqvars, SQueueInit
  <2>e. UNCHANGED cbvars => (CB_Init => CB_Init')
    BY DEF cbvars, CB_Init, total, Events
  <2>1. CASE OfMutex(UMtxNext)
    BY <2>1, <2>e, <2>b, <2>c, <2>d, UMtxNextKeeps DEF OfMutex, WinIInv
  <2>2. CASE OfBarrier(CB_Next)
    BY <2>2, <2>a, <2>b, <2>c, <2>d, BarrierNextKeeps DEF OfBarrier, WinIInv
  <2>3. CASE OfLatch(CDL_Next)
    BY <2>3, <2>e, <2>a, <2>c, <2>d, LatchNextKeeps DEF OfLatch, WinIInv
  <2>4. CASE OfQueue(QueueNext)
    BY <2>4, <2>e, <2>a, <2>b, <2>d, QueueNextKeeps DEF OfQueue, WinIInv
  <2>5. CASE OfSimpleQueue(SQueueNext)
    BY <2>5, <2>e, <2>a, <2>b, <2>c, SQueueNextKeeps DEF OfSimpleQueue, WinIInv
  <2>6. CASE UNCHANGED winvars
    <3>1. UNCHANGED <<pc, umtxvars, cbvars, cdlvars, qvars, sqvars, object>>
      BY <2>6 DEF winvars
    <3>2. UMtxIInv => UMtxIInv'
      BY <3>1, UMtxNextKeeps
    <3>3. QueueIInv => QueueIInv'
      BY <3>1, QueueNextKeeps
    <3>4. LatchIInv => LatchIInv'
      BY <3>1, LatchStutters
    <3>5. SQueueIInv => SQueueIInv'
      BY <3>1 DEF SQueueIInv, sqvars, SQueueAccounts, At
    <3>6. BarrierIInv => BarrierIInv'
      BY <3>1, BarrierStutters
    <3> QED BY <3>1, <3>2, <3>3, <3>4, <3>5, <3>6, <2>a, <2>b, <2>c, <2>d, <2>e
        DEF WinIInv
  <2> QED BY <2>1, <2>2, <2>3, <2>4, <2>5, <2>6 DEF WinSynchNext
<1> QED BY <1>1, <1>2, PTL DEF WinSynchSpec

\* No thread is at a place of an object that is not in use.
LEMMA OthersEmpty ==
  ASSUME WinIInv
  PROVE  /\ object # "mutex" => \A l \in Places \ {"program"} : At(l) = {}
         /\ object # "queue" => \A l \in QueuePlaces \ {"program"} : At(l) = {}
         /\ object # "simple queue" => \A l \in SQueuePlaces \ {"program"} : At(l) = {}
<1>1. CASE object = "mutex"
  BY <1>1 DEF WinIInv, UMtxIInv, UMtxTypeOK, Places, QueuePlaces, SQueuePlaces, At
<1>2. CASE object = "barrier"
  BY <1>2 DEF WinIInv, BarrierIInv, BarrierTypeOK, BarrierPlaces, Places, QueuePlaces, SQueuePlaces, At
<1>3. CASE object = "latch"
  BY <1>3 DEF WinIInv, LatchIInv, LatchPlaces, Places, QueuePlaces, SQueuePlaces, At
<1>4. CASE object = "queue"
  BY <1>4 DEF WinIInv, QueueIInv, QueueTypeOK, Places, QueuePlaces, SQueuePlaces, At
<1>5. CASE object = "simple queue"
  BY <1>5 DEF WinIInv, SQueueIInv, Places, QueuePlaces, SQueuePlaces, At
<1> QED BY <1>1, <1>2, <1>3, <1>4, <1>5 DEF WinIInv

\* One thread at a time has the mutex, whichever way it got it.
THEOREM MutexExcludes == WinSynchSpec => []UMtxExclusion
<1>1. WinIInv => UMtxExclusion
  <2> SUFFICES ASSUME WinIInv, object # "mutex" PROVE UMtxExclusion
    BY DEF WinIInv, UMtxIInv
  <2>1. \A l \in Places \ {"program"} : At(l) = {}
    BY OthersEmpty
  <2>2. Holders = {} /\ Passing = {} /\ At("inside") = {}
    BY <2>1 DEF Holders, Passing, Places
  <2>3. \A t \in Threads : pc[t] # "inside"
    BY <2>2 DEF At
  <2>4. Owner = NULL /\ ~Wakeup
    BY DEF WinIInv, UMtxInit
  <2> QED BY <2>2, <2>3, <2>4, WinThreadsAssumption DEF UMtxExclusion
<1> QED BY <1>1, WinInvariantHolds, PTL

\* No thread sleeps at the event of a mutex that nobody will pass on.
THEOREM SleeperIsWoken == WinSynchSpec => []UMtxNoLostWakeup
<1>1. WinIInv => UMtxNoLostWakeup
  <2> SUFFICES ASSUME WinIInv, object # "mutex" PROVE UMtxNoLostWakeup
    BY DEF WinIInv, UMtxIInv
  <2>1. \A l \in Places \ {"program"} : At(l) = {}
    BY OthersEmpty
  <2>2. At("sleep") = {} /\ Holders \cup At("sleep") = {}
    BY <2>1 DEF Holders, Places
  <2>3. Count = Cardinality(Holders \cup At("sleep"))
    BY <2>2, FS_EmptySet DEF WinIInv, UMtxInit
  <2> QED BY <2>2, <2>3 DEF UMtxNoLostWakeup
<1> QED BY <1>1, WinInvariantHolds, PTL

\* Until QueueClose items and permits are the same number, afterwards no item is
\* without one, and QueueGet answers NULL only for a closed and empty queue.
THEOREM ItemsHavePermits == WinSynchSpec => []QueuePermitsMatch
<1>1. WinIInv => QueuePermitsMatch
  <2> SUFFICES ASSUME WinIInv, object # "queue" PROVE QueuePermitsMatch
    BY DEF WinIInv, QueueIInv
  <2>1. \A l \in QueuePlaces \ {"program"} : At(l) = {}
    BY OthersEmpty
  <2>2. At("release") \cup At("index0") = {}
    BY <2>1 DEF QueuePlaces
  <2>3. Cardinality(At("release") \cup At("index0")) = 0
    BY <2>2, FS_EmptySet
  <2>4. /\ list = <<>> /\ nItems = 0 /\ itemsAvaiable = 0 /\ ~refusedGet
        /\ Len(list) = 0
    BY EmptySeq DEF WinIInv, QueueInit
  <2> QED BY <2>3, <2>4 DEF QueuePermitsMatch
<1> QED BY <1>1, WinInvariantHolds, PTL

\* The places of the bounded queue are all accounted for, and a getter with a
\* permit finds an item.
THEOREM PlacesAreKept == WinSynchSpec => []SQueueAccounts
<1>1. WinIInv => SQueueAccounts
  <2>0. SUFFICES ASSUME WinIInv, object # "simple queue" PROVE SQueueAccounts
    BY DEF WinIInv, SQueueIInv
  <2>1. \A l \in SQueuePlaces \ {"program"} : At(l) = {}
    BY <2>0, OthersEmpty
  <2>2. At("filled") \cup At("get") = {} /\ At("put") \cup At("emptied") = {}
    <3>1. At("filled") = {} /\ At("get") = {} /\ At("put") = {} /\ At("emptied") = {}
      BY <2>1 DEF SQueuePlaces
    <3> QED BY <3>1
  <2>3. /\ Cardinality(At("filled") \cup At("get")) = 0
        /\ Cardinality(At("put") \cup At("emptied")) = 0
    BY <2>2, FS_EmptySet
  <2>4. /\ Len(slist) = 0 /\ snItems = 0 /\ sitemsAvaiable = 0
        /\ spaceAvaiable = maxItems /\ lost = 0
    BY <2>0, EmptySeq DEF WinIInv, SQueueInit
  <2>5. Len(slist) = sitemsAvaiable + Cardinality(At("filled") \cup At("get"))
    BY <2>3, <2>4
  <2>6. maxItems = spaceAvaiable + Len(slist) + lost
                     + Cardinality(At("put") \cup At("emptied"))
    BY <2>3, <2>4, AllFree
  <2> QED BY <2>4, <2>5, <2>6 DEF SQueueAccounts
<1> QED BY <1>1, WinInvariantHolds, PTL

\* CDL_Wait returns only when the latch has been signaled as often as it was made
\* for, in the first round and in every round whose reset met no other call,
\* although any thread may reset the latch at any time.
THEOREM LatchWaitsForAll == WinSynchSpec => []CDL_WaitsForAll
<1>1. WinIInv => CDL_WaitsForAll
  BY DEF WinIInv, LatchIInv, CDL_Init, CDL_WaitsForAll
<1> QED BY <1>1, WinInvariantHolds, PTL

\* Nobody comes back from CB_Wait before every peer has called it, in every round,
\* although the signaled ones run on while the last one is still signaling.
THEOREM PeersMeet == WinSynchSpec => []CB_Rendezvous
<1>1. WinIInv => CB_Rendezvous
  <2> SUFFICES ASSUME WinIInv, object # "barrier" PROVE CB_Rendezvous
    BY RoundsMeet DEF WinIInv
  <2>1. \A t \in Threads : left[t] = 0 /\ arrived[t] = 0
    BY DEF WinIInv, CB_Init
  <2> QED BY <2>1 DEF CB_Rendezvous
<1> QED BY <1>1, WinInvariantHolds, PTL
=============================================================================
