-------------------------- MODULE UThreadJoin_proofs --------------------------
(* Theorems about UtJoin and UtAlive, for every set of thread blocks.         *)
EXTENDS UThreadJoin, UThread_proofs

\* The inductive invariant: that of the scheduler, and that the two kinds of
\* list agree with it.  AliveExact and ParkedAreJoining need each other only
\* through IInv: a thread that exits wakes joiners that are in no other place.
JoinIInv == IInv /\ JoinTypeOK /\ AliveExact /\ ParkedAreJoining

\* Unlinking a thread that is in the list.
LEMMA Unlink ==
  ASSUME NEW s \in Seq(Threads), IsInjective(s), NEW t \in Range(s)
  PROVE  /\ Unlinked(s, t) \in Seq(Threads)
         /\ IsInjective(Unlinked(s, t))
         /\ Range(Unlinked(s, t)) = Range(s) \ {t}
<1> DEFINE i == CHOOSE k \in DOMAIN s : s[k] = t
           a == SubSeq(s, 1, i - 1)
           b == SubSeq(s, i + 1, Len(s))
<1>1. /\ DOMAIN s = 1 .. Len(s) /\ Len(s) \in Nat
      /\ \A k \in 1 .. Len(s) : s[k] \in Threads
  OBVIOUS
<1>2. i \in 1 .. Len(s) /\ s[i] = t
  BY <1>1 DEF Range
<1> HIDE DEF i
<1>3. /\ a \in Seq(Threads) /\ Len(a) = i - 1
      /\ \A k \in 1 .. i - 1 : a[k] = s[k]
  <2>1. \A k \in 1 .. i - 1 : s[k] \in Threads
    BY <1>1, <1>2
  <2>2. /\ a \in Seq(Threads)
        /\ Len(a) = IF 1 <= i - 1 THEN (i - 1) - 1 + 1 ELSE 0
        /\ \A k \in 1 .. (i - 1) - 1 + 1 : a[k] = s[1 + k - 1]
    BY <2>1, <1>2, SubSeqProperties
  <2> QED BY <2>2, <1>2
<1>4. /\ b \in Seq(Threads) /\ Len(b) = Len(s) - i
      /\ \A k \in 1 .. Len(s) - i : b[k] = s[i + k]
  <2>1. \A k \in i + 1 .. Len(s) : s[k] \in Threads
    BY <1>1, <1>2
  <2>2. /\ b \in Seq(Threads)
        /\ Len(b) = IF i + 1 <= Len(s) THEN Len(s) - (i + 1) + 1 ELSE 0
        /\ \A k \in 1 .. Len(s) - (i + 1) + 1 : b[k] = s[(i + 1) + k - 1]
    BY <2>1, <1>1, <1>2, SubSeqProperties
  <2> HIDE DEF b
  <2>3. Len(s) - (i + 1) + 1 = Len(s) - i /\ \A k \in Nat : (i + 1) + k - 1 = i + k
    BY <1>1, <1>2
  <2>4. \A k \in 1 .. Len(s) - i : b[k] = s[i + k]
    BY <2>2, <2>3
  <2>5. Len(b) = Len(s) - i
    <3>a. i \in Nat /\ Len(s) \in Nat /\ i <= Len(s)
      BY <1>1, <1>2
    <3>1. ~(i + 1 <= Len(s)) => Len(s) - i = 0
      BY <3>a
    <3>2. CASE i + 1 <= Len(s)
      BY <3>2, <2>2, <2>3
    <3>3. CASE ~(i + 1 <= Len(s))
      BY <3>3, <3>1, <2>2
    <3> QED BY <3>2, <3>3
  <2> QED BY <2>2, <2>4, <2>5
<1> HIDE DEF a, b
<1>5. DOMAIN a = 1 .. i - 1 /\ DOMAIN b = 1 .. Len(s) - i
  BY <1>1, <1>2, <1>3, <1>4
<1>6. IsInjective(a) /\ IsInjective(b)
  <2>1. ASSUME NEW k \in 1 .. i - 1, NEW l \in 1 .. i - 1, a[k] = a[l] PROVE k = l
    BY <2>1, <1>1, <1>2, <1>3 DEF IsInjective
  <2>2. ASSUME NEW k \in 1 .. Len(s) - i, NEW l \in 1 .. Len(s) - i, b[k] = b[l]
        PROVE  k = l
    <3>1. i + k \in DOMAIN s /\ i + l \in DOMAIN s /\ s[i + k] = s[i + l]
      BY <2>2, <1>1, <1>2, <1>4
    <3>2. i + k = i + l
      BY <3>1 DEF IsInjective
    <3> QED BY <3>2, <1>1, <1>2
  <2> QED BY <2>1, <2>2, <1>5 DEF IsInjective
<1>7. Range(a) \cup Range(b) = Range(s) \ {t} /\ Range(a) \cap Range(b) = {}
  <2>1. ASSUME NEW x \in Range(a) PROVE \E k \in 1 .. i - 1 : x = s[k]
    BY <1>3, <1>5 DEF Range
  <2>2. ASSUME NEW x \in Range(b) PROVE \E k \in i + 1 .. Len(s) : x = s[k]
    <3>1. PICK k \in 1 .. Len(s) - i : x = b[k]
      BY <1>5 DEF Range
    <3>2. i + k \in i + 1 .. Len(s) /\ x = s[i + k]
      BY <3>1, <1>1, <1>2, <1>4
    <3> QED BY <3>2
  <2>3. ASSUME NEW x \in Range(s), x # t PROVE x \in Range(a) \cup Range(b)
    <3>1. PICK k \in 1 .. Len(s) : x = s[k]
      BY <1>1 DEF Range
    <3>2. k # i
      BY <2>3, <3>1, <1>2
    <3>3. CASE k \in 1 .. i - 1
      BY <3>1, <3>3, <1>3, <1>5 DEF Range
    <3>4. CASE k \in i + 1 .. Len(s)
      <4>1. k - i \in 1 .. Len(s) - i /\ i + (k - i) = k
        BY <3>4, <1>1, <1>2
      <4>2. k - i \in DOMAIN b /\ b[k - i] = x
        BY <4>1, <3>1, <1>4, <1>5
      <4> QED BY <4>2 DEF Range
    <3> QED BY <3>1, <3>2, <3>3, <3>4, <1>1, <1>2
  <2>4. \A k, l \in 1 .. Len(s) : s[k] = s[l] => k = l
    BY <1>1 DEF IsInjective
  <2>5. ASSUME NEW x \in Range(a) PROVE x \in Range(s) \ {t} /\ x \notin Range(b)
    <3>1. PICK k \in 1 .. i - 1 : x = s[k]
      BY <2>1
    <3>2. k \in 1 .. Len(s) /\ k # i /\ \A l \in i + 1 .. Len(s) : k # l /\ l \in 1 .. Len(s)
      BY <1>1, <1>2
    <3>3. x \in Range(s) /\ x # t
      BY <3>1, <3>2, <2>4, <1>1, <1>2 DEF Range
    <3> QED BY <3>1, <3>2, <3>3, <2>2, <2>4
  <2>6. ASSUME NEW x \in Range(b) PROVE x \in Range(s) \ {t}
    <3>1. PICK k \in i + 1 .. Len(s) : x = s[k]
      BY <2>2
    <3>2. k \in 1 .. Len(s) /\ k # i
      BY <1>1, <1>2
    <3> QED BY <3>1, <3>2, <2>4, <1>1, <1>2 DEF Range
  <2> QED BY <2>3, <2>5, <2>6
<1>8. Unlinked(s, t) = a \o b
  BY DEF Unlinked, i, a, b
<1> QED BY <1>3, <1>4, <1>6, <1>7, <1>8, Concat

\* A step that changes no list.
LEMMA ListsKept ==
  ASSUME JoinIInv, IInv', Parked' = Parked, Allocated' = Allocated, UNCHANGED joinvars
  PROVE  JoinIInv'
BY DEF JoinIInv, IInv, joinvars, JoinTypeOK, AliveExact, ParkedAreJoining, Joining

\* Before UtRun no thread exists and nobody joins.
LEMMA JoinInitHolds == InitJoin => JoinIInv
<1>1. IsInjective(<<>>) /\ Range(<<>>) = {}
  BY DEF IsInjective, Range
<1> QED BY <1>1, InitHolds
    DEF InitJoin, UtInit, JoinIInv, IInv, JoinTypeOK, AliveExact, ParkedAreJoining,
        Joining, Parked

-----------------------------------------------------------------------------
\* UtCreate puts a block nobody has in the list of existing threads.
LEMMA CreateKeeps ==
  ASSUME JoinIInv, NEW t \in Threads, UtCreateJoinable(t)
  PROVE  JoinIInv'
<1>1. IInv'
  BY NextKeeps DEF JoinIInv, UtCreateJoinable, Next
<1>2. /\ ReadyQueue' = Append(ReadyQueue, t) /\ RunningThread' = RunningThread
      /\ t \notin Allocated /\ Allocated' = Allocated \cup {t}
      /\ AliveThreads' = Append(AliveThreads, t)
      /\ Joiners' = [Joiners EXCEPT ![t] = <<>>]
  BY DEF UtCreateJoinable, UtCreate, Activated
<1>3. Joiners' = Joiners
  <2>1. Joiners[t] = <<>>
    BY <1>2 DEF JoinIInv, ParkedAreJoining
  <2> QED BY <1>2, <2>1 DEF JoinIInv, JoinTypeOK
<1>4. AliveThreads' \in Seq(Threads) /\ AliveExact'
  BY <1>2, InsertTail DEF JoinIInv, JoinTypeOK, AliveExact
<1>5. Range(ReadyQueue') = Range(ReadyQueue) \cup {t}
  BY <1>2, InsertTail DEF JoinIInv, IInv, TypeOK, OnePlace
<1>6. Parked' = Parked
  BY <1>2, <1>5 DEF Parked
<1>7. ParkedAreJoining'
  BY <1>2, <1>3, <1>6 DEF JoinIInv, ParkedAreJoining, Joining
<1> QED BY <1>1, <1>3, <1>4, <1>7 DEF JoinIInv, IInv, JoinTypeOK

\* The exit frees the block and moves its joiners to the ready queue.
LEMMA ExitKeeps ==
  ASSUME JoinIInv, UtExitJoined
  PROVE  JoinIInv'
<1> DEFINE r == RunningThread
           w == Joiners[r]
           q == ReadyQueue \o w
<1> USE ThreadsAssumption
<1>1. /\ r \in Threads /\ NumberOfThreads' = NumberOfThreads - 1
      /\ Allocated' = Allocated \ {r} /\ SwitchFrom(q) /\ UNCHANGED MainThread
      /\ AliveThreads' = Unlinked(AliveThreads, r)
      /\ Joiners' = [Joiners EXCEPT ![r] = <<>>]
  BY DEF UtExitJoined, ExitWaking, UserRuns
<1>2. /\ r \in Allocated /\ r \notin Range(ReadyQueue) /\ MainThread = Main
      /\ w \in Seq(Threads) /\ IsInjective(w) /\ Range(w) \subseteq Parked
  <2>1. r \in Allocated /\ r \notin Range(ReadyQueue) /\ MainThread = Main
    BY <1>1, RunningUnderUtRun DEF JoinIInv, IInv, OnePlace, UserRuns
  <2>2. w \in Seq(Threads) /\ IsInjective(w)
    BY <1>1 DEF JoinIInv, JoinTypeOK, ParkedAreJoining
  <2>3. Range(w) \subseteq Threads
    BY <2>2 DEF Range
  <2>4. Range(w) \subseteq Parked
    BY <1>1, <2>3 DEF JoinIInv, ParkedAreJoining, Joining
  <2> QED BY <2>1, <2>2, <2>4
<1>3. /\ q \in Seq(Threads) /\ IsInjective(q)
      /\ Range(q) = Range(ReadyQueue) \cup Range(w)
  BY <1>2, Concat DEF JoinIInv, IInv, TypeOK, OnePlace, Parked
<1> HIDE DEF q
<1>4. CountIsExact' /\ NumberOfThreads' \in Nat
  <2>1. /\ IsFiniteSet(Allocated \ {r})
        /\ Cardinality(Allocated \ {r}) = Cardinality(Allocated) - 1
    BY <1>2, FS_RemoveElement DEF JoinIInv, IInv, CountIsExact
  <2>2. Cardinality(Allocated \ {r}) \in Nat
    BY <2>1, FS_CardinalityType
  <2> QED BY <1>1, <2>1, <2>2 DEF JoinIInv, IInv, CountIsExact
<1>5. Range(q) \subseteq Allocated' /\ Allocated' \subseteq Threads
  BY <1>1, <1>2, <1>3 DEF JoinIInv, IInv, TypeOK, OnePlace, Parked
<1>6. IInv'
  <2>1. Placed'
    BY <1>1, <1>2, <1>3, <1>4, <1>5, SwitchPlaces
  <2> QED BY <1>4, <2>1 DEF Placed, IInv
<1>7. Parked' = Parked \ Range(w)
  <2>1. Parked' = Allocated' \ Range(q)
    BY <1>1, <1>2, <1>3, <1>5, SwitchParked
  <2> QED BY <1>1, <1>3, <2>1 DEF Parked
<1>8. AliveThreads' \in Seq(Threads) /\ AliveExact'
  BY <1>1, <1>2, Unlink DEF JoinIInv, JoinTypeOK, AliveExact
<1>9. /\ Joiners' \in [Threads -> Seq(Threads)]
      /\ \A u \in Threads : Joiners'[u] = IF u = r THEN <<>> ELSE Joiners[u]
  BY <1>1, EmptySeq DEF JoinIInv, JoinTypeOK
<1>10. Range(<<>>) = {} /\ IsInjective(<<>>)
  BY DEF Range, IsInjective
<1>11. \A t \in Threads : Joining(t)' <=> Joining(t) /\ t \notin Range(w)
  <2>1. \A u \in Threads \ {r} : Range(Joiners[u]) \cap Range(w) = {}
    BY <1>1 DEF JoinIInv, ParkedAreJoining
  <2> QED BY <1>1, <1>9, <1>10, <2>1 DEF Joining
<1>12. ParkedAreJoining'
  <2>1. {t \in Threads : Joining(t)}' = Parked'
    BY <1>7, <1>11 DEF JoinIInv, ParkedAreJoining
  <2>2. /\ \A u \in Threads : IsInjective(Joiners'[u])
        /\ \A u, v \in Threads :
             u # v => Range(Joiners'[u]) \cap Range(Joiners'[v]) = {}
        /\ \A u \in Threads : Joiners'[u] # <<>> => u \in Allocated'
    BY <1>1, <1>9, <1>10 DEF JoinIInv, ParkedAreJoining
  <2> QED BY <2>1, <2>2 DEF ParkedAreJoining
<1> QED BY <1>6, <1>8, <1>9, <1>12 DEF JoinIInv, IInv, JoinTypeOK

\* UtJoin parks the caller in the list of joiners of a thread that exists.
LEMMA JoinKeeps ==
  ASSUME JoinIInv, NEW h \in Threads, UtJoin(h)
  PROVE  JoinIInv'
<1> DEFINE r == RunningThread
<1> USE ThreadsAssumption
<1>1. IInv'
  BY NextKeeps DEF JoinIInv, UtJoin, Next
<1>2. /\ r \in Threads /\ h # r /\ h \in Range(AliveThreads)
      /\ Joiners' = [Joiners EXCEPT ![h] = Append(@, r)]
      /\ SwitchFrom(ReadyQueue)
      /\ UNCHANGED <<Allocated, MainThread, AliveThreads>>
  BY DEF UtJoin, UtDeactivate, UserRuns, UtAlive
<1>3. r \in Allocated /\ r \notin Range(ReadyQueue) /\ MainThread = Main
  BY <1>2, RunningUnderUtRun DEF JoinIInv, IInv, OnePlace, UserRuns
<1>4. Parked' = Parked \cup {r}
  BY ParkedMore DEF UtJoin, JoinIInv
<1>5. \A u \in Threads : r \notin Range(Joiners[u])
  BY <1>2 DEF JoinIInv, ParkedAreJoining, Joining, Parked
<1>6. /\ Append(Joiners[h], r) \in Seq(Threads)
      /\ Range(Append(Joiners[h], r)) = Range(Joiners[h]) \cup {r}
      /\ IsInjective(Append(Joiners[h], r))
  BY <1>2, <1>5, InsertTail DEF JoinIInv, JoinTypeOK, ParkedAreJoining
<1>7. /\ Joiners' \in [Threads -> Seq(Threads)]
      /\ Joiners'[h] = Append(Joiners[h], r)
      /\ \A u \in Threads \ {h} : Joiners'[u] = Joiners[u]
  BY <1>2, <1>6 DEF JoinIInv, JoinTypeOK
<1>8. \A t \in Threads : Joining(t)' <=> Joining(t) \/ t = r
  BY <1>6, <1>7 DEF Joining
<1>9. ParkedAreJoining'
  <2>1. {t \in Threads : Joining(t)}' = Parked'
    BY <1>2, <1>4, <1>8 DEF JoinIInv, ParkedAreJoining
  <2>2. \A u \in Threads : IsInjective(Joiners'[u])
    BY <1>6, <1>7 DEF JoinIInv, ParkedAreJoining
  <2>3. ASSUME NEW u \in Threads, NEW v \in Threads, u # v
        PROVE  Range(Joiners'[u]) \cap Range(Joiners'[v]) = {}
    BY <2>3, <1>5, <1>6, <1>7 DEF JoinIInv, ParkedAreJoining
  <2>4. h \in Allocated'
    BY <1>2 DEF JoinIInv, AliveExact
  <2>5. \A u \in Threads : Joiners'[u] # <<>> => u \in Allocated'
    BY <1>2, <1>7, <2>4 DEF JoinIInv, ParkedAreJoining
  <2> QED BY <2>1, <2>2, <2>3, <2>5 DEF ParkedAreJoining
<1> QED BY <1>1, <1>2, <1>7, <1>9 DEF JoinIInv, IInv, JoinTypeOK, AliveExact

\* The lists of joiners and of existing threads agree with the scheduler.
THEOREM JoinInvariantHolds == SpecJoin => []JoinIInv
<1>1. JoinIInv /\ [NextJoin]_vars => JoinIInv'
  <2> SUFFICES ASSUME JoinIInv, [NextJoin]_vars PROVE JoinIInv'
    OBVIOUS
  <2> USE ThreadsAssumption
  <2>1. CASE (UtRun \/ UtRunReturn \/ UtYield) /\ UNCHANGED joinvars
    <3>1. IInv' /\ Parked' = Parked
      BY <2>1, NextKeeps, ParkedKept DEF JoinIInv, Next
    <3>2. Allocated' = Allocated
      BY <2>1 DEF UtRun, UtRunReturn, UtYield
    <3> QED BY <2>1, <3>1, <3>2, ListsKept
  <2>2. CASE UNCHANGED vars
    <3>1. IInv'
      BY <2>2, NextKeeps DEF JoinIInv, vars
    <3> QED BY <2>2, <3>1, ListsKept DEF vars, utvars, Parked
  <2> QED BY <2>1, <2>2, CreateKeeps, ExitKeeps, JoinKeeps DEF NextJoin
<1> QED BY JoinInitHolds, <1>1, PTL DEF SpecJoin

\* UtAlive answers by AliveThreads, which lists the existing threads, each once.
THEOREM AliveIsExact == SpecJoin => []AliveExact
BY JoinInvariantHolds, PTL DEF JoinIInv

\* Every thread that is neither running nor ready waits in exactly one list of
\* joiners, that of a thread that exists and will wake it.
THEOREM NobodyIsLost == SpecJoin => []ParkedAreJoining
BY JoinInvariantHolds, PTL DEF JoinIInv

\* UtJoin returns only through the end of the thread it waits for.
THEOREM JoinEndsByExit == SpecJoin => JoinWaitsForExit
<1> DEFINE A == \A t, u \in Threads :
                  t \in Range(Joiners[u]) /\ t \notin Range(Joiners'[u])
                    => RunningThread = u /\ u \notin Allocated'
<1>1. JoinIInv /\ [NextJoin]_vars => [A]_vars
  <2> SUFFICES ASSUME JoinIInv, NextJoin, NEW t \in Threads, NEW u \in Threads,
                      t \in Range(Joiners[u]), t \notin Range(Joiners'[u])
               PROVE  RunningThread = u /\ u \notin Allocated'
    OBVIOUS
  <2>1. Joiners' # Joiners
    OBVIOUS
  <2>2. ASSUME NEW h \in Threads, UtCreateJoinable(h) PROVE FALSE
    <3>1. Joiners[h] = <<>> /\ Joiners' = [Joiners EXCEPT ![h] = <<>>]
      BY <2>2 DEF UtCreateJoinable, UtCreate, JoinIInv, ParkedAreJoining
    <3> QED BY <2>1, <3>1 DEF JoinIInv, JoinTypeOK
  <2>3. ASSUME NEW h \in Threads, UtJoin(h) PROVE FALSE
    <3>1. /\ RunningThread \in Threads /\ Joiners \in [Threads -> Seq(Threads)]
          /\ Joiners' = [Joiners EXCEPT ![h] = Append(@, RunningThread)]
          /\ RunningThread \notin Range(Joiners[h]) /\ IsInjective(Joiners[h])
      BY <2>3 DEF UtJoin, UserRuns, JoinIInv, JoinTypeOK, ParkedAreJoining, Joining, Parked
    <3>2. u = h
      BY <3>1
    <3>3. Joiners'[h] = Append(Joiners[h], RunningThread)
      BY <3>1
    <3>4. Range(Joiners'[h]) = Range(Joiners[h]) \cup {RunningThread}
      BY <3>1, <3>3, InsertTail
    <3> QED BY <3>2, <3>4
  <2>4. CASE UtExitJoined
    BY <2>4 DEF UtExitJoined, ExitWaking, JoinIInv, JoinTypeOK
  <2> QED BY <2>1, <2>2, <2>3, <2>4 DEF NextJoin, joinvars
<1> QED BY <1>1, JoinInvariantHolds, PTL DEF SpecJoin, JoinWaitsForExit
=============================================================================
