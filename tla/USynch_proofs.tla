---------------------------- MODULE USynch_proofs ----------------------------
(* Theorems about the mutex, the event and the semaphore used together by the *)
(* threads of one processor, for every set of threads and all their          *)
(* parameters.                                                               *)
EXTENDS USynch, UThread_proofs

-----------------------------------------------------------------------------
(* What SemaphoreRelease pays out.                                           *)

\* The permits the i-th wait block asks for.
Request == [i \in 1 .. Len(SemaphoreWaitList) |-> SemaphoreWaitList[i].RequestedPermits]

\* The permits among the first k blocks' that go to thread t.
Granted(t, k) == Asked({i \in 1 .. k : SemaphoreWaitList[i].Thread = t})

\* What the wait list is made of.
LEMMA RequestType ==
  ASSUME SemTypeOK
  PROVE  /\ Len(SemaphoreWaitList) \in Nat
         /\ \A i \in 1 .. Len(SemaphoreWaitList) :
              /\ SemaphoreWaitList[i] \in WaitBlocks
              /\ SemaphoreWaitList[i].Thread \in Threads
              /\ Request[i] = SemaphoreWaitList[i].RequestedPermits
              /\ Request[i] \in Nat \ {0}
<1>1. /\ Len(SemaphoreWaitList) \in Nat
      /\ \A i \in 1 .. Len(SemaphoreWaitList) : SemaphoreWaitList[i] \in WaitBlocks
  BY DEF SemTypeOK
<1>2. \A b \in WaitBlocks : b.Thread \in Threads /\ b.RequestedPermits \in Nat \ {0}
  <2>1. \A n \in Requests : n \in Nat \ {0}
    BY SemaphoreAssumption
  <2> QED BY <2>1 DEF WaitBlocks
<1> QED BY <1>1, <1>2 DEF Request

\* Asked is the sum of the requests.
LEMMA AskedIsTotal ==
  ASSUME SemTypeOK, NEW I, I \subseteq 1 .. Len(SemaphoreWaitList)
  PROVE  /\ Summable(Request, I)
         /\ Asked(I) = Total(Request, I)
         /\ Asked(I) \in Nat
<1> DEFINE c(s) == CHOOSE x \in s : TRUE
           Sums(g) == g = [s \in SUBSET I |->
                             IF s = {} THEN 0
                             ELSE SemaphoreWaitList[c(s)].RequestedPermits + g[s \ {c(s)}]]
           g == CHOOSE q : Sums(q)
           h == CHOOSE q : IsSum(q, Request, I)
<1>1. Summable(Request, I)
  <2>1. IsFiniteSet(1 .. Len(SemaphoreWaitList))
    BY RequestType, FS_Interval
  <2> QED BY <2>1, FS_Subset, RequestType DEF Summable
<1>2. Asked(I) = g[I]
  BY DEF Asked, MapThenSumSet, MapThenFoldSet
<1>3. \A s \in SUBSET I : s # {} =>
        SemaphoreWaitList[c(s)].RequestedPermits = Request[c(s)]
  BY RequestType
<1>4. ASSUME NEW q PROVE Sums(q) <=> IsSum(q, Request, I)
  BY <1>3 DEF IsSum
<1>5. Sums(g)
  <2> HIDE DEF Sums
  <2>1. \E q : Sums(q)
    BY <1>1, <1>4, SumExists
  <2> QED BY <2>1
<1>6. IsSum(g, Request, I) /\ IsSum(h, Request, I) /\ Total(Request, I) \in Nat
  <2>1. IsSum(g, Request, I)
    BY <1>4, <1>5
  <2> QED BY <1>1, <2>1, TotalType
<1>7. Total(Request, I) = h[I]
  BY DEF Total
<1> HIDE DEF g, h
<1>8. g[I] = h[I]
  BY <1>1, <1>6, SumSame
<1> QED BY <1>1, <1>2, <1>6, <1>7, <1>8

\* One more block.
LEMMA AskedMore ==
  ASSUME SemTypeOK, NEW I, I \subseteq 1 .. Len(SemaphoreWaitList),
         NEW i \in 1 .. Len(SemaphoreWaitList), i \notin I
  PROVE  Asked(I \cup {i}) = Asked(I) + SemaphoreWaitList[i].RequestedPermits
<1>1. /\ Summable(Request, I)
      /\ Asked(I) = Total(Request, I)
  BY AskedIsTotal
<1>2. Asked(I \cup {i}) = Total(Request, I \cup {i})
  <2>1. I \cup {i} \subseteq 1 .. Len(SemaphoreWaitList)
    OBVIOUS
  <2> QED BY <2>1, AskedIsTotal
<1>3. Request[i] \in Nat /\ Request[i] = SemaphoreWaitList[i].RequestedPermits
  BY RequestType
<1>4. Total(Request, I \cup {i}) = Total(Request, I) + Request[i]
  BY <1>1, <1>3, TotalAdd
<1> QED BY <1>1, <1>2, <1>3, <1>4

\* No block.
LEMMA AskedNone == ASSUME SemTypeOK PROVE Asked({}) = 0
<1>1. /\ Summable(Request, {})
      /\ Asked({}) = Total(Request, {})
  BY AskedIsTotal
<1> QED BY <1>1, TotalType

\* The loop of SemaphoreRelease with p permits serves as many blocks as they pay.
LEMMA ServedIs ==
  ASSUME SemTypeOK, NEW p \in Nat
  PROVE  /\ Served(p) \in 0 .. Len(SemaphoreWaitList)
         /\ Asked(1 .. Served(p)) <= p
         /\ \A k \in 0 .. Len(SemaphoreWaitList) : Asked(1 .. k) <= p => k <= Served(p)
<1> DEFINE n == Len(SemaphoreWaitList)
           Fit == {k \in 0 .. n : Asked(1 .. k) <= p}
           Rest == {n - k : k \in Fit}
<1>1. n \in Nat
  BY RequestType
<1>2. 0 \in Fit
  <2>1. 1 .. 0 = {}
    OBVIOUS
  <2> QED BY <1>1, <2>1, AskedNone
<1>3. Rest \subseteq Nat /\ Rest # {}
  BY <1>1, <1>2
<1>4. PICK m \in Rest : \A r \in Rest : m <= r
  <2> HIDE DEF Rest
  <2> QED BY <1>3, LeastNat
<1>5. PICK k \in Fit : m = n - k
  OBVIOUS
<1>6. \A j \in Fit : k >= j
  <2> TAKE j \in Fit
  <2>1. n - k <= n - j
    BY <1>4, <1>5
  <2>2. j \in 0 .. n /\ k \in 0 .. n
    OBVIOUS
  <2> QED BY <1>1, <2>1, <2>2
<1> HIDE DEF Fit
<1>7. Max(Fit) \in Fit /\ \A j \in Fit : Max(Fit) >= j
  BY <1>6 DEF Max
<1>8. Served(p) = Max(Fit)
  BY DEF Served, Fit
<1> QED BY <1>1, <1>7, <1>8 DEF Fit

\* The permits of the first k blocks are what their threads are granted.
LEMMA GrantedIsAsked ==
  ASSUME SemTypeOK, NEW k \in 0 .. Len(SemaphoreWaitList),
         NEW e, e = [t \in Threads |-> taken[t] + Granted(t, k)]
  PROVE  /\ e \in [Threads -> Nat]
         /\ Total(e, Threads) = Total(taken, Threads) + Asked(1 .. k)
<1> DEFINE n == Len(SemaphoreWaitList)
           H(j) == [t \in Threads |-> taken[t] + Granted(t, j)]
           Pays(j) == Total(H(j), Threads) = Total(taken, Threads) + Asked(1 .. j)
           Bad == {j \in 0 .. n : ~Pays(j)}
<1>1. n \in Nat /\ taken \in [Threads -> Nat] /\ Total(taken, Threads) \in Nat
  <2>1. taken \in [Threads -> Nat] /\ Summable(taken, Threads)
    BY FiniteThreads DEF SemTypeOK, Summable
  <2> QED BY <2>1, RequestType, TotalType
<1>2. \A j \in 0 .. n : \A t \in Threads : Granted(t, j) \in Nat
  <2> TAKE j \in 0 .. n
  <2> TAKE t \in Threads
  <2>1. {i \in 1 .. j : SemaphoreWaitList[i].Thread = t} \subseteq 1 .. n
    BY <1>1
  <2> QED BY <2>1, AskedIsTotal DEF Granted
<1>3. \A j \in 0 .. n : H(j) \in [Threads -> Nat]
  BY <1>1, <1>2
<1>4. Pays(0)
  <2>1. 1 .. 0 = {} /\ \A t \in Threads : {i \in 1 .. 0 : SemaphoreWaitList[i].Thread = t} = {}
    OBVIOUS
  <2>2. Asked(1 .. 0) = 0 /\ \A t \in Threads : H(0)[t] = taken[t]
    BY <1>1, <2>1, AskedNone DEF Granted
  <2>3. H(0) = taken
    BY <1>1, <2>2
  <2> QED BY <1>1, <2>2, <2>3
<1>5. ASSUME NEW j \in 0 .. n - 1, Pays(j) PROVE Pays(j + 1)
  <2> DEFINE i == j + 1
             u == SemaphoreWaitList[i].Thread
             r == SemaphoreWaitList[i].RequestedPermits
  <2>1. j \in 0 .. n /\ i \in 0 .. n /\ i \in 1 .. n /\ 1 .. j \subseteq 1 .. n
        /\ i \notin 1 .. j /\ 1 .. i = (1 .. j) \cup {i}
    BY <1>1
  <2>2. u \in Threads /\ r \in Nat
    BY <2>1, RequestType
  <2>3. Asked(1 .. i) = Asked(1 .. j) + r
    BY <2>1, AskedMore
  <2>4. Granted(u, i) = Granted(u, j) + r
    <3> DEFINE I == {m \in 1 .. j : SemaphoreWaitList[m].Thread = u}
    <3>1. I \subseteq 1 .. n /\ i \notin I
      BY <2>1
    <3>2. {m \in 1 .. i : SemaphoreWaitList[m].Thread = u} = I \cup {i}
      BY <2>1
    <3> HIDE DEF I
    <3>3. Asked(I \cup {i}) = Asked(I) + r
      BY <2>1, <3>1, AskedMore
    <3> QED BY <3>2, <3>3 DEF Granted, I
  <2>5. \A t \in Threads \ {u} : Granted(t, i) = Granted(t, j)
    <3> TAKE t \in Threads \ {u}
    <3>1. {m \in 1 .. i : SemaphoreWaitList[m].Thread = t}
            = {m \in 1 .. j : SemaphoreWaitList[m].Thread = t}
      BY <2>1
    <3> QED BY <3>1 DEF Granted
  <2>6. /\ Asked(1 .. j) \in Nat /\ Granted(u, j) \in Nat
        /\ H(j) \in [Threads -> Nat] /\ H(i) \in [Threads -> Nat]
    BY <1>2, <1>3, <2>1, <2>2, AskedIsTotal
  <2>7. H(i)[u] = H(j)[u] + r /\ \A t \in Threads \ {u} : H(i)[t] = H(j)[t]
    BY <1>1, <2>2, <2>4, <2>5, <2>6
  <2>8. Summable(H(j), Threads)
    BY <2>6, FiniteThreads DEF Summable
  <2> HIDE DEF H, u, r
  <2>9. Total(H(i), Threads) = Total(H(j), Threads) + r
    BY <2>2, <2>7, <2>8, TotalGrows
  <2>10. Total(H(j), Threads) = Total(taken, Threads) + Asked(1 .. j)
    BY <1>5
  <2>11. Total(H(i), Threads) = Total(taken, Threads) + Asked(1 .. i)
    BY <1>1, <2>2, <2>3, <2>6, <2>9, <2>10
  <2> QED BY <2>11
<1> HIDE DEF Pays, H
<1>6. Bad = {}
  <2> SUFFICES ASSUME Bad # {} PROVE FALSE
    OBVIOUS
  <2>1. PICK m \in Bad : \A j \in Bad : m <= j
    <3>1. Bad \subseteq Nat
      BY <1>1
    <3> HIDE DEF Bad
    <3> QED BY <3>1, LeastNat
  <2>2. m \in 0 .. n /\ ~Pays(m) /\ m # 0
    BY <1>4
  <2>3. m - 1 \in 0 .. n - 1 /\ m - 1 \in 0 .. n /\ ~(m <= m - 1) /\ (m - 1) + 1 = m
    BY <1>1, <2>2
  <2>4. Pays(m - 1)
    BY <2>1, <2>3
  <2> QED BY <1>5, <2>2, <2>3, <2>4
<1>7. Pays(k) /\ e = H(k)
  BY <1>6 DEF H
<1> QED BY <1>3, <1>7 DEF Pays

\* Permits after the addition: never more than the sum nor than the limit, and
\* exactly the smaller of the two while the sum fits a ULONG.
LEMMA AddedIs ==
  ASSUME Permits \in 0 .. Limit, NEW n \in Releases
  PROVE  /\ n \in Nat /\ Added(n) \in 0 .. Limit /\ Added(n) <= Permits + n
         /\ Limit + n <= MaxULong =>
              Added(n) = IF Permits + n > Limit THEN Limit ELSE Permits + n
<1> DEFINE sum == (Permits + n) % (MaxULong + 1)
<1>1. n \in Nat /\ Permits \in Nat /\ MaxULong \in Nat /\ Limit \in Nat
  BY SemaphoreAssumption
<1>2. sum \in Nat /\ sum <= Permits + n
  <2>1. Permits + n \in Nat /\ MaxULong + 1 \in Nat \ {0}
    BY <1>1
  <2>2. \A a \in Nat, b \in Nat \ {0} : a % b \in Nat /\ a % b <= a
    OBVIOUS
  <2> QED BY <2>1, <2>2
<1>3. Limit + n <= MaxULong => sum = Permits + n
  <2>1. \A a \in Nat, b \in Nat \ {0} : a < b => a % b = a
    OBVIOUS
  <2>2. Limit + n <= MaxULong => Permits + n < MaxULong + 1
    BY <1>1
  <2>3. Permits + n \in Nat /\ MaxULong + 1 \in Nat \ {0}
    BY <1>1
  <2> QED BY <2>1, <2>2, <2>3
<1>4. Added(n) = IF sum > Limit THEN Limit ELSE sum
  BY DEF Added
<1> HIDE DEF sum
<1> QED BY <1>1, <1>2, <1>3, <1>4

\* The whole loop: what is paid out is granted, and the next request is too big.
LEMMA Paid ==
  ASSUME SemTypeOK, NEW p \in Nat, Serve(p)
  PROVE  /\ Permits' \in 0 .. p
         /\ taken' \in [Threads -> Nat]
         /\ Permits' + Total(taken', Threads) = p + Total(taken, Threads)
         /\ SemaphoreWaitList' \in Seq(WaitBlocks)
         /\ Len(SemaphoreWaitList') = Len(SemaphoreWaitList) - Served(p)
         /\ \A i \in 1 .. Len(SemaphoreWaitList) - Served(p) :
              SemaphoreWaitList'[i] = SemaphoreWaitList[Served(p) + i]
         /\ HeadMustWait'
<1> DEFINE n == Len(SemaphoreWaitList)
           k == Served(p)
<1>1. /\ k \in 0 .. n /\ Asked(1 .. k) <= p /\ n \in Nat
      /\ \A j \in 0 .. n : Asked(1 .. j) <= p => j <= k
  BY ServedIs, RequestType
<1>2. /\ Permits' = p - Asked(1 .. k)
      /\ SemaphoreWaitList' = SubSeq(SemaphoreWaitList, k + 1, n)
      /\ taken' = [t \in Threads |-> taken[t] + Granted(t, k)]
  BY DEF Serve, Granted
<1> HIDE DEF k
<1>3. Asked(1 .. k) \in Nat
  <2>1. 1 .. k \subseteq 1 .. n
    BY <1>1
  <2> QED BY <2>1, AskedIsTotal
<1>4. Permits' \in 0 .. p
  BY <1>1, <1>2, <1>3
<1>5. /\ taken' \in [Threads -> Nat]
      /\ Total(taken', Threads) = Total(taken, Threads) + Asked(1 .. k)
  BY <1>1, <1>2, GrantedIsAsked
<1>6. Permits' + Total(taken', Threads) = p + Total(taken, Threads)
  <2>1. Total(taken, Threads) \in Nat
    BY FiniteThreads, TotalType DEF SemTypeOK, Summable
  <2> QED BY <1>2, <1>3, <1>5, <2>1
<1>7. /\ SemaphoreWaitList' \in Seq(WaitBlocks)
      /\ Len(SemaphoreWaitList') = n - k
      /\ \A i \in 1 .. n - k : SemaphoreWaitList'[i] = SemaphoreWaitList[k + i]
  BY <1>1, <1>2, RestOf DEF SemTypeOK
<1>8. ASSUME SemaphoreWaitList' # <<>>
      PROVE  Permits' < Head(SemaphoreWaitList').RequestedPermits
  <2>1. n - k # 0 /\ Head(SemaphoreWaitList') = SemaphoreWaitList'[1]
    BY <1>7, <1>8
  <2>2. k + 1 \in 1 .. n /\ k + 1 \in 0 .. n /\ k + 1 \notin 1 .. k /\ 1 .. k \subseteq 1 .. n
        /\ 1 .. k + 1 = (1 .. k) \cup {k + 1} /\ 1 \in 1 .. n - k
    BY <1>1, <2>1
  <2>3. Head(SemaphoreWaitList') = SemaphoreWaitList[k + 1]
    BY <1>7, <2>1, <2>2
  <2>4. Asked(1 .. k + 1) = Asked(1 .. k) + SemaphoreWaitList[k + 1].RequestedPermits
    BY <2>2, AskedMore
  <2>5. ~(Asked(1 .. k + 1) <= p)
    BY <1>1, <2>2
  <2>6. SemaphoreWaitList[k + 1].RequestedPermits \in Nat
    BY <2>2, RequestType
  <2>7. PICK a, r : a = Asked(1 .. k) /\ r = SemaphoreWaitList[k + 1].RequestedPermits
    OBVIOUS
  <2>8. p - a < r
    <3>1. a \in Nat /\ r \in Nat /\ ~(a + r <= p)
      BY <1>3, <2>4, <2>5, <2>6, <2>7
    <3> QED BY <3>1
  <2> QED BY <1>2, <2>3, <2>7, <2>8
<1> QED BY <1>4, <1>5, <1>6, <1>7, <1>8 DEF HeadMustWait, k

-----------------------------------------------------------------------------
(* The inductive invariant.                                                  *)

\* OwnerIsExact needs to know of the threads inside MutexAcquire that they hold
\* nothing and that those in the wait list are among them, and that a free mutex
\* has no waiter.
MutexInv ==
  /\ MutexTypeOK /\ OwnerIsExact
  /\ Range(MutexWaitList) \subseteq acquiring
  /\ \A t \in acquiring : held[t] = 0
  /\ MutexWaitList # <<>> => Owner # NULL

EventInv == EventTypeOK /\ SignalsAreExact

\* The permits there and those granted; the last conjunct of SemInv is
\* NoPermitInvented (LEMMA TakenIsTotal).
All == Permits + Total(taken, Threads)

SemInv ==
  /\ SemTypeOK /\ HeadMustWait
  /\ Permits <= Limit
  /\ All <= supplied

SynchIInv == IInv /\ MutexInv /\ EventInv /\ SemInv /\ WaitersAreParked

\* The permits granted, as NoPermitInvented and PermitsNeverLost add them up.
LEMMA TakenIsTotal ==
  MapThenSumSet(LAMBDA t : taken[t], Threads) = Total(taken, Threads)
BY TotalIs

\* The same in the next state.
LEMMA TakenIsTotalNext ==
  (MapThenSumSet(LAMBDA t : taken[t], Threads) = Total(taken, Threads))'
BY TakenIsTotal, PTL

\* The threads of the wait blocks, as a sequence.
LEMMA QueuedType ==
  ASSUME SemTypeOK
  PROVE  /\ Queued \in Seq(Threads) /\ Len(Queued) = Len(SemaphoreWaitList)
         /\ \A i \in 1 .. Len(SemaphoreWaitList) :
              Queued[i] = SemaphoreWaitList[i].Thread
<1>1. DOMAIN SemaphoreWaitList = 1 .. Len(SemaphoreWaitList)
  BY DEF SemTypeOK
<1> QED BY <1>1, RequestType DEF Queued

\* A component whose variables a step leaves alone.
LEMMA MutexKept == ASSUME MutexInv, UNCHANGED mutexvars PROVE MutexInv'
BY DEF MutexInv, mutexvars, MutexTypeOK, OwnerIsExact, Holds

\* The same of the event.
LEMMA EventKept == ASSUME EventInv, UNCHANGED eventvars PROVE EventInv'
BY DEF EventInv, eventvars, EventTypeOK, SignalsAreExact

\* The same of the semaphore.
LEMMA SemKept == ASSUME SemInv, UNCHANGED semvars PROVE SemInv'
BY DEF SemInv, semvars, SemTypeOK, HeadMustWait, All

\* A step that parks nobody, wakes nobody and leaves the lists alone.
LEMMA WaitersKept ==
  ASSUME WaitersAreParked, Parked' = Parked,
         UNCHANGED <<MutexWaitList, EventWaitList, SemaphoreWaitList>>
  PROVE  WaitersAreParked'
BY DEF WaitersAreParked, Queued

\* The initial states.
LEMMA SynchInitHolds == Init => SynchIInv
<1> SUFFICES ASSUME Init PROVE SynchIInv
  OBVIOUS
<1> USE ThreadsAssumption, MaxRecursionAssumption, EventAssumption, SemaphoreAssumption
<1>1. IsInjective(<<>>) /\ Range(<<>>) = {}
  BY DEF IsInjective, Range
<1>2. IInv /\ Parked = {}
  BY InitHolds DEF Init, UtInit, Parked
<1>3. MutexInv
  BY <1>1 DEF Init, InitMutex, MutexInv, MutexTypeOK, OwnerIsExact, Holds
<1>4. EventInv
  BY DEF Init, InitEvent, EventInv, EventTypeOK, SignalsAreExact
<1>5. SemInv
  <2>1. /\ Permits = InitialPermits /\ SemaphoreWaitList = <<>> /\ supplied = InitialPermits
        /\ taken = [t \in Threads |-> 0]
    BY DEF Init, InitSemaphore
  <2>2. InitialPermits \in Nat /\ InitialPermits <= Limit /\ InitialPermits <= MaxULong
    OBVIOUS
  <2>3. Total(taken, Threads) = 0
    BY <2>1, FiniteThreads, TotalZero
  <2> QED BY <2>1, <2>2, <2>3 DEF SemInv, SemTypeOK, HeadMustWait, All
<1>6. WaitersAreParked
  <2>1. Queued = <<>>
    BY DEF Queued, Init, InitSemaphore
  <2> QED BY <1>1, <1>2, <2>1 DEF WaitersAreParked, Init, InitMutex, InitEvent
<1> QED BY <1>2, <1>3, <1>4, <1>5, <1>6 DEF SynchIInv

\* The scheduler's own calls.
LEMMA SchedulerKeeps ==
  ASSUME SynchIInv, UNCHANGED synchvars,
         \/ \E t \in Threads : UtCreate(t)
         \/ UtRun \/ UtRunReturn \/ UtExit \/ UtYield
  PROVE  SynchIInv'
<1>1. IInv' /\ Parked' = Parked
  BY NextKeeps, ParkedKept DEF SynchIInv, Next
<1>2. UNCHANGED <<MutexWaitList, EventWaitList, SemaphoreWaitList>>
  BY DEF synchvars, mutexvars, eventvars, semvars
<1> QED BY <1>1, <1>2, MutexKept, EventKept, SemKept, WaitersKept
    DEF SynchIInv, synchvars

\* The mutex.
LEMMA MutexKeeps ==
  ASSUME SynchIInv, UseMutex
  PROVE  SynchIInv'
<1> USE ThreadsAssumption, MaxRecursionAssumption
<1>1. UNCHANGED <<eventvars, semvars>> /\ EventInv' /\ SemInv'
  BY EventKept, SemKept DEF UseMutex, SynchIInv
<1>2. UNCHANGED <<EventWaitList, SemaphoreWaitList, Queued>>
  BY <1>1 DEF eventvars, semvars, Queued
<1>3. ASSUME UNCHANGED <<utvars, MutexWaitList>>
      PROVE  IInv' /\ WaitersAreParked'
  <2>1. Parked' = Parked
    BY <1>3 DEF utvars, Parked
  <2> QED BY <1>2, <1>3, <2>1, NextKeeps, WaitersKept DEF SynchIInv
<1>4. /\ self \in Threads /\ self \notin Parked
      /\ self \notin Range(MutexWaitList)
      /\ MutexWaitList \in Seq(Threads) /\ IsInjective(MutexWaitList)
  BY DEF UseMutex, NextMutex, SynchIInv, MutexInv, MutexTypeOK, WaitersAreParked, Parked,
         MutexInitOwned, MutexAcquireAgain, MutexAcquireFree, MutexAcquireBusy,
         MutexAcquired, MutexRelease, MutexReleaseOnce, MutexReleaseFree,
         MutexReleaseHandOver, Releasing, InProgram, UserRuns, self
<1> USE DEF MutexInv, MutexTypeOK, OwnerIsExact, Holds
<1>5. CASE MutexInitOwned
  <2>1. MutexWaitList = <<>>
    BY <1>5 DEF MutexInitOwned, SynchIInv
  <2>2. UNCHANGED <<utvars, MutexWaitList>>
    BY <1>5, <2>1 DEF MutexInitOwned
  <2>3. MutexInv'
    BY <1>4, <1>5, <2>2 DEF MutexInitOwned, InProgram, SynchIInv
  <2> QED BY <1>1, <1>3, <2>2, <2>3 DEF SynchIInv
<1>6. CASE MutexAcquireAgain
  <2>1. MutexInv'
    BY <1>4, <1>6 DEF MutexAcquireAgain, InProgram, SynchIInv
  <2> QED BY <1>1, <1>3, <1>6, <2>1 DEF SynchIInv, MutexAcquireAgain
<1>7. CASE MutexAcquireFree
  <2>1. MutexInv'
    BY <1>4, <1>7 DEF MutexAcquireFree, InProgram, SynchIInv
  <2> QED BY <1>1, <1>3, <1>7, <2>1 DEF SynchIInv, MutexAcquireFree
<1>8. CASE MutexAcquireBusy
  <2>1. /\ MutexWaitList' \in Seq(Threads) /\ IsInjective(MutexWaitList')
        /\ Range(MutexWaitList') = Range(MutexWaitList) \cup {self}
    BY <1>4, <1>8, InsertTail DEF MutexAcquireBusy
  <2>2. IInv' /\ Parked' = Parked \cup {self}
    BY <1>8, NextKeeps, ParkedMore DEF MutexAcquireBusy, SynchIInv, Next, self
  <2>3. WaitersAreParked'
    BY <1>2, <1>4, <2>1, <2>2 DEF SynchIInv, WaitersAreParked
  <2>4. MutexInv'
    BY <1>4, <1>8, <2>1 DEF MutexAcquireBusy, InProgram, SynchIInv
  <2> QED BY <1>1, <2>2, <2>3, <2>4 DEF SynchIInv
<1>9. CASE MutexAcquired
  <2>1. Owner = self
    BY <1>4, <1>9 DEF MutexAcquired, SynchIInv
  <2>2. MutexInv'
    BY <1>4, <1>9, <2>1 DEF MutexAcquired, SynchIInv
  <2> QED BY <1>1, <1>3, <1>9, <2>2 DEF SynchIInv, MutexAcquired
<1>10. CASE MutexReleaseOnce
  <2>1. MutexInv'
    BY <1>4, <1>10 DEF MutexReleaseOnce, Releasing, InProgram, SynchIInv
  <2> QED BY <1>1, <1>3, <1>10, <2>1 DEF SynchIInv, MutexReleaseOnce
<1>11. CASE MutexReleaseFree
  <2>1. Range(MutexWaitList) = {}
    BY <1>11 DEF MutexReleaseFree, Range
  <2>2. MutexInv'
    BY <1>4, <1>11, <2>1 DEF MutexReleaseFree, Releasing, InProgram, SynchIInv
  <2> QED BY <1>1, <1>3, <1>11, <2>2 DEF SynchIInv, MutexReleaseFree
<1>12. CASE MutexReleaseHandOver
  <2> DEFINE h == Head(MutexWaitList)
  <2>1. /\ h \in Threads /\ h \in Range(MutexWaitList)
        /\ MutexWaitList' \in Seq(Threads) /\ IsInjective(MutexWaitList')
        /\ Range(MutexWaitList') = Range(MutexWaitList) \ {h}
    BY <1>4, <1>12, RemoveHead DEF MutexReleaseHandOver
  <2>2. IInv' /\ Parked' = Parked \ {h}
    BY <1>12, <2>1, NextKeeps, ParkedLess DEF MutexReleaseHandOver, SynchIInv, Next
  <2>3. WaitersAreParked'
    BY <1>2, <2>1, <2>2 DEF SynchIInv, WaitersAreParked
  <2>4. /\ Owner = self /\ self \notin acquiring /\ held[self] = 1
        /\ h \in acquiring /\ held[h] = 0 /\ h # self
    BY <1>4, <1>12, <2>1
    DEF MutexReleaseHandOver, Releasing, InProgram, SynchIInv
  <2>5. /\ Owner' = h /\ RecursionCounter' = 1 /\ acquiring' = acquiring
        /\ held' = [held EXCEPT ![self] = @ - 1]
    BY <1>12 DEF MutexReleaseHandOver, Releasing
  <2> HIDE DEF h
  <2>6. MutexInv'
    BY <1>4, <2>1, <2>4, <2>5 DEF SynchIInv
  <2> QED BY <1>1, <2>2, <2>3, <2>6 DEF SynchIInv
<1> QED BY <1>5, <1>6, <1>7, <1>8, <1>9, <1>10, <1>11, <1>12
    DEF UseMutex, NextMutex, MutexRelease

\* The event.
LEMMA EventKeeps ==
  ASSUME SynchIInv, UseEvent
  PROVE  SynchIInv'
<1>1. UNCHANGED <<mutexvars, semvars>> /\ MutexInv' /\ SemInv'
  BY MutexKept, SemKept DEF UseEvent, SynchIInv
<1>2. UNCHANGED <<MutexWaitList, SemaphoreWaitList, Queued>>
  BY <1>1 DEF mutexvars, semvars, Queued
<1>3. ASSUME UNCHANGED <<utvars, EventWaitList>>
      PROVE  IInv' /\ WaitersAreParked'
  <2>1. Parked' = Parked
    BY <1>3 DEF utvars, Parked
  <2> QED BY <1>2, <1>3, <2>1, NextKeeps, WaitersKept DEF SynchIInv
<1>4. EventWaitList \in Seq(Threads) /\ IsInjective(EventWaitList)
  BY DEF SynchIInv, EventInv, EventTypeOK, WaitersAreParked
<1> USE EventAssumption DEF EventInv, EventTypeOK, SignalsAreExact
<1>5. CASE EventWaitSignaled
  <2>1. /\ passed \in Nat /\ sets \in Nat /\ passed' = passed + 1 /\ sets' = sets
        /\ Signaled /\ ~Signaled' /\ EventWaitList' = EventWaitList
        /\ passed + 1 <= sets + (IF InitialState THEN 1 ELSE 0)
    BY <1>5 DEF EventWaitSignaled, SynchIInv
  <2>2. passed' + 0 <= sets' + (IF InitialState THEN 1 ELSE 0)
    BY <2>1
  <2>3. passed' \in Nat /\ EventWaitList' \in Seq(Threads) /\ sets' \in 0 .. MaxSets
    BY <1>4, <1>5, <2>1 DEF SynchIInv
  <2>4. Signaled' \in BOOLEAN
    BY <1>5 DEF EventWaitSignaled
  <2>5. EventInv'
    BY <2>1, <2>2, <2>3, <2>4
  <2> QED BY <1>1, <1>3, <1>5, <2>5 DEF SynchIInv, EventWaitSignaled
<1>6. CASE EventWaitBlocks
  <2>1. IInv' /\ Parked' = Parked \cup {RunningThread} /\ RunningThread \in Threads \ Parked
    BY <1>6, NextKeeps, ParkedMore DEF EventWaitBlocks, SynchIInv, Next
  <2>2. /\ EventWaitList' \in Seq(Threads) /\ IsInjective(EventWaitList')
        /\ Range(EventWaitList') = Range(EventWaitList) \cup {RunningThread}
    BY <1>4, <1>6, <2>1, InsertTail DEF EventWaitBlocks, SynchIInv, WaitersAreParked
  <2>3. WaitersAreParked'
    BY <1>2, <2>1, <2>2 DEF SynchIInv, WaitersAreParked
  <2>4. EventInv'
    BY <1>6, <2>2 DEF EventWaitBlocks, SynchIInv
  <2> QED BY <1>1, <2>1, <2>3, <2>4 DEF SynchIInv
<1>7. CASE EventSetNoWaiter
  <2>1. EventInv'
    BY <1>7 DEF EventSetNoWaiter, SynchIInv
  <2> QED BY <1>1, <1>3, <1>7, <2>1 DEF SynchIInv, EventSetNoWaiter
<1>8. CASE EventSetWakes
  <2> DEFINE h == Head(EventWaitList)
  <2>1. /\ h \in Threads /\ h \in Range(EventWaitList)
        /\ EventWaitList' \in Seq(Threads) /\ IsInjective(EventWaitList')
        /\ Range(EventWaitList') = Range(EventWaitList) \ {h}
    BY <1>4, <1>8, RemoveHead DEF EventSetWakes
  <2>2. IInv' /\ Parked' = Parked \ {h}
    BY <1>8, <2>1, NextKeeps, ParkedLess DEF EventSetWakes, SynchIInv, Next
  <2>3. WaitersAreParked'
    BY <1>2, <2>1, <2>2 DEF SynchIInv, WaitersAreParked
  <2>4. EventInv'
    BY <1>8, <2>1 DEF EventSetWakes, SynchIInv
  <2> QED BY <1>1, <2>2, <2>3, <2>4 DEF SynchIInv
<1> QED BY <1>5, <1>6, <1>7, <1>8 DEF UseEvent, NextEvent

\* The permits and the history variables in a call of the semaphore: what is
\* supplied is there to be taken or was granted, all of it or as much as had room.
LEMMA PermitsAre ==
  ASSUME SemInv, NextSemaphore
  PROVE  /\ taken' \in [Threads -> Nat] /\ Permits' \in 0 .. Limit
         /\ supplied' \in Nat /\ supplied' >= supplied
         /\ All \in Nat /\ All' <= All + (supplied' - supplied)
         /\ (\A n \in Releases : Limit + n <= MaxULong) =>
              All' - All = IF supplied' - supplied <= Limit - Permits
                           THEN supplied' - supplied ELSE Limit - Permits
<1>1. /\ taken \in [Threads -> Nat] /\ Permits \in 0 .. Limit /\ Permits \in Nat
      /\ supplied \in Nat /\ Limit \in Nat
  BY SemaphoreAssumption DEF SemInv, SemTypeOK
<1>2. Summable(taken, Threads) /\ Total(taken, Threads) \in Nat /\ All \in Nat
  <2>1. Summable(taken, Threads)
    BY <1>1, FiniteThreads DEF Summable
  <2>2. Total(taken, Threads) \in Nat
    BY <2>1, TotalType
  <2> QED BY <1>1, <2>1, <2>2 DEF All
<1>3. ASSUME NEW n \in Requests, SemaphoreAcquireAtOnce(n)
      PROVE  /\ taken' \in [Threads -> Nat] /\ Permits' \in 0 .. Limit
             /\ supplied' = supplied /\ All' = All
  <2>1. n \in Nat
    BY SemaphoreAssumption
  <2>2. /\ RunningThread \in Threads /\ Permits' = Permits - n /\ Permits >= n
        /\ taken' = [taken EXCEPT ![RunningThread] = taken[RunningThread] + n]
        /\ supplied' = supplied
    BY <1>3 DEF SemaphoreAcquireAtOnce, UserRuns
  <2>3. /\ taken' \in [Threads -> Nat]
        /\ taken'[RunningThread] = taken[RunningThread] + n
        /\ \A t \in Threads \ {RunningThread} : taken'[t] = taken[t]
    BY <1>1, <2>1, <2>2
  <2>4. PICK x, e : x \in Threads /\ x = RunningThread /\ e = taken'
    BY <2>2
  <2>5. e[x] = taken[x] + n /\ \A y \in Threads \ {x} : e[y] = taken[y]
    BY <2>3, <2>4
  <2>6. Total(taken', Threads) = Total(taken, Threads) + n
    BY <1>2, <2>1, <2>4, <2>5, TotalGrows
  <2>7. All' = All
    BY <1>1, <1>2, <2>1, <2>2, <2>6 DEF All
  <2> QED BY <1>1, <2>1, <2>2, <2>3, <2>7
<1>4. ASSUME NEW n \in Requests, SemaphoreAcquireBlocks(n)
      PROVE  /\ taken' \in [Threads -> Nat] /\ Permits' \in 0 .. Limit
             /\ supplied' = supplied /\ All' = All
  BY <1>1, <1>4 DEF SemaphoreAcquireBlocks, All
<1>5. ASSUME NEW n \in Releases, SemaphoreRelease(n)
      PROVE  /\ taken' \in [Threads -> Nat] /\ Permits' \in 0 .. Limit
             /\ supplied' = supplied + n /\ n \in Nat
             /\ Added(n) \in Nat /\ Added(n) <= Permits + n
             /\ Limit + n <= MaxULong =>
                  Added(n) = IF Permits + n > Limit THEN Limit ELSE Permits + n
             /\ All' = All + (Added(n) - Permits)
  <2>1. /\ n \in Nat /\ Added(n) \in 0 .. Limit /\ Added(n) <= Permits + n
        /\ Limit + n <= MaxULong =>
             Added(n) = IF Permits + n > Limit THEN Limit ELSE Permits + n
    BY <1>1, AddedIs
  <2>2. supplied' = supplied + n /\ Serve(Added(n))
    BY <1>5 DEF SemaphoreRelease
  <2>3. Added(n) \in Nat
    BY <2>1
  <2>4. /\ Permits' \in 0 .. Added(n) /\ taken' \in [Threads -> Nat]
        /\ Permits' + Total(taken', Threads) = Added(n) + Total(taken, Threads)
    BY <2>2, <2>3, Paid DEF SemInv
  <2>5. All' = All + (Added(n) - Permits)
    BY <1>1, <1>2, <2>3, <2>4 DEF All
  <2> QED BY <1>1, <2>1, <2>2, <2>3, <2>4, <2>5
<1> DEFINE Types == /\ taken' \in [Threads -> Nat] /\ Permits' \in 0 .. Limit
                    /\ supplied' \in Nat /\ supplied' >= supplied
           Bounded == All' <= All + (supplied' - supplied)
           Exact == All' - All = IF supplied' - supplied <= Limit - Permits
                                 THEN supplied' - supplied ELSE Limit - Permits
           Room == \A n \in Releases : Limit + n <= MaxULong
<1>6. ASSUME NEW n \in Requests, SemaphoreAcquireAtOnce(n) \/ SemaphoreAcquireBlocks(n)
      PROVE  Types /\ Bounded /\ Exact
  <2>1. /\ taken' \in [Threads -> Nat] /\ Permits' \in 0 .. Limit
        /\ supplied' = supplied /\ All' = All
    BY <1>3, <1>4, <1>6
  <2> QED BY <1>1, <1>2, <2>1
<1>7. ASSUME NEW n \in Releases, SemaphoreRelease(n)
      PROVE  Types /\ Bounded /\ (Limit + n <= MaxULong => Exact)
  <2>1. /\ taken' \in [Threads -> Nat] /\ Permits' \in 0 .. Limit
        /\ supplied' = supplied + n /\ n \in Nat
        /\ Added(n) \in Nat /\ Added(n) <= Permits + n
        /\ All' = All + (Added(n) - Permits)
        /\ Limit + n <= MaxULong =>
             Added(n) = IF Permits + n > Limit THEN Limit ELSE Permits + n
    BY <1>5, <1>7
  <2>2. Types /\ Bounded
    BY <1>1, <1>2, <2>1
  <2>3. (Limit + n <= MaxULong) => Exact
    BY <1>1, <1>2, <2>1
  <2> QED BY <2>2, <2>3
<1>8. Types /\ Bounded /\ (Room => Exact)
  <2> HIDE DEF Types, Bounded, Exact
  <2> QED BY <1>6, <1>7 DEF NextSemaphore
<1> QED BY <1>2, <1>8

\* The queue of the semaphore and the places of the threads.
LEMMA SemaphoreQueueKeeps ==
  ASSUME SynchIInv, UseSemaphore
  PROVE  /\ IInv' /\ WaitersAreParked'
         /\ SemaphoreWaitList' \in Seq(WaitBlocks) /\ HeadMustWait'
<1> USE ThreadsAssumption, SemaphoreAssumption
<1>1. UNCHANGED <<MutexWaitList, EventWaitList>>
  BY DEF UseSemaphore, mutexvars, eventvars
<1>2. SemTypeOK /\ HeadMustWait /\ IInv /\ Permits \in Nat
  BY DEF SynchIInv, SemInv, SemTypeOK
<1>3. ASSUME NEW n \in Requests, SemaphoreAcquireAtOnce(n)
      PROVE  /\ IInv' /\ WaitersAreParked'
             /\ SemaphoreWaitList' \in Seq(WaitBlocks) /\ HeadMustWait'
  <2>1. /\ UNCHANGED <<utvars, SemaphoreWaitList>> /\ n \in Nat
        /\ Permits' = Permits - n
    BY <1>3 DEF SemaphoreAcquireAtOnce
  <2>2. Parked' = Parked
    BY <2>1 DEF utvars, Parked
  <2>3. IInv' /\ WaitersAreParked'
    BY <1>1, <1>2, <2>1, <2>2, NextKeeps, WaitersKept DEF SynchIInv
  <2>4. SemaphoreWaitList # <<>> =>
          /\ Head(SemaphoreWaitList) = SemaphoreWaitList[1]
          /\ 1 \in 1 .. Len(SemaphoreWaitList)
    BY <1>2 DEF SemTypeOK
  <2>5. HeadMustWait'
    BY <1>2, <2>1, <2>4, RequestType DEF HeadMustWait
  <2> QED BY <1>2, <2>1, <2>3, <2>5 DEF SemTypeOK
<1>4. ASSUME NEW n \in Requests, SemaphoreAcquireBlocks(n)
      PROVE  /\ IInv' /\ WaitersAreParked'
             /\ SemaphoreWaitList' \in Seq(WaitBlocks) /\ HeadMustWait'
  <2> DEFINE r == RunningThread
             b == WaitBlock(r, n)
  <2>1. IInv' /\ Parked' = Parked \cup {r} /\ r \in Threads \ Parked
    BY <1>2, <1>4, NextKeeps, ParkedMore DEF SemaphoreAcquireBlocks, Next
  <2>2. /\ SemaphoreWaitList' = Append(SemaphoreWaitList, b) /\ Permits' = Permits
        /\ Permits < n
    BY <1>4 DEF SemaphoreAcquireBlocks
  <2>3. b \in WaitBlocks /\ b.Thread = r /\ b.RequestedPermits = n
    BY <2>1 DEF WaitBlock, WaitBlocks
  <2>4. SemaphoreWaitList \in Seq(WaitBlocks)
    BY <1>2 DEF SemTypeOK
  <2> HIDE DEF b
  <2>5. /\ SemaphoreWaitList' \in Seq(WaitBlocks)
        /\ DOMAIN SemaphoreWaitList' = 1 .. Len(SemaphoreWaitList) + 1
        /\ DOMAIN SemaphoreWaitList = 1 .. Len(SemaphoreWaitList)
        /\ \A i \in 1 .. Len(SemaphoreWaitList) :
             SemaphoreWaitList'[i] = SemaphoreWaitList[i]
        /\ SemaphoreWaitList'[Len(SemaphoreWaitList) + 1] = b
        /\ Head(SemaphoreWaitList') = IF SemaphoreWaitList = <<>>
                                      THEN b ELSE Head(SemaphoreWaitList)
    BY <2>2, <2>3, <2>4
  <2>6. HeadMustWait'
    BY <1>2, <2>2, <2>3, <2>5 DEF HeadMustWait
  <2>7. /\ Queued \in Seq(Threads) /\ Len(Queued) = Len(SemaphoreWaitList)
        /\ \A i \in 1 .. Len(SemaphoreWaitList) :
             Queued[i] = SemaphoreWaitList[i].Thread
    BY <1>2, QueuedType
  <2>8. IsInjective(Queued') /\ Range(Queued') = Range(Queued) \cup {r}
    <3>1. PICK n0, q1 : n0 = Len(SemaphoreWaitList) /\ q1 = Queued'
      OBVIOUS
    <3>2. n0 \in Nat /\ n0 = Len(Queued)
      BY <2>4, <2>7, <3>1
    <3>3. q1 = [i \in 1 .. n0 + 1 |-> SemaphoreWaitList'[i].Thread]
      BY <2>5, <3>1 DEF Queued
    <3>4. \A i \in 1 .. n0 : i \in 1 .. n0 + 1 /\ q1[i] = Queued[i]
      BY <2>5, <2>7, <3>1, <3>2, <3>3
    <3>5. q1[n0 + 1] = r
      BY <2>3, <2>5, <3>1, <3>2, <3>3
    <3>6. q1 = [i \in 1 .. n0 + 1 |-> q1[i]]
      BY <3>3
    <3>7. r \in Threads
      BY <2>1
    <3>8. IsInjective(Queued) /\ r \notin Range(Queued)
      BY <2>1 DEF SynchIInv, WaitersAreParked
    <3>9. \A i \in 1 .. n0 + 1 : q1[i] \in Threads
      <4>1. \A i \in 1 .. n0 + 1 : i \in 1 .. n0 \/ i = n0 + 1
        BY <3>2
      <4>2. \A i \in 1 .. n0 : Queued[i] \in Threads
        BY <2>7, <3>2
      <4> QED BY <3>4, <3>5, <3>7, <4>1, <4>2
    <3>10. q1 \in Seq(Threads) /\ Len(q1) = n0 + 1
      <4>1. n0 + 1 \in Nat
        BY <3>2
      <4> QED BY <3>6, <3>9, <4>1, FunctionIsSeq
    <3>11. PICK e, q0 : e = r /\ q0 = Queued
      OBVIOUS
    <3>12. /\ q0 \in Seq(Threads) /\ e \in Threads /\ q1 \in Seq(Threads)
           /\ Len(q1) = Len(q0) + 1 /\ q1[Len(q0) + 1] = e
           /\ IsInjective(q0) /\ e \notin Range(q0)
           /\ \A i \in 1 .. Len(q0) : q1[i] = q0[i]
      BY <2>7, <3>2, <3>4, <3>5, <3>7, <3>8, <3>10, <3>11
    <3>13. IsInjective(q1) /\ Range(q1) = Range(q0) \cup {e}
      BY <3>12, ExtendedBy
    <3> QED BY <3>1, <3>11, <3>13, Zenon
  <2>9. WaitersAreParked'
    BY <1>1, <2>1, <2>8 DEF SynchIInv, WaitersAreParked
  <2> QED BY <2>1, <2>5, <2>6, <2>9
<1>5. ASSUME NEW n \in Releases, SemaphoreRelease(n)
      PROVE  /\ IInv' /\ WaitersAreParked'
             /\ SemaphoreWaitList' \in Seq(WaitBlocks) /\ HeadMustWait'
  <2> DEFINE p == Added(n)
             k == Served(p)
             w == [i \in 1 .. k |-> Queued[i]]
  <2>1. p \in Nat /\ Serve(p)
    BY <1>5, AddedIs DEF SynchIInv, SemInv, SemTypeOK, SemaphoreRelease
  <2> HIDE DEF p
  <2>2. /\ k \in 0 .. Len(SemaphoreWaitList)
        /\ SemaphoreWaitList' \in Seq(WaitBlocks) /\ HeadMustWait'
        /\ Len(SemaphoreWaitList') = Len(SemaphoreWaitList) - k
        /\ \A i \in 1 .. Len(SemaphoreWaitList) - k :
             SemaphoreWaitList'[i] = SemaphoreWaitList[k + i]
    BY <1>2, <2>1, Paid, ServedIs
  <2>3. ReadyQueue' = ReadyQueue \o [i \in 1 .. k |-> SemaphoreWaitList[i].Thread]
    BY <2>1 DEF Serve
  <2> HIDE DEF k
  <2>4. /\ Queued \in Seq(Threads) /\ Len(Queued) = Len(SemaphoreWaitList)
        /\ Len(SemaphoreWaitList) \in Nat
        /\ \A i \in 1 .. Len(SemaphoreWaitList) :
             Queued[i] = SemaphoreWaitList[i].Thread
    BY <1>2, QueuedType
  <2>5. ReadyQueue' = ReadyQueue \o w
    <3>1. \A i \in 1 .. k : i \in 1 .. Len(SemaphoreWaitList)
      BY <2>2, <2>4
    <3>2. w = [i \in 1 .. k |-> SemaphoreWaitList[i].Thread]
      BY <2>4, <3>1
    <3> QED BY <2>3, <3>2
  <2>6. /\ Queued' \in Seq(Threads) /\ Len(Queued') = Len(Queued) - k
        /\ \A i \in 1 .. Len(Queued) - k : Queued'[i] = Queued[k + i]
    <3>1. DOMAIN SemaphoreWaitList' = 1 .. Len(Queued) - k
      BY <2>2, <2>4
    <3>2. Queued' = [i \in 1 .. Len(Queued) - k |-> SemaphoreWaitList'[i].Thread]
      BY <3>1 DEF Queued
    <3>3. \A i \in 1 .. Len(Queued) - k :
            /\ k + i \in 1 .. Len(Queued)
            /\ SemaphoreWaitList'[i].Thread = Queued[k + i]
      BY <2>2, <2>4
    <3>4. \A i \in 1 .. Len(Queued) - k : Queued[k + i] \in Threads
      BY <2>4, <3>3
    <3>5. Len(Queued) - k \in Nat
      BY <2>2, <2>4
    <3>6. PICK m, q1 : m = Len(Queued) - k /\ q1 = Queued'
      OBVIOUS
    <3>7. q1 = [i \in 1 .. m |-> SemaphoreWaitList'[i].Thread]
      BY <3>2, <3>6
    <3>8. m \in Nat /\ \A i \in 1 .. m : q1[i] = Queued[k + i] /\ q1[i] \in Threads
      BY <3>3, <3>4, <3>5, <3>6, <3>7
    <3>9. q1 = [i \in 1 .. m |-> q1[i]]
      BY <3>7
    <3>10. q1 \in Seq(Threads) /\ Len(q1) = m
      BY <3>8, <3>9, FunctionIsSeq
    <3> QED BY <3>6, <3>8, <3>10
  <2>7. /\ w \in Seq(Threads) /\ IsInjective(w) /\ IsInjective(Queued')
        /\ Range(w) \cup Range(Queued') = Range(Queued)
        /\ Range(w) \cap Range(Queued') = {}
    <3>1. IsInjective(Queued) /\ k \in 0 .. Len(Queued)
      BY <2>2, <2>4 DEF SynchIInv, WaitersAreParked
    <3>2. PICK q1, v, q0 : q1 = Queued' /\ v = w /\ q0 = Queued
      OBVIOUS
    <3>3. \A i \in 1 .. k : i \in 1 .. Len(Queued) /\ Queued[i] \in Threads
      BY <2>2, <2>4
    <3>4. v = [i \in 1 .. k |-> v[i]] /\ \A i \in 1 .. k : v[i] = Queued[i]
      BY <3>2
    <3> HIDE DEF w
    <3>5. v \in Seq(Threads) /\ Len(v) = k
      <4>1. k \in Nat /\ \A i \in 1 .. k : v[i] \in Threads
        BY <3>1, <3>3, <3>4
      <4> QED BY <3>4, <4>1, FunctionIsSeq
    <3>6. /\ q1 \in Seq(Threads) /\ Len(q1) = Len(q0) - k
          /\ \A i \in 1 .. Len(q0) - k : q1[i] = q0[k + i]
          /\ q0 \in Seq(Threads) /\ IsInjective(q0) /\ k \in 0 .. Len(q0)
          /\ \A i \in 1 .. k : v[i] = q0[i]
      BY <2>4, <2>6, <3>1, <3>2, <3>4
    <3>7. /\ IsInjective(v) /\ IsInjective(q1)
          /\ Range(v) \cup Range(q1) = Range(q0)
          /\ Range(v) \cap Range(q1) = {}
      <4>1. SplitsInto(q0, k, v, q1)
        BY <3>5, <3>6 DEF SplitsInto
      <4>2. v \in Seq(Threads) /\ q1 \in Seq(Threads) /\ q0 \in Seq(Threads) /\ IsInjective(q0)
        BY <3>5, <3>6
      <4> QED BY <4>1, <4>2, SplitAt
    <3> QED BY <3>2, <3>5, <3>7, Zenon
  <2> HIDE DEF w
  <2>8. Range(w) \subseteq Parked
    BY <2>7 DEF SynchIInv, WaitersAreParked
  <2>9. /\ ReadyQueue' \in Seq(Threads) /\ IsInjective(ReadyQueue')
        /\ Range(ReadyQueue') = Range(ReadyQueue) \cup Range(w)
    BY <1>2, <2>5, <2>7, <2>8, Concat DEF IInv, TypeOK, OnePlace, Parked
  <2>10. UNCHANGED <<Allocated, NumberOfThreads, RunningThread, MainThread>> /\ Executing
    BY <1>5 DEF SemaphoreRelease
  <2>11. IInv'
    BY <1>2, <2>8, <2>9, <2>10
    DEF IInv, TypeOK, OnePlace, CountIsExact, MainRunsLast, MainKnown, Executing,
        UserRuns, Parked
  <2>12. Parked' = Parked \ Range(w)
    BY <2>9, <2>10 DEF Parked
  <2>13. WaitersAreParked'
    BY <1>1, <2>7, <2>12 DEF SynchIInv, WaitersAreParked
  <2> QED BY <2>2, <2>11, <2>13
<1> QED BY <1>3, <1>4, <1>5 DEF UseSemaphore, NextSemaphore

\* The semaphore.
LEMMA SemaphoreKeeps ==
  ASSUME SynchIInv, UseSemaphore
  PROVE  SynchIInv'
<1>1. MutexInv' /\ EventInv'
  BY MutexKept, EventKept DEF UseSemaphore, SynchIInv
<1>2. /\ IInv' /\ WaitersAreParked'
      /\ SemaphoreWaitList' \in Seq(WaitBlocks) /\ HeadMustWait'
  BY SemaphoreQueueKeeps
<1>3. /\ taken' \in [Threads -> Nat] /\ Permits' \in 0 .. Limit
      /\ supplied' \in Nat /\ supplied \in Nat /\ All \in Nat
      /\ All' <= All + (supplied' - supplied) /\ All <= supplied
  BY PermitsAre DEF UseSemaphore, SynchIInv, SemInv, SemTypeOK
<1>4. Permits' \in 0 .. MaxULong /\ Permits' <= Limit
  BY <1>3, SemaphoreAssumption
<1>5. All' <= supplied'
  <2>1. All' = Permits' + Total(taken', Threads) /\ Total(taken', Threads) \in Nat
    BY <1>3, FiniteThreads, TotalType DEF All, Summable
  <2>2. PICK all, all2, sup, sup2 :
          all = All /\ all2 = All' /\ sup = supplied /\ sup2 = supplied'
    OBVIOUS
  <2>3. /\ all \in Nat /\ sup \in Nat /\ sup2 \in Nat
        /\ all2 <= all + (sup2 - sup) /\ all <= sup
    BY <1>3, <2>2
  <2>4. all2 \in Nat
    BY <1>3, <2>1, <2>2
  <2>5. all2 <= sup2
    BY <2>3, <2>4
  <2> QED BY <2>2, <2>5
<1>6. SemTypeOK'
  BY <1>2, <1>3, <1>4 DEF SemTypeOK
<1>7. SemInv'
  BY <1>2, <1>4, <1>5, <1>6 DEF SemInv
<1> QED BY <1>1, <1>2, <1>7 DEF SynchIInv

\* Every step keeps the invariant.
THEOREM SynchInvariantHolds == SpecUSynch => []SynchIInv
<1>1. SynchIInv /\ [NextUSynch]_vars => SynchIInv'
  <2> SUFFICES ASSUME SynchIInv, [NextUSynch]_vars PROVE SynchIInv'
    OBVIOUS
  <2>1. CASE UNCHANGED vars
    <3>1. IInv' /\ Parked' = Parked
      BY <2>1, NextKeeps DEF SynchIInv, vars, utvars, Parked
    <3>2. UNCHANGED <<MutexWaitList, EventWaitList, SemaphoreWaitList>>
      BY <2>1 DEF vars, synchvars, mutexvars, eventvars, semvars
    <3> QED BY <2>1, <3>1, <3>2, MutexKept, EventKept, SemKept, WaitersKept
        DEF SynchIInv, vars, synchvars
  <2>2. CASE \/ Exit \/ Yield \/ Return
             \/ UtRun /\ UNCHANGED synchvars
             \/ \E t \in Threads : Create(t)
    BY <2>2, SchedulerKeeps DEF Exit, Yield, Return, Create
  <2>3. CASE UseMutex \/ UseEvent \/ UseSemaphore
    BY <2>3, MutexKeeps, EventKeeps, SemaphoreKeeps
  <2> QED BY <2>1, <2>2, <2>3 DEF NextUSynch, Exit, Yield, Return, Create
<1> QED BY SynchInitHolds, <1>1, PTL DEF SpecUSynch

\* Type correctness.
THEOREM TypeCorrectUSynch == SpecUSynch => []USynchTypeOK
<1>1. SynchIInv => USynchTypeOK
  BY DEF SynchIInv, IInv, MutexInv, EventInv, SemInv, USynchTypeOK
<1> QED BY <1>1, SynchInvariantHolds, PTL

\* The thread recorded in the mutex is the only one that holds it, as often as
\* the recursion counter says, or the one it was handed to; a free mutex is held
\* by nobody.
THEOREM OwnerExact == SpecUSynch => []OwnerIsExact
<1>1. SynchIInv => OwnerIsExact
  BY DEF SynchIInv, MutexInv
<1> QED BY <1>1, SynchInvariantHolds, PTL

\* The threads that neither run nor are ready are those in the three wait lists,
\* each once and in one of them.
THEOREM NobodyLostWaiting == SpecUSynch => []WaitersAreParked
<1>1. SynchIInv => WaitersAreParked
  BY DEF SynchIInv
<1> QED BY <1>1, SynchInvariantHolds, PTL

\* No signal of the event is kept from a waiter, and EventSet lets one call of
\* EventWait through at most.
THEOREM SignalsExact == SpecUSynch => []SignalsAreExact
<1>1. SynchIInv => SignalsAreExact
  BY DEF SynchIInv, EventInv
<1> QED BY <1>1, SynchInvariantHolds, PTL

\* The loop of SemaphoreRelease and the permits taken past the queue never leave
\* a request at the head that the permits there would satisfy.
THEOREM HeadWaits == SpecUSynch => []HeadMustWait
<1>1. SynchIInv => HeadMustWait
  BY DEF SynchIInv, SemInv
<1> QED BY <1>1, SynchInvariantHolds, PTL

\* The permits granted and those still there were supplied, whatever wraps.
THEOREM PermitsSupplied == SpecUSynch => []NoPermitInvented
<1>1. SynchIInv => NoPermitInvented
  <2> SUFFICES ASSUME SynchIInv PROVE NoPermitInvented
    OBVIOUS
  <2>1. Permits + Total(taken, Threads) <= supplied
    BY DEF SynchIInv, SemInv, All
  <2> QED BY <2>1, TakenIsTotal, Zenon DEF NoPermitInvented
<1> QED BY <1>1, SynchInvariantHolds, PTL

\* While the limit leaves room for the largest release below the end of the ULONG
\* range, no permit is lost: a release adds what it supplies, or what had room
\* below the limit, and no other call changes the sum.
THEOREM PermitsKept ==
  (\A n \in Releases : Limit + n <= MaxULong) => (SpecUSynch => PermitsNeverLost)
<1> SUFFICES ASSUME \A n \in Releases : Limit + n <= MaxULong
             PROVE  SpecUSynch => PermitsNeverLost
  OBVIOUS
<1> DEFINE A == LET all == Permits + MapThenSumSet(LAMBDA t : taken[t], Threads)
                    room == Limit - Permits
                    more == supplied' - supplied
                IN all' - all = IF more <= room THEN more ELSE room
<1>1. SynchIInv /\ [NextUSynch]_vars => [A]_semvars
  <2> SUFFICES ASSUME SynchIInv, [NextUSynch]_vars, ~UNCHANGED semvars PROVE A
    OBVIOUS
  <2>1. NextSemaphore
    BY DEF NextUSynch, vars, synchvars, UseMutex, UseEvent, UseSemaphore, Exit, Yield,
           Return, Create
  <2>2. All' - All = IF supplied' - supplied <= Limit - Permits
                     THEN supplied' - supplied ELSE Limit - Permits
    BY <2>1, PermitsAre DEF SynchIInv
  <2> DEFINE all == Permits + MapThenSumSet(LAMBDA t : taken[t], Threads)
  <2>3. all = All
    BY TakenIsTotal, Zenon DEF All
  <2>4. all' = All'
    BY TakenIsTotalNext, Zenon DEF All
  <2> HIDE DEF all
  <2>5. all' - all = IF supplied' - supplied <= Limit - Permits
                     THEN supplied' - supplied ELSE Limit - Permits
    BY <2>2, <2>3, <2>4, Zenon
  <2> QED BY <2>5, Zenon DEF all
<1> QED BY <1>1, SynchInvariantHolds, PTL DEF SpecUSynch, PermitsNeverLost

\* The mutex goes to the waiters in the order in which they queued up.
THEOREM MutexInOrder == SpecUSynch => WaitersInOrder
<1> DEFINE A == \A i \in DOMAIN MutexWaitList :
                  Owner' # Owner /\ MutexWaitList[i] \in Range(MutexWaitList')
                    => \E j \in 1 .. i - 1 : Owner' = MutexWaitList[j]
<1>1. SynchIInv /\ [NextUSynch]_vars => [A]_vars
  <2> SUFFICES ASSUME SynchIInv, NextUSynch, NEW i \in DOMAIN MutexWaitList,
                      Owner' # Owner, MutexWaitList[i] \in Range(MutexWaitList')
               PROVE  \E j \in 1 .. i - 1 : Owner' = MutexWaitList[j]
    OBVIOUS
  <2>1. NextMutex
    BY DEF NextUSynch, synchvars, mutexvars, UseMutex, UseEvent, UseSemaphore, Exit,
           Yield, Return, Create
  <2>2. /\ MutexWaitList \in Seq(Threads) /\ MutexWaitList # <<>>
        /\ DOMAIN MutexWaitList = 1 .. Len(MutexWaitList) /\ Len(MutexWaitList) \in Nat
        /\ IsInjective(MutexWaitList) /\ Owner # NULL
    BY DEF SynchIInv, MutexInv, MutexTypeOK, WaitersAreParked
  <2>3. MutexReleaseHandOver
    BY <2>1, <2>2 DEF NextMutex, MutexInitOwned, MutexAcquireAgain, MutexAcquireFree,
       MutexAcquireBusy, MutexAcquired, MutexRelease, MutexReleaseOnce, MutexReleaseFree
  <2>4. Owner' = Head(MutexWaitList) /\ MutexWaitList' = Tail(MutexWaitList)
    BY <2>3 DEF MutexReleaseHandOver
  <2>5. Head(MutexWaitList) = MutexWaitList[1]
    BY <2>2
  <2>6. Head(MutexWaitList) \notin Range(MutexWaitList')
    BY <2>2, <2>4, RemoveHead
  <2>7. i # 1
    BY <2>5, <2>6
  <2>8. 1 \in 1 .. i - 1
    BY <2>2, <2>7
  <2> QED BY <2>4, <2>5, <2>8
<1> QED BY <1>1, SynchInvariantHolds, PTL DEF SpecUSynch, WaitersInOrder

\* SemaphoreAcquire overtakes the request at the head of the queue with a smaller
\* one only.
THEOREM OvertakenBySmaller == SpecUSynch => HeadOvertakenBySmaller
<1> DEFINE A == \A u \in Threads :
                  /\ SemaphoreWaitList # <<>>
                  /\ Head(SemaphoreWaitList) \in Range(SemaphoreWaitList')
                  /\ taken'[u] > taken[u]
                  => taken'[u] - taken[u] < Head(SemaphoreWaitList).RequestedPermits
<1>1. SynchIInv /\ [NextUSynch]_vars => [A]_semvars
  <2> SUFFICES ASSUME SynchIInv, [NextUSynch]_vars, ~UNCHANGED semvars,
                      NEW u \in Threads, SemaphoreWaitList # <<>>,
                      Head(SemaphoreWaitList) \in Range(SemaphoreWaitList'),
                      taken'[u] > taken[u]
               PROVE  taken'[u] - taken[u] < Head(SemaphoreWaitList).RequestedPermits
    OBVIOUS
  <2>1. NextSemaphore
    BY DEF NextUSynch, vars, synchvars, UseMutex, UseEvent, UseSemaphore, Exit, Yield,
           Return, Create
  <2>2. /\ SemTypeOK /\ taken \in [Threads -> Nat]
        /\ Permits < Head(SemaphoreWaitList).RequestedPermits
        /\ Permits \in Nat /\ Len(SemaphoreWaitList) \in Nat
        /\ Len(SemaphoreWaitList) # 0
        /\ Head(SemaphoreWaitList) = SemaphoreWaitList[1]
    BY SemaphoreAssumption DEF SynchIInv, SemInv, SemTypeOK, HeadMustWait
  <2>3. Head(SemaphoreWaitList).RequestedPermits \in Nat
    <3>1. 1 \in 1 .. Len(SemaphoreWaitList)
      BY <2>2
    <3> QED BY <2>2, <3>1, RequestType
  <2>4. ASSUME NEW n \in Requests, SemaphoreAcquireAtOnce(n)
        PROVE  taken'[u] - taken[u] < Head(SemaphoreWaitList).RequestedPermits
    <3>1. /\ n \in Nat /\ Permits >= n
          /\ taken' = [taken EXCEPT ![RunningThread] = taken[RunningThread] + n]
      BY <2>4, SemaphoreAssumption DEF SemaphoreAcquireAtOnce
    <3>2. u = RunningThread
      BY <2>2, <3>1
    <3>3. taken'[u] = taken[u] + n /\ taken[u] \in Nat
      BY <2>2, <3>1, <3>2
    <3>4. PICK a, h : a = taken[u] /\ h = Head(SemaphoreWaitList).RequestedPermits
      OBVIOUS
    <3>5. (a + n) - a < h
      BY <2>2, <2>3, <3>1, <3>3, <3>4
    <3> QED BY <3>3, <3>4, <3>5
  <2>5. ASSUME NEW n \in Requests, SemaphoreAcquireBlocks(n)
        PROVE  FALSE
    BY <2>2, <2>5 DEF SemaphoreAcquireBlocks
  <2>6. ASSUME NEW n \in Releases, SemaphoreRelease(n)
        PROVE  FALSE
    <3> DEFINE p == Added(n)
               k == Served(p)
    <3>1. p \in Nat /\ Serve(p)
      BY <2>6, AddedIs DEF SynchIInv, SemInv, SemTypeOK, SemaphoreRelease
    <3>2. taken' = [t \in Threads |-> taken[t] + Granted(t, k)]
      BY <3>1 DEF Serve, Granted
    <3> HIDE DEF p
    <3>3. /\ k \in 0 .. Len(SemaphoreWaitList)
          /\ SemaphoreWaitList' \in Seq(WaitBlocks)
          /\ Len(SemaphoreWaitList') = Len(SemaphoreWaitList) - k
          /\ \A i \in 1 .. Len(SemaphoreWaitList) - k :
               SemaphoreWaitList'[i] = SemaphoreWaitList[k + i]
      BY <2>2, <3>1, Paid, ServedIs
    <3> HIDE DEF k
    <3>4. k # 0
      <4>1. SUFFICES ASSUME k = 0 PROVE FALSE
        OBVIOUS
      <4>2. Granted(u, 0) = 0
        <5>1. {i \in 1 .. 0 : SemaphoreWaitList[i].Thread = u} = {}
          OBVIOUS
        <5> QED BY <2>2, <5>1, AskedNone DEF Granted
      <4>3. taken'[u] = taken[u] + 0 /\ taken[u] \in Nat
        BY <2>2, <3>2, <4>1, <4>2
      <4> QED BY <4>3
    <3>5. PICK i \in DOMAIN SemaphoreWaitList' :
            SemaphoreWaitList'[i] = Head(SemaphoreWaitList)
      BY DEF Range
    <3>6. i \in 1 .. Len(SemaphoreWaitList) - k
      BY <3>3, <3>5
    <3>7. /\ k + i \in 1 .. Len(SemaphoreWaitList) /\ 1 \in 1 .. Len(SemaphoreWaitList)
          /\ k + i # 1
      BY <2>2, <3>3, <3>4, <3>6
    <3>8. SemaphoreWaitList[k + i] = SemaphoreWaitList[1]
      BY <2>2, <3>3, <3>5, <3>6
    <3>9. Queued[k + i] = Queued[1] /\ DOMAIN Queued = 1 .. Len(SemaphoreWaitList)
      BY <2>2, <3>7, <3>8, QueuedType
    <3> QED BY <3>7, <3>9 DEF SynchIInv, WaitersAreParked, IsInjective
  <2> QED BY <2>1, <2>4, <2>5, <2>6 DEF NextSemaphore
<1> QED BY <1>1, SynchInvariantHolds, PTL DEF SpecUSynch, HeadOvertakenBySmaller
=============================================================================
