---------------------------- MODULE UThread_proofs ----------------------------
(* Theorems about the single-processor scheduler, for every set of thread    *)
(* blocks.                                                                   *)
EXTENDS UThread, DataLemmas

\* The inductive invariant: the checked invariants together.  OnePlace alone is
\* not inductive: that ExtractNextReadyThread never returns a null thread needs
\* MainKnown, and that a created thread is nowhere else needs TypeOK.
IInv == TypeOK /\ OnePlace /\ CountIsExact /\ MainRunsLast /\ MainKnown

\* The part of IInv that a context switch re-establishes.
Placed == TypeOK /\ OnePlace /\ MainRunsLast /\ MainKnown

\* A switch from any well-formed queue of existing threads leaves the places
\* right, whether it dispatches the head or goes back to UtRun.
LEMMA SwitchPlaces ==
  ASSUME NEW q \in Seq(Threads), IsInjective(q), Range(q) \subseteq Allocated',
         Allocated' \subseteq Threads, NumberOfThreads' \in Nat,
         MainThread' = Main, q = <<>> => MainThread = Main, SwitchFrom(q)
  PROVE  Placed'
<1> USE ThreadsAssumption
<1>1. CASE q = <<>>
  <2>1. RunningThread' = Main /\ ReadyQueue' = <<>>
    BY <1>1 DEF SwitchFrom
  <2>2. Range(ReadyQueue') = {} /\ IsInjective(ReadyQueue')
    BY <2>1 DEF Range, IsInjective
  <2>3. Allocated' \ (Range(ReadyQueue') \cup {RunningThread'}) = Allocated'
    BY <2>1, <2>2
  <2> QED BY <2>1, <2>2, <2>3
      DEF Placed, TypeOK, OnePlace, MainRunsLast, MainKnown, Parked, UserRuns
<1>2. CASE q # <<>>
  <2>1. RunningThread' = Head(q) /\ ReadyQueue' = Tail(q)
    BY <1>2 DEF SwitchFrom
  <2>2. /\ Head(q) \in Threads /\ Head(q) \in Range(q)
        /\ Tail(q) \in Seq(Threads) /\ IsInjective(Tail(q))
        /\ Range(Tail(q)) = Range(q) \ {Head(q)}
    BY <1>2, RemoveHead
  <2> QED BY <2>1, <2>2
      DEF Placed, TypeOK, OnePlace, MainRunsLast, MainKnown, UserRuns
<1> QED BY <1>1, <1>2

\* While a user thread runs, UtRun is active.
LEMMA RunningUnderUtRun ==
  ASSUME TypeOK, MainKnown, UserRuns
  PROVE  MainThread = Main
BY ThreadsAssumption DEF TypeOK, MainKnown, UserRuns

\* The invariant holds at the start.
LEMMA InitHolds == UtInit => IInv
<1>1. IsInjective(<<>>) /\ Range(<<>>) = {}
  BY DEF IsInjective, Range
<1> QED BY <1>1, FS_EmptySet, ThreadsAssumption
    DEF UtInit, IInv, TypeOK, OnePlace, CountIsExact, MainRunsLast, MainKnown,
        UserRuns

\* Every step keeps it.
LEMMA NextKeeps == ASSUME IInv, [Next]_utvars PROVE IInv'
<1> USE ThreadsAssumption
<1> USE DEF IInv
<1>1. ASSUME NEW t \in Threads, UtCreate(t) PROVE IInv'
  <2>1. /\ ReadyQueue' = Append(ReadyQueue, t)
        /\ Allocated' = Allocated \cup {t} /\ t \notin Allocated
        /\ NumberOfThreads' = NumberOfThreads + 1
        /\ UNCHANGED <<RunningThread, MainThread>>
        /\ RunningThread # Main
    BY <1>1 DEF UtCreate, Activated, Executing, UserRuns
  <2>2. /\ ReadyQueue' \in Seq(Threads) /\ IsInjective(ReadyQueue')
        /\ Range(ReadyQueue') = Range(ReadyQueue) \cup {t}
    BY <2>1, InsertTail DEF TypeOK, OnePlace
  <2>3. CountIsExact'
    BY <2>1, FS_AddElement DEF CountIsExact, TypeOK
  <2> QED BY <2>1, <2>2, <2>3
      DEF TypeOK, OnePlace, MainRunsLast, MainKnown, UserRuns
<1>2. ASSUME NEW t \in Threads, UtActivate(t) PROVE IInv'
  <2>1. /\ ReadyQueue' = Append(ReadyQueue, t) /\ t \in Parked
        /\ UNCHANGED <<Allocated, NumberOfThreads, RunningThread, MainThread>>
        /\ RunningThread # Main
    BY <1>2 DEF UtActivate, Activated, Executing, UserRuns
  <2>2. /\ ReadyQueue' \in Seq(Threads) /\ IsInjective(ReadyQueue')
        /\ Range(ReadyQueue') = Range(ReadyQueue) \cup {t}
    BY <2>1, InsertTail DEF TypeOK, OnePlace, Parked
  <2> QED BY <2>1, <2>2
      DEF TypeOK, OnePlace, CountIsExact, MainRunsLast, MainKnown, UserRuns, Parked
<1>3. CASE UtRun
  <2>1. Placed'
    BY <1>3, SwitchPlaces DEF UtRun, TypeOK, OnePlace
  <2> QED BY <1>3, <2>1 DEF UtRun, Placed, CountIsExact
<1>4. CASE UtRunReturn
  BY <1>4
  DEF UtRunReturn, TypeOK, OnePlace, CountIsExact, MainRunsLast, MainKnown,
      UserRuns, Range
<1>5. CASE UtExit
  <2> DEFINE rest == Allocated \ {RunningThread}
  <2>1. /\ UserRuns /\ Allocated' = rest /\ MainThread' = MainThread
        /\ NumberOfThreads' = NumberOfThreads - 1
        /\ SwitchFrom(ReadyQueue)
    BY <1>5, ConcatEmptySeq DEF UtExit, ExitWaking, TypeOK
  <2>2. CountIsExact' /\ NumberOfThreads' \in Nat
    <3>1. IsFiniteSet(rest) /\ Cardinality(rest) = Cardinality(Allocated) - 1
      BY <2>1, FS_RemoveElement DEF CountIsExact, OnePlace
    <3>2. Cardinality(rest) \in Nat
      BY <3>1, FS_CardinalityType
    <3> QED BY <2>1, <3>1, <3>2 DEF CountIsExact
  <2>3. Placed'
    BY <2>1, <2>2, SwitchPlaces, RunningUnderUtRun DEF TypeOK, OnePlace
  <2> QED BY <2>2, <2>3 DEF Placed
<1>6. CASE UtYield
  <2> DEFINE q == Append(ReadyQueue, RunningThread)
  <2>1. /\ UserRuns /\ SwitchFrom(q)
        /\ UNCHANGED <<Allocated, NumberOfThreads, MainThread>>
    BY <1>6 DEF UtYield
  <2>2. /\ q \in Seq(Threads) /\ IsInjective(q)
        /\ Range(q) = Range(ReadyQueue) \cup {RunningThread}
    BY <2>1, InsertTail DEF TypeOK, OnePlace, UserRuns
  <2>3. Placed'
    BY <2>1, <2>2, SwitchPlaces, RunningUnderUtRun DEF TypeOK, OnePlace
  <2> QED BY <2>1, <2>3 DEF Placed, CountIsExact
<1>7. CASE UtDeactivate
  <2>1. Placed'
    BY <1>7, SwitchPlaces, RunningUnderUtRun
    DEF UtDeactivate, TypeOK, OnePlace
  <2> QED BY <1>7, <2>1 DEF UtDeactivate, Placed, CountIsExact
<1>8. CASE UNCHANGED utvars
  BY <1>8
  DEF utvars, TypeOK, OnePlace, CountIsExact, MainRunsLast, MainKnown, UserRuns,
      Parked
<1> QED BY <1>1, <1>2, <1>3, <1>4, <1>5, <1>6, <1>7, <1>8 DEF Next

\* After a switch from the queue q those that do not run are the threads that are
\* not in it.
LEMMA SwitchParked ==
  ASSUME NEW q \in Seq(Threads), IsInjective(q), Allocated' \subseteq Threads,
         q = <<>> => MainThread = Main, SwitchFrom(q)
  PROVE  Parked' = Allocated' \ Range(q)
<1>1. CASE q = <<>>
  <2>1. RunningThread' = Main /\ Range(ReadyQueue') = {} /\ Range(q) = {}
    BY <1>1 DEF SwitchFrom, Range
  <2> QED BY <2>1, ThreadsAssumption DEF Parked
<1>2. CASE q # <<>>
  <2>1. RunningThread' = Head(q) /\ ReadyQueue' = Tail(q)
    BY <1>2 DEF SwitchFrom
  <2>2. Range(Tail(q)) \cup {Head(q)} = Range(q)
    BY <1>2, RemoveHead
  <2> QED BY <2>1, <2>2 DEF Parked
<1> QED BY <1>1, <1>2

\* Who is parked changes only in UtDeactivate, by the thread that calls it, and in
\* UtActivate, by the thread it is called for.
LEMMA ParkedKept ==
  ASSUME IInv, \/ \E t \in Threads : UtCreate(t)
               \/ UtRun \/ UtRunReturn \/ UtExit \/ UtYield
  PROVE  Parked' = Parked
<1> USE ThreadsAssumption
<1> USE DEF IInv
<1>1. ASSUME NEW t \in Threads, UtCreate(t) PROVE Parked' = Parked
  <2>1. Range(ReadyQueue') = Range(ReadyQueue) \cup {t} /\ t \notin Parked
    BY <1>1, InsertTail DEF UtCreate, Activated, TypeOK, OnePlace, Parked
  <2> QED BY <1>1, <2>1 DEF UtCreate, Parked
<1>2. CASE UtRun
  <2>1. Parked' = Allocated' \ Range(ReadyQueue)
    BY <1>2, SwitchParked DEF UtRun, TypeOK, OnePlace
  <2> QED BY <1>2, <2>1 DEF UtRun, Parked, TypeOK
<1>3. CASE UtRunReturn
  BY <1>3 DEF UtRunReturn, Parked, TypeOK
<1>4. CASE UtExit
  <2>1. /\ SwitchFrom(ReadyQueue) /\ UserRuns /\ Allocated' = Allocated \ {RunningThread}
    BY <1>4, ConcatEmptySeq DEF UtExit, ExitWaking, TypeOK
  <2>2. Parked' = Allocated' \ Range(ReadyQueue)
    BY <2>1, SwitchParked, RunningUnderUtRun DEF TypeOK, OnePlace
  <2> QED BY <2>1, <2>2 DEF Parked
<1>5. CASE UtYield
  <2> DEFINE q == Append(ReadyQueue, RunningThread)
  <2>1. /\ q \in Seq(Threads) /\ q # <<>> /\ IsInjective(q)
        /\ Range(q) = Range(ReadyQueue) \cup {RunningThread}
        /\ SwitchFrom(q) /\ Allocated' = Allocated
    BY <1>5, InsertTail DEF UtYield, UserRuns, TypeOK, OnePlace
  <2> HIDE DEF q
  <2>2. Parked' = Allocated' \ Range(q)
    BY <2>1, SwitchParked DEF TypeOK
  <2> QED BY <2>1, <2>2 DEF Parked
<1> QED BY <1>1, <1>2, <1>3, <1>4, <1>5

\* UtDeactivate parks the running thread and nobody else.
LEMMA ParkedMore ==
  ASSUME IInv, UtDeactivate
  PROVE  /\ Parked' = Parked \cup {RunningThread}
         /\ RunningThread \in Threads \ Parked
<1>1. UserRuns /\ SwitchFrom(ReadyQueue) /\ Allocated' = Allocated /\ MainThread = Main
  BY RunningUnderUtRun DEF UtDeactivate, IInv
<1>2. Parked' = Allocated' \ Range(ReadyQueue)
  BY <1>1, SwitchParked DEF IInv, TypeOK, OnePlace
<1> QED BY <1>1, <1>2 DEF Parked, UserRuns, IInv, OnePlace

\* UtActivate takes the thread, which was parked, from the parked ones.
LEMMA ParkedLess ==
  ASSUME IInv, NEW t, UtActivate(t)
  PROVE  Parked' = Parked \ {t} /\ t \in Parked
<1>1. t \in Parked /\ t \in Threads
  BY DEF UtActivate, Parked, IInv, TypeOK
<1>2. Range(ReadyQueue') = Range(ReadyQueue) \cup {t}
  BY <1>1, InsertTail DEF UtActivate, Activated, IInv, TypeOK, OnePlace, Parked
<1> QED BY <1>1, <1>2 DEF UtActivate, Parked

\* The queue, the running thread, the counter and the heap stay consistent.
THEOREM InvariantHolds == Spec => []IInv
BY InitHolds, NextKeeps, PTL DEF Spec

\* Type correctness.
THEOREM TypeCorrect == Spec => []TypeOK
BY InvariantHolds, PTL DEF IInv

\* No thread is ever lost from, or found twice in, the places it can be in.
THEOREM PlacesExclusive == Spec => []OnePlace
BY InvariantHolds, PTL DEF IInv

\* NumberOfThreads is the number of threads that exist.
THEOREM CountCorrect == Spec => []CountIsExact
BY InvariantHolds, PTL DEF IInv

\* UtRun is switched back in only when nothing can run.
THEOREM UtRunLast == Spec => []MainRunsLast
BY InvariantHolds, PTL DEF IInv

-----------------------------------------------------------------------------
(* The scheduler implements SchedulerSpec.                                   *)

\* In a state of the invariant a thread's status is where it is.
LEMMA StatusIsPlace ==
  ASSUME TypeOK, OnePlace, NEW h \in Threads
  PROVE  /\ ThreadStatus[h] \in {"free", "running", "ready", "blocked"}
         /\ ThreadStatus[h] = "free" <=> h \notin Allocated
         /\ ThreadStatus[h] = "running" <=> h = RunningThread
         /\ ThreadStatus[h] = "ready" <=> h \in Range(ReadyQueue)
         /\ ThreadStatus[h] = "blocked" <=> h \in Parked
BY DEF ThreadStatus, TypeOK, OnePlace, Parked, UserRuns

\* The same of the next state.
LEMMA StatusIsPlaceNext ==
  ASSUME TypeOK', OnePlace', NEW h \in Threads
  PROVE  /\ ThreadStatus'[h] \in {"free", "running", "ready", "blocked"}
         /\ ThreadStatus'[h] = "free" <=> h \notin Allocated'
         /\ ThreadStatus'[h] = "running" <=> h = RunningThread'
         /\ ThreadStatus'[h] = "ready" <=> h \in Range(ReadyQueue')
         /\ ThreadStatus'[h] = "blocked" <=> h \in Parked'
BY DEF ThreadStatus, TypeOK, OnePlace, Parked, UserRuns

\* Two functions that differ at one point.
LEMMA OneDiffers ==
  ASSUME NEW S, NEW T, NEW f \in [S -> T], NEW g \in [S -> T],
         NEW h \in S, \A v \in S \ {h} : g[v] = f[v]
  PROVE  g = [f EXCEPT ![h] = g[h]]
OBVIOUS

\* The status of every thread is one the abstract scheduler has.
LEMMA StatusType ==
  ASSUME TypeOK, OnePlace
  PROVE  ThreadStatus \in [Threads -> Promise!Status]
BY StatusIsPlace DEF ThreadStatus, Promise!Status

\* The same of the next state.
LEMMA StatusTypeNext ==
  ASSUME TypeOK', OnePlace'
  PROVE  ThreadStatus' \in [Threads -> Promise!Status]
BY StatusIsPlaceNext DEF ThreadStatus, Promise!Status

\* A running thread that changes its own status to s and switches to the next
\* ready one, or to UtRun, leaves as the abstract scheduler says.
LEMMA LeaveImplements ==
  ASSUME TypeOK, OnePlace, TypeOK', OnePlace', MainKnown, UserRuns,
         NEW q \in Seq(Threads), IsInjective(q), SwitchFrom(q),
         NEW s \in {"ready", "blocked", "free"},
         Range(q) = Range(ReadyQueue)
                      \cup (IF s = "ready" THEN {RunningThread} ELSE {}),
         Allocated' = IF s = "free" THEN Allocated \ {RunningThread} ELSE Allocated,
         UNCHANGED MainThread
  PROVE  Promise!Leave(RunningThread, s)
<1> DEFINE t == RunningThread
           ready == Promise!In("ready") \cup (IF s = "ready" THEN {t} ELSE {})
<1>1. t \in Threads /\ ThreadStatus[t] = "running" /\ t \in Allocated
  BY StatusIsPlace DEF UserRuns, OnePlace
<1>2. ready = Range(q)
  <2>1. Promise!In("ready") = Range(ReadyQueue)
    BY StatusIsPlace DEF Promise!In, OnePlace, TypeOK
  <2> QED BY <2>1
<1>3. UNCHANGED (MainThread # NULL)
  OBVIOUS
<1>4. CASE q = <<>>
  <2>1. RunningThread' = Main /\ ReadyQueue' = <<>> /\ MainThread = Main
    BY <1>1, <1>4, ThreadsAssumption, RunningUnderUtRun DEF SwitchFrom, TypeOK, MainKnown, UserRuns
  <2>2. Range(q) = {} /\ Range(ReadyQueue') = {}
    BY <1>4, <2>1 DEF Range
  <2>3. s # "ready" /\ Range(ReadyQueue) = {}
    BY <2>2
  <2>4. ThreadStatus'[t] = s
    BY <1>1, <2>1, <2>2, <2>3, StatusIsPlaceNext, ThreadsAssumption DEF Parked
  <2>5. \A v \in Threads \ {t} : ThreadStatus'[v] = ThreadStatus[v]
    BY <1>1, <2>1, <2>2, <2>3, StatusIsPlace, StatusIsPlaceNext, ThreadsAssumption
    DEF Parked
  <2>6. ThreadStatus' = [ThreadStatus EXCEPT ![t] = s]
    BY <1>1, <2>4, <2>5, StatusType, StatusTypeNext, OneDiffers
  <2> QED BY <1>1, <1>2, <1>3, <2>2, <2>6 DEF Promise!Leave
<1>5. CASE q # <<>>
  <2> DEFINE u == Head(q)
  <2>1. RunningThread' = u /\ ReadyQueue' = Tail(q)
    BY <1>5 DEF SwitchFrom
  <2>2. u \in Threads /\ u \in Range(q) /\ Range(ReadyQueue') = Range(q) \ {u}
    BY <1>5, <2>1, RemoveHead
  <2>3. ThreadStatus'[u] = "running"
    BY <2>1, <2>2, StatusIsPlaceNext
  <2>4. t # u => ThreadStatus'[t] = s
    BY <1>1, <2>1, <2>2, StatusIsPlaceNext DEF Parked, OnePlace
  <2>5. \A v \in Threads \ {t, u} : ThreadStatus'[v] = ThreadStatus[v]
    BY <1>1, <2>1, <2>2, StatusIsPlace, StatusIsPlaceNext DEF Parked
  <2>6. ThreadStatus' = [ThreadStatus EXCEPT ![t] = s, ![u] = "running"]
    <3>1. /\ t \in Threads /\ u \in Threads /\ s \in Promise!Status
          /\ ThreadStatus \in [Threads -> Promise!Status]
          /\ ThreadStatus' \in [Threads -> Promise!Status]
      BY <1>1, <2>2, StatusType, StatusTypeNext DEF Promise!Status
    <3> HIDE DEF t, u
    <3> QED BY <2>3, <2>4, <2>5, <3>1
  <2> QED BY <1>1, <1>2, <1>3, <2>2, <2>6 DEF Promise!Leave
<1> QED BY <1>4, <1>5

\* A thread that enters the ready queue from outside it, everything else in place.
LEMMA ReadyImplements ==
  ASSUME TypeOK, OnePlace, MainKnown, TypeOK', OnePlace', Executing,
         NEW t \in Threads, t \notin Range(ReadyQueue), t # RunningThread,
         Range(ReadyQueue') = Range(ReadyQueue) \cup {t},
         Allocated' = Allocated \cup {t},
         UNCHANGED <<RunningThread, MainThread>>
  PROVE  /\ Promise!Busy
         /\ ThreadStatus' = [ThreadStatus EXCEPT ![t] = "ready"]
         /\ UNCHANGED (MainThread # NULL)
<1>1. ThreadStatus'[t] = "ready"
  BY StatusIsPlaceNext
<1>2. \A v \in Threads \ {t} : ThreadStatus'[v] = ThreadStatus[v]
  BY StatusIsPlace, StatusIsPlaceNext DEF Parked
<1>3. ThreadStatus' = [ThreadStatus EXCEPT ![t] = "ready"]
  BY <1>1, <1>2, StatusType, StatusTypeNext, OneDiffers
<1>4. Promise!Busy
  BY StatusIsPlace, ThreadsAssumption
  DEF Promise!Busy, Promise!In, Executing, UserRuns, MainKnown
<1> QED BY <1>3, <1>4

\* Every behaviour of the scheduler is one of the abstract scheduler.
THEOREM ImplementsScheduler == Spec => KeepsPromise
<1> USE ThreadsAssumption
<1>1. UtInit => Promise!Init
  <2> SUFFICES ASSUME UtInit PROVE Promise!Init
    OBVIOUS
  <2>1. \A h \in Threads : ThreadStatus[h] = "free"
    BY InitHolds, StatusIsPlace DEF UtInit, IInv
  <2>2. ThreadStatus = [h \in Threads |-> "free"]
    BY <2>1, InitHolds, StatusType DEF IInv
  <2> QED BY <2>2 DEF UtInit, Promise!Init
<1>2. IInv /\ IInv' /\ [Next]_utvars => [Promise!Next]_(Promise!vars)
  <2> SUFFICES ASSUME IInv, IInv', [Next]_utvars
               PROVE  [Promise!Next]_(Promise!vars)
    OBVIOUS
  <2> USE DEF IInv
  <2>1. ASSUME NEW t \in Threads, UtCreate(t) PROVE Promise!Create(t)
    <3>1. t \notin Range(ReadyQueue) /\ t # RunningThread /\ ThreadStatus[t] = "free"
      BY <2>1, StatusIsPlace DEF UtCreate, Executing, OnePlace, UserRuns
    <3>2. Range(ReadyQueue') = Range(ReadyQueue) \cup {t}
      BY <2>1, <3>1, InsertTail DEF UtCreate, Activated, TypeOK, OnePlace
    <3> QED BY <2>1, <3>1, <3>2, ReadyImplements DEF UtCreate, Promise!Create
  <2>2. ASSUME NEW t \in Threads, UtActivate(t) PROVE Promise!Wake(t)
    <3>1. /\ t \notin Range(ReadyQueue) /\ t # RunningThread /\ t \in Allocated
          /\ ThreadStatus[t] = "blocked"
      BY <2>2, StatusIsPlace DEF UtActivate, Parked
    <3>2. Range(ReadyQueue') = Range(ReadyQueue) \cup {t}
      BY <2>2, <3>1, InsertTail DEF UtActivate, Activated, TypeOK, OnePlace
    <3> QED BY <2>2, <3>1, <3>2, ReadyImplements DEF UtActivate, Promise!Wake
  <2>3. CASE UtRun
    <3> DEFINE u == Head(ReadyQueue)
    <3>1. /\ RunningThread = NULL /\ MainThread = NULL /\ MainThread' = Main
          /\ RunningThread' = u /\ ReadyQueue' = Tail(ReadyQueue)
          /\ UNCHANGED Allocated
      BY <2>3 DEF UtRun, SwitchFrom, MainKnown
    <3>2. /\ u \in Threads /\ u \in Range(ReadyQueue)
          /\ Range(ReadyQueue') = Range(ReadyQueue) \ {u}
      BY <2>3, <3>1, RemoveHead DEF UtRun, TypeOK, OnePlace
    <3>3. ThreadStatus'[u] = "running" /\ ThreadStatus[u] = "ready"
      BY <3>1, <3>2, StatusIsPlace, StatusIsPlaceNext
    <3>4. \A v \in Threads \ {u} : ThreadStatus'[v] = ThreadStatus[v]
      BY <3>1, <3>2, StatusIsPlace, StatusIsPlaceNext DEF Parked
    <3>5. ThreadStatus' = [ThreadStatus EXCEPT ![u] = "running"]
      BY <3>2, <3>3, <3>4, StatusType, StatusTypeNext, OneDiffers
    <3>6. Promise!Run
      BY <3>1, <3>2, <3>3, <3>5 DEF Promise!Run, Promise!In
    <3> QED BY <3>6 DEF Promise!Next
  <2>4. CASE UtRunReturn
    <3>1. /\ RunningThread = Main /\ RunningThread' = NULL /\ MainThread # NULL
          /\ MainThread' = NULL /\ UNCHANGED <<Allocated, ReadyQueue>>
      BY <2>4 DEF UtRunReturn, MainKnown
    <3>2. \A v \in Threads : ThreadStatus'[v] = ThreadStatus[v]
      BY <3>1, StatusIsPlace, StatusIsPlaceNext DEF Parked
    <3>3. UNCHANGED ThreadStatus
      BY <3>2, StatusType, StatusTypeNext
    <3>4. Promise!In("running") = {}
      BY <3>1, StatusIsPlace DEF Promise!In
    <3>5. Promise!Return
      BY <3>1, <3>3, <3>4 DEF Promise!Return
    <3> QED BY <3>5 DEF Promise!Next
  <2>5. CASE UtExit
    <3>1. /\ UserRuns /\ Allocated' = Allocated \ {RunningThread}
          /\ UNCHANGED MainThread /\ SwitchFrom(ReadyQueue)
      BY <2>5, ConcatEmptySeq DEF UtExit, ExitWaking, TypeOK
    <3>2. Promise!Leave(RunningThread, "free")
      BY <3>1, LeaveImplements DEF TypeOK, OnePlace
    <3> QED BY <3>1, <3>2 DEF Promise!Next, UserRuns
  <2>6. CASE UtYield
    <3> DEFINE q == Append(ReadyQueue, RunningThread)
    <3>1. /\ UserRuns /\ SwitchFrom(q) /\ UNCHANGED <<Allocated, MainThread>>
      BY <2>6 DEF UtYield
    <3>2. /\ q \in Seq(Threads) /\ IsInjective(q)
          /\ Range(q) = Range(ReadyQueue) \cup {RunningThread}
      BY <3>1, InsertTail DEF TypeOK, OnePlace, UserRuns
    <3>3. Promise!Leave(RunningThread, "ready")
      BY <3>1, <3>2, LeaveImplements
    <3> QED BY <3>1, <3>3 DEF Promise!Next, UserRuns
  <2>7. CASE UtDeactivate
    <3>1. Promise!Leave(RunningThread, "blocked")
      BY <2>7, LeaveImplements DEF UtDeactivate, TypeOK, OnePlace
    <3> QED BY <2>7, <3>1 DEF Promise!Next, UserRuns, UtDeactivate
  <2>8. CASE UNCHANGED utvars
    BY <2>8 DEF utvars, Promise!vars, ThreadStatus, Parked
  <2> QED BY <2>1, <2>2, <2>3, <2>4, <2>5, <2>6, <2>7, <2>8 DEF Next, Promise!Next
<1> QED BY <1>1, <1>2, InvariantHolds, PTL DEF Spec, KeepsPromise, Promise!Spec

\* The processor is given in arrival order: only the head of the ready queue is
\* ever dispatched.
THEOREM ArrivalOrder == Spec => FirstComeFirstServed
<1> DEFINE A == \A i, j \in DOMAIN ReadyQueue :
                  i < j /\ RunningThread' = ReadyQueue[j]
                    => ReadyQueue[i] \notin Range(ReadyQueue')
<1>1. IInv /\ [Next]_utvars => [A]_utvars
  <2> SUFFICES ASSUME IInv, Next, NEW i \in DOMAIN ReadyQueue,
                      NEW j \in DOMAIN ReadyQueue, i < j,
                      RunningThread' = ReadyQueue[j]
               PROVE  FALSE
    OBVIOUS
  <2> USE ThreadsAssumption
  <2>1. /\ ReadyQueue \in Seq(Threads) /\ IsInjective(ReadyQueue)
        /\ DOMAIN ReadyQueue = 1 .. Len(ReadyQueue) /\ Len(ReadyQueue) \in Nat
        /\ ReadyQueue # <<>> /\ 1 \in DOMAIN ReadyQueue /\ j # 1
        /\ ReadyQueue[j] \in Range(ReadyQueue) /\ ReadyQueue[j] \in Threads
    BY DEF IInv, TypeOK, OnePlace, Range
  <2>2. ReadyQueue[j] # Head(ReadyQueue)
    BY <2>1 DEF IsInjective
  <2>3. CASE RunningThread' = RunningThread
    BY <2>1, <2>3 DEF IInv, OnePlace
  <2>4. ~SwitchFrom(ReadyQueue)
    BY <2>1, <2>2 DEF SwitchFrom
  <2>5. CASE UtRun \/ UtDeactivate
    BY <2>4, <2>5 DEF UtRun, UtDeactivate
  <2>6. CASE UtExit
    BY <2>1, <2>4, <2>6, ConcatEmptySeq DEF UtExit, ExitWaking
  <2>7. CASE UtYield
    <3>1. /\ Append(ReadyQueue, RunningThread) # <<>>
          /\ Head(Append(ReadyQueue, RunningThread)) = Head(ReadyQueue)
      BY <2>1, <2>7, HeadTailAppend DEF UtYield, UserRuns
    <3> QED BY <2>2, <2>7, <3>1 DEF UtYield, SwitchFrom
  <2>8. CASE UtRunReturn
    BY <2>1, <2>8 DEF UtRunReturn
  <2> QED BY <2>3, <2>5, <2>6, <2>7, <2>8 DEF Next, UtCreate, UtActivate
<1> QED BY <1>1, InvariantHolds, PTL DEF Spec, FirstComeFirstServed
=============================================================================
