----------------------------- MODULE UThreadTests -----------------------------
(***************************************************************************)
(* The test programs of the user threads: SimpleTest, MutexTests,          *)
(* InitSynchro, UthreadLabTests and UthreadsTests.  Each behavior is one of *)
(* them, linked with UThread.cpp or with the changes for UtJoin.           *)
(*                                                                         *)
(* A function is written as the sequence of its statements, in which a call *)
(* that can switch is one, and the main program as the sequence of the     *)
(* functions it creates threads for.  Prints are left out, and MutexTests  *)
(* is not run again after it has ended.                                    *)
(***************************************************************************)
EXTENDS UThreadApril, SequencesExt

CONSTANTS NTHREADS,     \* of MutexTests, MAX_THREADS of SimpleTest
          NITERS        \* iterations of the loops of the two

ASSUME TestsAssumption == NTHREADS \in Nat \ {0} /\ NITERS \in Nat

VARIABLES test,
          created,      \* the threads the main program has created
          over,         \* UtRun has returned
          func,         \* of each thread, the function it was created for
          at,           \* and the statements it has executed
          tmpOf,          \* its variable tmp
          hThread,      \* and its variable hThread
          counted,      \* Test1_Count, or *args->result
          isAlive,      \* the variable of the test
          switches      \* history: how often a thread was switched in

testvars == <<test, created, over, func, at, tmpOf, hThread, counted, isAlive, switches>>

-----------------------------------------------------------------------------
Times(n, statements) == FlattenSeq([k \in 1 .. n |-> statements])

Test1_Thread == Append(Times(NITERS, <<"perhaps yield">>), "count")
CounterThread_Test == Times(NITERS, <<"read", "perhaps yield", "write">>)
Func1 == <<"yield">>
Func2 == <<>>
InitWaiterThreadFunc == <<"create InitNotifier", "yield", "wait", "yield">>
InitNotifierThreadFunc == <<>>      \* its EventSet is a comment
Func1CtxTest == <<"yield">>
Func2CtxTest == <<>>
Func1IsAliveTest == <<"isAlive = UtAlive(UtSelf())">>
Func2IsAliveTest == <<"create Empty", "join", "isAlive = UtAlive(hThread)">>
Func1_Unit == <<"isAlive = UtAlive(UtSelf())">>
Func2_Unit == <<"create Empty", "yield", "isAlive = UtAlive(hThread)">>

Code ==
  [Test1 |-> Test1_Thread, Counter |-> CounterThread_Test, Func1 |-> Func1,
   Func2 |-> Func2, InitWaiter |-> InitWaiterThreadFunc,
   InitNotifier |-> InitNotifierThreadFunc, CtxFunc1 |-> Func1CtxTest,
   CtxFunc2 |-> Func2CtxTest, SelfAlive |-> Func1IsAliveTest,
   JoinedAlive |-> Func2IsAliveTest, UnitSelf |-> Func1_Unit, UnitExited |-> Func2_Unit,
   Empty |-> <<>>]

SimpleTest == Times(NTHREADS, <<"Test1">>)
SimpleTestMarch == <<"Func1", "Func2">>
MutexTests == Times(NTHREADS, <<"Counter">>)
InitSynchroTest == <<"InitWaiter">>
TestCtxSwitchCnt1 == <<"CtxFunc1", "CtxFunc2">>
RunningThreadIsAliveTest == <<"SelfAlive">>
AfterUtExitNotAliveTest == <<"JoinedAlive">>
RunningThreadIsAliveTest_Unit == <<"UnitSelf">>
AfterUtExitNotAliveTest_Unit == <<"UnitExited">>

Creates ==
  [SimpleTest |-> SimpleTest, SimpleTestMarch |-> SimpleTestMarch,
   MutexTests |-> MutexTests, InitSynchro |-> InitSynchroTest,
   CtxSwitchCnt1 |-> TestCtxSwitchCnt1, RunningThreadIsAlive |-> RunningThreadIsAliveTest,
   AfterUtExitNotAlive |-> AfterUtExitNotAliveTest,
   UnitRunningThreadIsAlive |-> RunningThreadIsAliveTest_Unit,
   UnitAfterUtExitNotAlive |-> AfterUtExitNotAliveTest_Unit]

TestsInit ==
  /\ UtInitApril
  /\ test \in DOMAIN Creates
  /\ created = 0
  /\ over = FALSE
  /\ func = [t \in Threads |-> "Empty"]
  /\ at = [t \in Threads |-> 0]
  /\ tmpOf = [t \in Threads |-> 0]
  /\ hThread = [t \in Threads |-> NULL]
  /\ counted = 0
  /\ isAlive = (test \in {"AfterUtExitNotAlive", "UnitAfterUtExitNotAlive"})
  /\ switches = 0

-----------------------------------------------------------------------------
UtGetSwitchCount == 0

Alive(h) == IF April THEN UtAliveApril(h) ELSE UtAlive(h)

NewThread(t, f) ==
  /\ IF April THEN UtCreateApril(t) ELSE UtCreateJoinable(t) /\ UNCHANGED library
  /\ func' = [func EXCEPT ![t] = f]

Ends == IF April THEN UtExitApril ELSE UtExitJoined /\ UNCHANGED library

Joins(h) ==
  \/ April /\ UtJoinApril(h)
  \/ ~April /\ UtJoin(h) /\ UNCHANGED library

\* Every switch of the processor is seen as a change of the running thread.
Counted == switches' = switches + (IF RunningThread' # RunningThread THEN 1 ELSE 0)

\* The main program creates its threads and calls UtRun.
MainCreates ==
  /\ RunningThread = NULL
  /\ created < Len(Creates[test])
  /\ \E t \in Threads :
       /\ NewThread(t, Creates[test][created + 1])
       /\ at' = [at EXCEPT ![t] = 0]
  /\ created' = created + 1
  /\ UNCHANGED <<test, over, tmpOf, hThread, counted, isAlive, switches>>

MainRuns ==
  /\ ~over
  /\ created = Len(Creates[test])
  /\ UtRunApril
  /\ switches' = 1
  /\ UNCHANGED <<test, created, over, func, at, tmpOf, hThread, counted, isAlive>>

MainGoesOn ==
  /\ UtRunReturnApril
  /\ over' = TRUE
  /\ UNCHANGED <<test, created, func, at, tmpOf, hThread, counted, isAlive, switches>>

-----------------------------------------------------------------------------
Self == RunningThread
Rest == SubSeq(Code[func[Self]], at[Self] + 1, Len(Code[func[Self]]))

\* The running thread is at the statement s, and goes on behind it.
At(s) ==
  /\ UserRuns
  /\ Rest # <<>>
  /\ Head(Rest) = s

Behind == at' = [at EXCEPT ![Self] = @ + 1]

YieldStatement ==
  /\ At("yield") \/ At("perhaps yield")
  /\ UtYieldApril
  /\ Behind /\ Counted
  /\ UNCHANGED <<test, created, over, func, tmpOf, hThread, counted, isAlive>>

\* rand() says no.
DoesNotYield ==
  /\ At("perhaps yield")
  /\ Behind
  /\ UNCHANGED <<aprilvars, test, created, over, func, tmpOf, hThread, counted, isAlive,
                 switches>>

\* ++Test1_Count, and the two halves of tmp = *args->result + 1, *args->result = tmp.
CountStatement ==
  /\ \/ At("count") /\ counted' = counted + 1 /\ UNCHANGED tmpOf
     \/ At("read") /\ tmpOf' = [tmpOf EXCEPT ![Self] = counted + 1] /\ UNCHANGED counted
     \/ At("write") /\ counted' = tmpOf[Self] /\ UNCHANGED tmpOf
  /\ Behind
  /\ UNCHANGED <<aprilvars, test, created, over, func, hThread, isAlive, switches>>

CreateStatement ==
  /\ \E f \in {"InitNotifier", "Empty"}, t \in Threads :
       /\ At(IF f = "Empty" THEN "create Empty" ELSE "create InitNotifier")
       /\ NewThread(t, f)
       /\ hThread' = [hThread EXCEPT ![Self] = t]
       /\ at' = [at EXCEPT ![Self] = @ + 1, ![t] = 0]
  /\ UNCHANGED <<test, created, over, tmpOf, counted, isAlive, switches>>

JoinStatement ==
  /\ At("join")
  /\ Joins(hThread[Self])
  /\ Behind /\ Counted
  /\ UNCHANGED <<test, created, over, func, tmpOf, hThread, counted, isAlive>>

AliveStatement ==
  /\ \/ At("isAlive = UtAlive(UtSelf())") /\ isAlive' = Alive(Self)
     \/ At("isAlive = UtAlive(hThread)") /\ isAlive' = Alive(hThread[Self])
  /\ Behind
  /\ UNCHANGED <<aprilvars, test, created, over, func, tmpOf, hThread, counted, switches>>

\* EventWait on an event that is not signaled, nor ever will be.
WaitStatement ==
  /\ At("wait")
  /\ UtDeactivateApril
  /\ Behind /\ Counted
  /\ UNCHANGED <<test, created, over, func, tmpOf, hThread, counted, isAlive>>

\* InternalStart: the function returns, and the thread exits.
Returns ==
  /\ UserRuns /\ Rest = <<>>
  /\ Ends
  /\ Counted
  /\ UNCHANGED <<test, created, over, func, at, tmpOf, hThread, counted, isAlive>>

TestsNext ==
  \/ MainCreates \/ MainRuns \/ MainGoesOn
  \/ YieldStatement \/ DoesNotYield \/ CountStatement \/ CreateStatement
  \/ JoinStatement \/ AliveStatement \/ WaitStatement \/ Returns

TestsSpec == TestsInit /\ [][TestsNext]_<<aprilvars, testvars>>

-----------------------------------------------------------------------------
\* What the tests assert or print at the end, as far as the libraries bear it out.
\* Test1 counts all its threads; the unsynchronized counter of MutexTests may miss
\* some; a thread finds itself alive with the changes for UtJoin; after its exit it
\* is not alive.
Verdict ==
  /\ test = "SimpleTest" => counted = NTHREADS
  /\ test = "MutexTests" => 2 <= counted /\ counted <= NTHREADS * NITERS
  /\ test \in {"RunningThreadIsAlive", "UnitRunningThreadIsAlive"} /\ ~April => isAlive
  /\ test \in {"AfterUtExitNotAlive", "UnitAfterUtExitNotAlive"} => ~isAlive

\* The scheduler switches as often as TestCtxSwitchCnt1 expects; it is a claim about
\* the switches made, not about what UtGetSwitchCount says of them.
SwitchesMade == test = "CtxSwitchCnt1" => switches = 4

\* UtRun leaves no thread behind but for InitSynchro: the thread that waits for the
\* end of the initialization waits for ever.
LeftBehind == NumberOfThreads = IF test = "InitSynchro" THEN 1 ELSE 0

\* The end of a test, with all of these.
TestEnded == over /\ Verdict /\ SwitchesMade /\ LeftBehind

-----------------------------------------------------------------------------
\* What TestCtxSwitchCnt1 asserts (UthreadLabTests.cpp:60): the count of the library
\* is four when UtRun has returned.
CtxSwitchCnt1Passes == over /\ test = "CtxSwitchCnt1" => UtGetSwitchCount = 4

\* What both RunningThreadIsAliveTest assert (UthreadLabTests.cpp:70,
\* unittest1.cpp:40): a running thread finds itself alive.
RunningThreadIsAlivePasses ==
  over /\ test \in {"RunningThreadIsAlive", "UnitRunningThreadIsAlive"} => isAlive

\* What UtRun promises and asserts (UThread.cpp:159-161, 189): the operating system
\* thread resumes only when all user threads have exited.
UtRunLeavesNobody == over => NumberOfThreads = 0
=============================================================================
