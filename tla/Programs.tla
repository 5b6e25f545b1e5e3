------------------------------- MODULE Programs -------------------------------
(***************************************************************************)
(* The programs of the course and what they stand on, side by side: each   *)
(* behavior runs one of them, which program names.                         *)
(***************************************************************************)
EXTENDS ParallelSum, AsyncCopy, SearchIOCP, ClassicMutex, Philosophers, ListEntry,
        ContextSwitch, UThreadTests, SchedTestRT, MapCopy, AsyncRead, SharedInt

VARIABLE program

sumAll == <<sumvars, poolvars>>
testsAll == <<aprilvars, testvars>>
programvars == <<sumAll, copyvars, iocpvars, petersonvars, philvars, listvars,
                 machinevars, testsAll, rtvars, mapvars, readvars, intvars, program>>

\* What a program that does not run would have chosen initially does not matter.
Chosen(p, v, S) == program = p \/ v = CHOOSE x \in S : TRUE

ProgramsInit ==
  /\ program \in {"sum", "copy", "search", "critical", "philosophers", "list", "switch",
                 "tests", "priorities", "map copy", "read", "shared int"}
  /\ SumInit
  /\ Chosen("sum", <<bounded, adder, size>>, BOOLEAN \X Adders \X Sizes)
  /\ CopyInit /\ Chosen("copy", inFileSize, FileSizes)
  /\ IOCP_Init /\ Chosen("search", blocks, FileBlocks)
  /\ PetersonInit
  /\ PhilosophersInit /\ Chosen("philosophers", version, {"V1", "V2", "V3"})
  /\ InitializeListHead
  /\ MachineInit /\ Chosen("switch", build, Builds)
  /\ TestsInit /\ Chosen("tests", <<library, test>>, Libraries \X DOMAIN Creates)
  /\ RTInit /\ Chosen("priorities", strict, BOOLEAN)
  /\ MapCopyInit /\ Chosen("map copy", srcSize, MapFileSizes)
  /\ AsyncReadInit
  /\ SharedIntInit /\ Chosen("shared int", number, Numbers)

\* A step A of the program leaves everything of the others alone.
OfSum(A) ==
  /\ program = "sum" /\ A
  /\ UNCHANGED <<copyvars, iocpvars, petersonvars, philvars, listvars, machinevars,
                 testsAll, rtvars, mapvars, readvars, intvars, program>>
OfCopy(A) ==
  /\ program = "copy" /\ A
  /\ UNCHANGED <<sumAll, iocpvars, petersonvars, philvars, listvars, machinevars,
                 testsAll, rtvars, mapvars, readvars, intvars, program>>
OfSearch(A) ==
  /\ program = "search" /\ A
  /\ UNCHANGED <<sumAll, copyvars, petersonvars, philvars, listvars, machinevars,
                 testsAll, rtvars, mapvars, readvars, intvars, program>>
OfCritical(A) ==
  /\ program = "critical" /\ A
  /\ UNCHANGED <<sumAll, copyvars, iocpvars, philvars, listvars, machinevars,
                 testsAll, rtvars, mapvars, readvars, intvars, program>>
OfPhilosophers(A) ==
  /\ program = "philosophers" /\ A
  /\ UNCHANGED <<sumAll, copyvars, iocpvars, petersonvars, listvars, machinevars,
                 testsAll, rtvars, mapvars, readvars, intvars, program>>
OfList(A) ==
  /\ program = "list" /\ A
  /\ UNCHANGED <<sumAll, copyvars, iocpvars, petersonvars, philvars, machinevars,
                 testsAll, rtvars, mapvars, readvars, intvars, program>>
OfSwitch(A) ==
  /\ program = "switch" /\ A
  /\ UNCHANGED <<sumAll, copyvars, iocpvars, petersonvars, philvars, listvars,
                 testsAll, rtvars, mapvars, readvars, intvars, program>>
OfTests(A) ==
  /\ program = "tests" /\ A
  /\ UNCHANGED <<sumAll, copyvars, iocpvars, petersonvars, philvars, listvars,
                 machinevars, rtvars, mapvars, readvars, intvars, program>>
OfPriorities(A) ==
  /\ program = "priorities" /\ A
  /\ UNCHANGED <<sumAll, copyvars, iocpvars, petersonvars, philvars, listvars,
                 machinevars, testsAll, mapvars, readvars, intvars, program>>
OfMapCopy(A) ==
  /\ program = "map copy" /\ A
  /\ UNCHANGED <<sumAll, copyvars, iocpvars, petersonvars, philvars, listvars,
                 machinevars, testsAll, rtvars, readvars, intvars, program>>
OfRead(A) ==
  /\ program = "read" /\ A
  /\ UNCHANGED <<sumAll, copyvars, iocpvars, petersonvars, philvars, listvars,
                 machinevars, testsAll, rtvars, mapvars, intvars, program>>
OfSharedInt(A) ==
  /\ program = "shared int" /\ A
  /\ UNCHANGED <<sumAll, copyvars, iocpvars, petersonvars, philvars, listvars,
                 machinevars, testsAll, rtvars, mapvars, readvars, program>>

ProgramsNext ==
  \/ OfSum(SumNext) \/ OfCopy(CopyNext) \/ OfSearch(SearchNext)
  \/ OfCritical(PetersonNext) \/ OfPhilosophers(PhilosophersNext)
  \/ OfList(ListNext) \/ OfSwitch(MachineNext)
  \/ OfTests(TestsNext) \/ OfPriorities(RTNext)
  \/ OfMapCopy(MyCopyFile) \/ OfRead(AsyncReadNext) \/ OfSharedInt(SharedIntNext)

ProgramsSpec == ProgramsInit /\ [][ProgramsNext]_programvars

\* The main thread of each program, with the answers of the devices it waits for.
MainThreadStep ==
  \/ OfSum(SumMainStep) \/ OfCopy(CopyNext) \/ OfSearch(ReadCompletes)
  \/ OfTests(TestsNext) \/ OfMapCopy(MyCopyFile) \/ OfRead(AsyncReadNext)
  \/ OfSharedInt(ReaderStep) \/ OfPriorities(Parent)

\* Windows runs every thread that can run and completes every request; a store
\* does not stay in its buffer; a philosopher gets sticks that are free.  A
\* behavior has one program, so what is said here of threads of several programs
\* together is said of those of each.
FairProgramsSpec ==
  /\ ProgramsSpec
  /\ WF_programvars(MainThreadStep)
  /\ WF_programvars(OfSharedInt(WriterStep) \/ OfPriorities(LowPriorityThread))
  /\ WF_programvars(OfPriorities(Child))
  /\ WF_programvars(OfPriorities(WatchDogThread))
  /\ \A w \in Workers : WF_programvars(OfSum(SumWorkerStep(w)))
  /\ \A t \in PortThreads : WF_programvars(OfSearch(PortThreadStep(t)))
  /\ \A i \in Ids : /\ WF_programvars(OfCritical(CounterThread(i)))
                    /\ WF_programvars(OfCritical(StoreReachesMemory(i)))
  /\ \A i \in Philosophers : WF_programvars(OfPhilosophers(Philosopher(i)))

-----------------------------------------------------------------------------
\* All calls of every adder return: no event, latch or place in the pool is missed,
\* whoever signals and however late.
SumsReturn == program = "sum" => <>[]SumsEnded

\* The copy ends, or stands where CopyStalled says; nothing else keeps it waiting.
CopyEnds == program = "copy" => <>[]CopyEnded

\* Again and again a philosopher eats, in V1 up to the circle.
PhilosophersEat == program = "philosophers" => SomebodyEats

\* Every test of the user threads comes to its end and its verdict.
TestsPass == program = "tests" => <>[]TestEnded

\* The test of the priorities ends, even where the child starves the parent.
PrioritiesEnd == program = "priorities" => <>[]SchedTestEnded

\* The three small programs end, in any order of their steps, and their result says
\* what happened: the mapped copy reports success just when it is complete, and
\* keeps nothing mapped or open; the asynchronous read shows what was read and
\* nothing else; the reader has the number only from a writer that did not fail.
ResultsAreTrue ==
  /\ program = "map copy" => <>[]MapCopyEnded
  /\ program = "read" => <>[]AsyncReadEnded
  /\ program = "shared int" => <>[]SharedIntEnded
=============================================================================
