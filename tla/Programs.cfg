CONSTANTS
  Workers = {w1, w2}
  NoUnit = NoUnit
  MAXITEMS = 1
  Adders = {"ParallelSum", "ParallelArraySum", "ParallelSumTP", "ParallelSumTPMW", "ParallelSumTPCDL", "ParallelSumSOTPCDL", "ParallelAdder", "ParallelAdderTP"}
  nParts = 2
  Sizes = {1, 4, 5}
  NTRIES = 2
  NOPERS = 1
  BUFFER_SIZE = 2
  FileSizes = {0, 1, 2, 3, 4, 5}
  IOMayFail = TRUE
  PortThreads = {w1, w2}
  Searches = 2
  FileBlocks = {0, 1, 2}
  ReadsMayFail = TRUE
  CounterTries = 2
  NSTICKS = 5
  Entries = {e1, e2, e3}
  ListHead = ListHead
  Stacks = {s1, s2}
  MainStack = MainStack
  Builds = {"March32", "March64", "April32", "April64", "Join32", "Join64", "Multicore32"}
  Threads = {t1, t2}
  Main = Main
  NULL = NULL
  Libraries = {"April32", "Join"}
  Garbage = Garbage
  NTHREADS = 2
  NITERS = 2
  MapFileSizes = {0, 1, 2, 3, 5}
  BLOCKSIZE = 2
  ReadLengths = {0, 1, 3}
  Width = 3
  Numbers = {1, 2}
SPECIFICATION FairProgramsSpec
INVARIANTS SumIsComplete PoolPermitsMatch CopyIsComplete SearchAnswersOnce PetersonExclusion ListIsRing ContextRestored
PROPERTIES SumsReturn CopyEnds SearchesEnd PetersonEnters PhilosophersEat TestsPass PrioritiesEnd ResultsAreTrue
CHECK_DEADLOCK FALSE
