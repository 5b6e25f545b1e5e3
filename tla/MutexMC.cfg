CONSTANTS
  Threads = {t1, t2, t3}
  processorsNumber = 2
  Main = Main
  NULL = NULL
  MaxDWORD = 7
  MaxRecursion = 2
SPECIFICATION FairSpecMutexMC
INVARIANTS OwnerIsExact WaitersAreKnown
PROPERTIES AcquireReturns
CHECK_DEADLOCK FALSE
