CONSTANTS
  Threads = {t1, t2, t3}
  Main = Main
  NULL = NULL
  MaxRecursion = 2
  InitialState = FALSE
  MaxSets = 1
  InitialPermits = 1
  Limit = 2
  MaxULong = 7
  Requests = {1, 2}
  Releases = {1, 2}
  MaxSupply = 3
SPECIFICATION FairSpecUSynch
INVARIANTS OwnerIsExact WaitersAreParked SignalsAreExact HeadMustWait NoPermitInvented
PROPERTIES HeadOvertakenBySmaller AcquireReturns
CHECK_DEADLOCK FALSE
