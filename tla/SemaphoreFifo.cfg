CONSTANTS
  Threads = {t1, t2, t3}
  Main = Main
  NULL = NULL
  MaxRecursion = 2
  InitialState = TRUE
  MaxSets = 0
  InitialPermits = 1
  Limit = 2
  MaxULong = 7
  Requests = {1, 2}
  Releases = {1, 2}
  MaxSupply = 3
SPECIFICATION SpecUSynch
PROPERTIES FifoOrder
CHECK_DEADLOCK FALSE
