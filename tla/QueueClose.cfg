CONSTANTS
  Threads = {t1, t2, t3}
  NULL = NULL
  MaxPuts = 3
SPECIFICATION QueueSpec
INVARIANTS QueueTakesOnlyItems
CHECK_DEADLOCK FALSE
