CONSTANTS
  Threads = {t1, t2, t3}
  NULL = NULL
  SpinCount = 1
  MaxRecursionCount = 2
  MaxRounds = 2
  initialCount = 2
  MaxResets = 2
  MaxPuts = 3
  maxItems = 2
  MaxSQueuePuts = 4
SPECIFICATION FairWinSynchSpec
INVARIANTS UMtxExclusion UMtxNoLostWakeup CB_Rendezvous CDL_WaitsForAll QueuePermitsMatch SQueueAccounts
PROPERTIES CallsReturn
CHECK_DEADLOCK FALSE
