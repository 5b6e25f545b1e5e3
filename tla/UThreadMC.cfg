CONSTANTS
  Threads = {t1, t2, t3}
  processorsNumber = 2
  Main = Main
  NULL = NULL
  MaxDWORD = 7
SPECIFICATION FairSpec
INVARIANTS HomeOnly NoThreadLost
PROPERTIES ReadyThreadRuns
CHECK_DEADLOCK FALSE
