CONSTANTS
  Threads = {t1, t2, t3}
  Main = Main
  NULL = NULL
SPECIFICATION FairSpecJoin
INVARIANTS ParkedAreJoining
PROPERTIES JoinReturns
CHECK_DEADLOCK FALSE
