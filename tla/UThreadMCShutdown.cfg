CONSTANTS
  Threads = {t1, t2}
  processorsNumber = 2
  Main = Main
  NULL = NULL
  MaxDWORD = 7
SPECIFICATION Spec
INVARIANTS NothingReadyAtEnd
CHECK_DEADLOCK FALSE
