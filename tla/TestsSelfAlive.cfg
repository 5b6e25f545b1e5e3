CONSTANTS
  Threads = {t1, t2}
  Main = Main
  NULL = NULL
  Libraries = {"April32"}
  Garbage = Garbage
  NTHREADS = 2
  NITERS = 2
SPECIFICATION TestsSpec
INVARIANTS RunningThreadIsAlivePasses
CHECK_DEADLOCK FALSE
