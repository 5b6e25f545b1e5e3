CONSTANTS
  Threads = {t1, t2}
  Main = Main
  NULL = NULL
  Libraries = {"April64"}
  Garbage = Garbage
SPECIFICATION AprilSpec
INVARIANTS OnlyThreadsReady
CHECK_DEADLOCK FALSE
