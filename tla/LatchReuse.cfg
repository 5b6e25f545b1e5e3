CONSTANTS
  Threads = {t1, t2, t3}
  NULL = NULL
  initialCount = 2
  MaxResets = 1
SPECIFICATION CDL_ReuseSpec
INVARIANT CDL_Completion
CHECK_DEADLOCK FALSE
