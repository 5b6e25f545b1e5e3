CONSTANTS
  Threads = {t1, t2, t3, t4}
  Main = Main
  NULL = NULL
SPECIFICATION FairSpec
INVARIANTS OnePlace
PROPERTIES ReadyThreadRuns KeepsPromise
