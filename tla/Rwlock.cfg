SPECIFICATION FairSpec
CONSTANTS
  Threads = {t1, t2, t3}
  NoThread = NoThread
  Kinds = {"PreferReader", "PreferWriter", "PreferWriterNonrecursive"}
  Ops = {"rd", "tryrd", "wr", "trywr"}
  MaxReaders = 3
  MaxCalls = 4
INVARIANTS NobodyForgotten
PROPERTIES ImplementsSharedLock NoReaderOvertakes EveryCallReturns
CHECK_DEADLOCK FALSE
