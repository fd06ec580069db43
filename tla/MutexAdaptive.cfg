SPECIFICATION Spec
CONSTANTS
  Threads = {t1, t2}
  NoThread = NoThread
  RawKinds <- AdaptiveOnly
  MaxCalls = 1
  Spins = 1
PROPERTY HolderMayUnlock
CHECK_DEADLOCK FALSE
