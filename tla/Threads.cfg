SPECIFICATION ThreadsSpec
CONSTANTS
  Threads = {t1, t2, t3}
  NoThread = NoThread
  RawKinds <- AllRawKinds
  MaxCalls = 4
  Spins = 1
  InitialWords <- InitAndCorrupt
  OnceCalls = 2
  StreamCalls = 3
  Main = main
  Workers = {a, b, c}
  Regions = {r1, r2}
  Reuse = FALSE
  DetachAttrs = {TRUE, FALSE}
  MayDetach = TRUE
  NoRegion = nowhere
  KeyThreads = {t1, t2}
  KeysMax = 2
  Iterations = 2
  KeyCalls = 5
INVARIANTS OwnerRecordsHolder ParkedIsRemembered OnceOnly ThreadsEndClean NoStaleValue
PROPERTIES ImplementsLock ImplementsStreamLock DestructorGetsOwnLife EveryPartReturns
CHECK_DEADLOCK FALSE
