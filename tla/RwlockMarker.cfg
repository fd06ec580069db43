SPECIFICATION Spec
CONSTANTS
  Threads = {t1, t2, t3}
  NoThread = NoThread
  Kinds = {"PreferReader"}
  Ops = {"rd", "wr"}
  MaxReaders = 10
  MaxCalls = 4
SYMMETRY Symmetry
INVARIANT MarkerSurvives
CHECK_DEADLOCK FALSE
