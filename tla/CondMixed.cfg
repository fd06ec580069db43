SPECIFICATION FairSpec
CONSTANTS
  Waiters = {w1, w2}
  Signalers = {s1}
  Kinds = {"signal", "broadcast"}
  FifoWake = TRUE
  MayDestroy = TRUE
  MaxTickets = 3
  MaxCalls = 2
INVARIANTS GroupsAndDestroy
PROPERTY CallsTakeEffect
CHECK_DEADLOCK FALSE
