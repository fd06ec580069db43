SPECIFICATION Spec
CONSTANTS
  Waiters = {w1, w2, w3}
  Signalers = {s1, s2}
  Kinds = {"signal"}
  FifoWake = TRUE
  MayDestroy = FALSE
  MaxTickets = 3
  MaxCalls = 2
SYMMETRY Symmetry
INVARIANTS SignalsDelivered NoStolenSignal SignalersAreRemembered
CHECK_DEADLOCK FALSE
