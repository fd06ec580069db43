SPECIFICATION FairSpec
CONSTANTS
  t1 = t1
  t2 = t2
  Threads = {t1, t2}
  s1 = s1
  s2 = s2
  Spans = {s1, s2}
  NoSpan = NoSpan
  Words <- TwoWords
  Capacity = 2
  LowWater = 1
  MaxHeaps = 3
INVARIANTS HeapsConsistent OwnerHoldsSpan
PROPERTIES ImplementsAllocator NullMeansExhausted EveryCallReturns
