SPECIFICATION Spec
CONSTANTS
  t1 = t1
  t2 = t2
  Threads = {t1, t2}
  s1 = s1
  s2 = s2
  Spans = {s1, s2}
  NoSpan = NoSpan
  Words <- MixedWords
  Capacity = 2
  LowWater = 1
  MaxHeaps = 2
SYMMETRY Symmetry
INVARIANTS SpansAreAbandoned
