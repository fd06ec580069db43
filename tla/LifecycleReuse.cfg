SPECIFICATION Spec
CONSTANTS
  Main = main
  Workers = {a, b}
  Regions = {r1}
  Reuse = TRUE
  DetachAttrs = {TRUE, FALSE}
  MayDetach = TRUE
  NoThread = none
  NoRegion = nowhere
SYMMETRY Symmetry
INVARIANT TidZeroMeansGone
CHECK_DEADLOCK FALSE
