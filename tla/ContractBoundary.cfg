SPECIFICATION Spec
CONSTANTS
  Sources = {s1}
  Procs = {p1, p2}
  MaxVersion = 1
  MaxEvent = 1
  CanCrash = FALSE
SYMMETRY Interchangeable
CHECK_DEADLOCK FALSE
INVARIANT BoundaryMatchesHandoff
