SPECIFICATION Spec
CONSTANTS
  Sources = {s1}
  Procs = {p1, p2}
  MaxVersion = 2
  MaxEvent = 1
  CanCrash = TRUE
SYMMETRY Interchangeable
INVARIANT TypeOK
INVARIANT SealedIsCurrent
PROPERTY SealIsFinal
