SPECIFICATION Spec
CONSTANTS
  lead = lead
  left = left
  right = right
  Items <- ThreeItems
  Ordinal <- Position
  Deps <- Fan
  Assigned <- NoneAssigned
  Conflicts <- SharedScope
  Integrator = lead
  MaxNewPty = 2
  Procs = {p1, p2}
  NoItem = NoItem
  Faults = {"crash", "lost", "emit", "io", "reload", "spawn"}
  MaxRetries = 2
  MaxTabs = 2
SYMMETRY Commands
INVARIANT TypeOK
INVARIANT DependenciesVerified
INVARIANT NoConflictingWriters
INVARIANT LaunchAgreesWithItem
INVARIANT LaunchIsDurableFirst
PROPERTY KeepsThePlan
