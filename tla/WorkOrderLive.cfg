SPECIFICATION FairSpec
CONSTANTS
  lead = lead
  left = left
  right = right
  Items <- ThreeItems
  Ordinal <- Position
  Deps <- Fan
  Assigned <- NoneAssigned
  Conflicts <- NoConflict
  Integrator = lead
  MaxNewPty = 2
  Procs = {p1, p2}
  NoItem = NoItem
  Faults = {"spawn"}
  MaxRetries = 2
  MaxTabs = 3
INVARIANT SpawnBudget
PROPERTY NoTabForBound
PROPERTY ClaimsSettle
PROPERTY LaunchesSettle
