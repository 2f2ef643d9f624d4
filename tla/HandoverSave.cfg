SPECIFICATION Spec
CONSTANTS
  main = main
  w1 = w1
  s0 = s0
  s1 = s1
  Windows <- TwoWindows
  Main = main
  Workspaces <- HomeAndAway
  Nobody = Nobody
  SavedGroup <- Apart
  Savers <- TwoWindows
  Faults = {"crash", "kill", "spawn", "slow"}
CHECK_DEADLOCK FALSE
PROPERTY SaveIsAdditive
