SPECIFICATION Spec
CONSTANTS
  MaxOutput = 2
  QueueCap = 2
  BatchMax = 2
  Window = 2
  HiddenBudget = 1
  StaleLimit = 2
  PendingCap = 4
  Hidings = {"window"}
  Troubles <- Switching
  MaxTroubles = 3
CHECK_DEADLOCK FALSE
PROPERTY CatchesUp
