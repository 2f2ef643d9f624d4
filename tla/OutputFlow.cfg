SPECIFICATION Spec
CONSTANTS
  MaxOutput = 2
  QueueCap = 1
  BatchMax = 2
  Window = 1
  HiddenBudget = 1
  StaleLimit = 2
  PendingCap = 1
  Hidings = {"window", "pane"}
  Troubles <- AllTroubles
  MaxTroubles = 3
CHECK_DEADLOCK FALSE
INVARIANT TypeOK
INVARIANT LossIsKnown
INVARIANT ScreenIsComplete
INVARIANT ShownOnceUntilRecovery
PROPERTY CatchesUpOrIsOwed
