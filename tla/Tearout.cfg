SPECIFICATION FairSpec
CONSTANTS
  MaxWindows = 2
  Faults = {"changed", "destroy"}
  MaxMounts = 2
  MaxCrashes = 1
  MaxRetries = 1
CHECK_DEADLOCK FALSE
INVARIANTS
  TypeOK
  RevokedIsOut
  OneScreen
  NeverNowhere
  SettledIsAttached
PROPERTY ReservationEnds
