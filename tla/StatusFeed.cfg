SPECIFICATION FairSpec
CONSTANTS
  s1 = s1
  s2 = s2
  client = client
  attention = attention
  tab = tab
  Order <- TwoSessions
  Remote = {client}
  Local = {attention}
  Page = tab
  Kept <- KeptOfSecond
  Casts <- OneEach
  Capacity = 1
  MaxWire = 1
  MaxInput = 2
CHECK_DEADLOCK FALSE
INVARIANT TypeOK
INVARIANT MirrorIsCurrent
INVARIANT WindowIsCurrent
PROPERTY OnlyResyncLosesStep
PROPERTY CatchesUp
PROPERTY ProjectionSettles
