SPECIFICATION Spec
CONSTANTS
  g1 = g1
  s1 = s1
  s2 = s2
  None = None
  Groups <- OneGroup
  Syncs <- TwoSlots
  Watched = FALSE
  MaxAttempts = 1
  StableReads = 1
  HoldMin = 1
  HoldPerCent = 10
  Limit <- OneCommand
INVARIANTS OneReadAtATime
CHECK_DEADLOCK FALSE
