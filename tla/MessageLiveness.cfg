SPECIFICATION MessageSpec
CONSTANTS
  msg = msg
  r1 = r1
  g1 = g1
  s1 = s1
  None = None
  Messages <- OneMessage
  Rules <- OneRule
  ActionsOf <- TagReplyNotify
  System = System
  NoMatch = NoMatch
  TeamIgnore = TeamIgnore
  Sweep = Sweep
  Nothing = Nothing
  MaxFaults = 2
  Inbound <- OneMessage
  CatchUp = CatchUp
  Loops <- OneLoop
  MinGap = 1
  MaxLookback = 2
  Automation = 1
  Window = 1
  Retries = 1
  MaxTime = 3
  MaxOutages = 1
  MaxIntakeFaults = 2
INVARIANTS
  IInv
  HandedOverOnce
  RepliedMeansQueued
  RecordedMeansDone
  HandledOnce
PROPERTIES
  EveryStoredMessageSettles
  HeldMessagesAreStored
  QueuedSyncRuns
  EverySyncReleases
CHECK_DEADLOCK FALSE
