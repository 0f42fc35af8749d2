SPECIFICATION QueuesSpec
CONSTANTS
  g1 = g1
  g2 = g2
  one = one
  other = other
  t1 = t1
  m1 = m1
  p1 = p1
  p2 = p2
  c1 = c1
  c2 = c2
  i1 = i1
  None = None
  Groups <- OneGroup
  Syncs <- OneAndOther
  Watched = FALSE
  MaxAttempts = 1
  StableReads = 1
  HoldMin = 1
  HoldPerCent = 10
  Limit <- OneOfEach
  Mails <- TestAndMessage
  TestMails <- OneTest
  Workers <- OneAndOther
  Savers <- TwoSavers
  Connections <- TwoConnections
  EmailMaxAttempts = 2
  MaxPerMinute = 1
  Minute = 0
  Stuck = 0
  MaxTime = 2
  MaxVersion = 2
  MaxCrashes = 1
  Items <- OneItem
  Dashboards <- OneAndOther
  Requests <- EveryAddRequest
  AddMaxAttempts = 2
  MaxRequests = 3
  MaxFaults = 1
SYMMETRY Interchangeable
PROPERTIES
  EmailImplementsDelivery
INVARIANTS
  OneSyncPerGeneration
  CancelStopsWrites
  AcceptedAtMostOnce
  HonestOutcome
  WithinLimit
  VerifiedWasTested
  AttemptsWithinAllowance
  StopLeaksOneAdd
CHECK_DEADLOCK FALSE
