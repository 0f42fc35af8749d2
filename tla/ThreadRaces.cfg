SPECIFICATION RacesSpec
CONSTANTS
  j1 = j1
  b1 = b1
  b2 = b2
  d1 = d1
  d2 = d2
  r1 = r1
  r2 = r2
  m1 = m1
  Jobs <- OneJob
  Rows <- TwoRows
  JobOf <- SameJob
  ForeignRows <- NoForeign
  Dashboards <- TwoDashboards
  Requests <- ThreeKinds
  MaxAttempts = 1
  MaxFaults = 1
  Replies <- TwoReplies
  Elsewhere <- OneElsewhere
  Desks <- TwoDashboards
  TextOf <- Texts
  NoId = NoId
  SendMaxAttempts = 2
  MaxResends = 1
  MaxMishaps = 2
SYMMETRY Interchangeable
CHECK_DEADLOCK FALSE
PROPERTIES
  ImplementsDelivery
INVARIANTS
  GroupGetsItOnce
  HonestOutcome
  StopLeaksAtMostOne
  ThreadIInv
  CopiesAreConfirmed
  StatusIsTrue
  OwnEchoIsRecognised
