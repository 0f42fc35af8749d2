SPECIFICATION RacesSpec
CONSTANTS
  auto = auto
  foreign = foreign
  manual = manual
  d1 = d1
  d2 = d2
  d3 = d3
  c1 = c1
  g1 = g1
  p1 = p1
  a1 = a1
  Rows <- ThreeRows
  ManualRows <- OnlyManual
  ForeignRows <- OnlyForeign
  Operators <- TwoOperators
  MaxAttempts = 2
  MaxDeferrals = 1
  MaxManualRetries = 1
  Cases <- OneCase
  Groups <- OneGroup
  Members <- OneMember
  Admins <- OneAdmin
  Nobody = Nobody
  Reachable <- BothPeople
  CanMute = FALSE
  Dashboards <- OneDashboard
  Requests <- EveryKind
  MaxEscalations = 2
  MaxCaseFaults = 1
SYMMETRY Interchangeable
CHECK_DEADLOCK FALSE
PROPERTIES
  ImplementsReplyDelivery
INVARIANTS
  IInv
  NoUnconfirmedDuplicate
  HonestStatus
  SettledStaysUnsent
  ManualRetriesBounded
  PauseLeaksAtMostOne
  RetryBudgetRespected
  AlertedOnce
  NoTierSkipped
