SPECIFICATION CaseSpec
CONSTANTS
  c1 = c1
  c2 = c2
  g1 = g1
  m1 = m1
  a1 = a1
  d1 = d1
  Nobody = Nobody
  Cases <- OneCase
  Groups <- OneGroup
  Members <- OneMember
  Admins <- OneAdmin
  Reachable <- AllReachable
  Dashboards <- NoDashboards
  Requests <- NoRequests
  CanMute = FALSE
  MaxEscalations = 4
  MaxCaseFaults = 0
PROPERTIES StopsForGood
CHECK_DEADLOCK FALSE
