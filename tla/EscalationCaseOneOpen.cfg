SPECIFICATION CaseSpec
CONSTANTS
  c1 = c1
  c2 = c2
  g1 = g1
  m1 = m1
  a1 = a1
  d1 = d1
  Nobody = Nobody
  Cases <- TwoCases
  Groups <- OneGroup
  Members <- OneMember
  Admins <- OneAdmin
  Reachable <- AllReachable
  Dashboards <- OneDashboard
  Requests <- PauseAndHurry
  CanMute = FALSE
  MaxEscalations = 4
  MaxCaseFaults = 0
INVARIANTS OneOpenCasePerChat
CHECK_DEADLOCK FALSE
