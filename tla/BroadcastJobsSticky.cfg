SPECIFICATION Spec
CONSTANTS
  j1 = j1
  r1 = r1
  r2 = r2
  d1 = d1
  Jobs <- OneJob
  Rows <- TwoRows
  JobOf <- SameJob
  ForeignRows <- NoForeign
  Dashboards <- OneDashboard
  Requests <- OnlyCancel
  MaxAttempts = 1
  MaxFaults = 0
PROPERTIES StopsAreSticky
