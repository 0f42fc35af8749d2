SPECIFICATION QueuesSpec
CONSTANTS
  auto = auto
  manual = manual
  j1 = j1
  r1 = r1
  r2 = r2
  d1 = d1
  c1 = c1
  p1 = p1
  a1 = a1
  Jobs <- OneJob
  Rows <- TwoRows
  JobOf <- SameJob
  ForeignRows <- OneForeign
  Dashboards <- OneDashboard
  Requests <- CancelAndRetry
  MaxAttempts = 2
  MaxFaults = 1
PROPERTIES
  EveryReplySettles
  StoppedJobDrains
  EveryOpenCaseClimbs
CHECK_DEADLOCK FALSE
