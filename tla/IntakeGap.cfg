SPECIFICATION IntakeSpec
CONSTANTS
  m1 = m1
  m2 = m2
  Inbound <- TwoMessages
  CatchUp = CatchUp
  Loops <- OneLoop
  MinGap = 1
  MaxLookback = 4
  Automation = 1
  Window = 1
  Retries = 1
  MaxTime = 4
  MaxOutages = 1
  MaxIntakeFaults = 0
PROPERTIES RecoveredMeansNothingMissed
CHECK_DEADLOCK FALSE
