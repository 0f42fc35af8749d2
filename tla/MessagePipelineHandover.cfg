SPECIFICATION Spec
CONSTANTS
  m1 = m1
  r1 = r1
  System = System
  NoMatch = NoMatch
  TeamIgnore = TeamIgnore
  Sweep = Sweep
  Nothing = Nothing
  Messages <- OneMessage
  Rules <- OneRule
  ActionsOf <- ReplyAndNotify
  MaxFaults = 1
INVARIANTS HandoverReachesThePeople
CHECK_DEADLOCK FALSE
