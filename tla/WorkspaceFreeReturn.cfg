SPECIFICATION Spec
CONSTANTS
  Calls = {c1}
  NoEvent = NoEvent
  MaxPlan = 2
  MaxEvents = 4
  Rows = {1, 2}
  Ops = {"change"}
  InOrder = TRUE
  MayFail = FALSE
CHECK_DEADLOCK FALSE
PROPERTY ActiveMeansPaid
