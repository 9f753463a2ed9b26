SPECIFICATION Spec
CONSTANTS
  Calls = {c1}
  NoEvent = NoEvent
  MaxPlan = 3
  MaxEvents = 3
  Rows = {1, 2}
  Ops = {"change", "cancel", "status", "override", "dashboard"}
  InOrder = TRUE
  MayFail = TRUE
CHECK_DEADLOCK FALSE
INVARIANTS CancelledNotBilled PlanFollowsStripe
PROPERTY ChangesAllowed
