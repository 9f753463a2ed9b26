SPECIFICATION FairSpec
CONSTANTS
  Bills = {i1}
  Rows = {r1, r2}
  Calls = {c1, c2}
  NoBill = NoBill
  NoRow = NoRow
  NoEvent = NoEvent
  Price = 2
  MaxFaults = 0
  Ops = {}
  MayCrash = TRUE
  Redelivers = TRUE
CHECK_DEADLOCK FALSE
PROPERTY PaymentsRecorded
