SPECIFICATION Spec
CONSTANTS
  Bills = {i1}
  Rows = {r1, r2}
  Calls = {c1, c2}
  NoBill = NoBill
  NoRow = NoRow
  NoEvent = NoEvent
  Price = 2
  MaxFaults = 1
  Ops = {"settle", "refund", "raise"}
  MayCrash = TRUE
  Redelivers = TRUE
SYMMETRY Symmetry
CHECK_DEADLOCK FALSE
INVARIANTS BooksKept RefundedMeansReturned
