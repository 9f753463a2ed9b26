SPECIFICATION CaseworkSpec
CONSTANTS
  Nobody = Nobody
  Nothing = Nothing
  Callers = {c1, c2}
  Clerk = Clerk
  Cases = {k1, k2}
  NoCase = NoCase
  DocsAt <- MCDocsAt
  LastAt <- MCLastAt
  OpsAt <- MCOpsAt
  DraftsAt <- MCDraftsAt
  CrashAt <- MCCrashAt
  Tasks = {"t1"}
  Files = {"f1", "f2"}
  Partners = {"p1"}
  Client = "client"
  Last = 3
  FilingStage = 1
  ResponseStage = 2
  FixedLadder = TRUE
  Fields = {"f1"}
  Papers = {"d1"}
  Attachments = {"b1"}
  Keys = {"k1"}
  Defaults = {"k1"}
  MaxRows = 3
  Names = {"n1", "n2"}
  Procedures = {"p1", "p2"}
  MaxEdits = 1
  Copies = {"x1"}
  Workers = {"w1"}
  Readers = {"r1", "r2"}
SYMMETRY Symmetry
CHECK_DEADLOCK FALSE
INVARIANTS CaseworkTyped PendingUntouched CaseFollowsRequest DeliverableStored FileKept AreasOnce
PROPERTIES CaseStepsKept
