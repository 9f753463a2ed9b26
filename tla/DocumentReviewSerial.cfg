SPECIFICATION FairSpec
CONSTANTS
  Docs = {d1, d2}
  Blobs = {b1, b2}
  Calls = {c1}
  NoDoc = NoDoc
  NoFile = NoFile
  Asked = {d1, d2}
  Ops = {"upload", "approve", "reject", "reanalyze", "delete", "withdraw"}
  SavesMayFail = TRUE
  MayCrash = FALSE
CHECK_DEADLOCK FALSE
INVARIANT NoOrphans
PROPERTIES ImplementsDesk AnalysisAnswered
