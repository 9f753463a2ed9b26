SPECIFICATION Spec
CONSTANTS
  Docs = {d1}
  Blobs = {b1, b2}
  Calls = {c1, c2}
  NoDoc = NoDoc
  NoFile = NoFile
  Asked = {}
  Ops = {"upload", "approve", "delete", "ask", "withdraw"}
  SavesMayFail = TRUE
  MayCrash = TRUE
SYMMETRY Symmetry
CHECK_DEADLOCK FALSE
INVARIANTS ReviewedHasFile FilesKept
