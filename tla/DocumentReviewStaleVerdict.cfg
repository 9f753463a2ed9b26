SPECIFICATION Spec
CONSTANTS
  Docs = {d1}
  Blobs = {b1, b2}
  Calls = {c1}
  NoDoc = NoDoc
  NoFile = NoFile
  Asked = {d1}
  Ops = {"upload"}
  SavesMayFail = FALSE
  MayCrash = FALSE
SYMMETRY Symmetry
CHECK_DEADLOCK FALSE
INVARIANT VerdictOfCurrentFile
