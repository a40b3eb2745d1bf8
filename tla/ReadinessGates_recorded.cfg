SPECIFICATION Spec
CONSTANTS
  Evaluations = {e1}
  Orders = {}
  Workers = {w1}
  Report <- AllRows
  Gates = {"e2e", "lease", "dispatch", "auth"}
  MaxRevision = 1
  Crashes = FALSE
  None = None
PROPERTIES EvidenceRecorded
CHECK_DEADLOCK FALSE
