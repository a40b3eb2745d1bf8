SPECIFICATION FairSpec
CONSTANTS
  Evaluations = {e1, e2}
  Orders = {o1}
  Workers = {w1}
  Report <- DispatchOnly
  Gates = {"dispatch"}
  MaxRevision = 2
  Crashes = TRUE
  None = None
INVARIANTS HandedIsShown OneRun
PROPERTIES RunsSettle
CHECK_DEADLOCK FALSE
