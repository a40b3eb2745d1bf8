SPECIFICATION Spec
CONSTRAINT InTime
CONSTANTS
  Jobs = {j1}
  Workers = {w1, w2}
  MaxSource = 2
  None = None
INVARIANTS GivenUpNotServed ArtifactOfSource
PROPERTIES ImplementsJobLifecycle ExpiredIsDecided
CHECK_DEADLOCK FALSE
