SPECIFICATION FairSpec
CONSTANTS
  Workers = {w1}
  Dispatches = {d1}
  MaxAttempts = 2
  CircuitThreshold = 2
  InsertState = "PENDING"
PROPERTY ComesToRest
