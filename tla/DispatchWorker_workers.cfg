SPECIFICATION FairSpec
CONSTANTS
  Workers = {w1, w2, w3}
  Dispatches = {d1}
  MaxAttempts = 3
  CircuitThreshold = 3
  InsertState = "QUEUED"
INVARIANTS LedgerGapless DeliveredIsLast SingleAcknowledger
PROPERTIES ImplementsLifecycle ComesToRest
