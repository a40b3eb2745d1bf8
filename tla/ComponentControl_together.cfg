SPECIFICATION ControlSpec
CONSTANTS
  Commands = {d1, d2}
  Callers = {k1, k2}
  MaxEpoch = 4
CONSTRAINT EpochBound
SYMMETRY Symmetry
INVARIANTS OpenConsistent EpochsTellApart CompletedHasEvidence
PROPERTY OpenOnlyConfirmed
