SPECIFICATION Spec
CONSTANTS
  LastSequence = 3
  Contents = {a, b}
  Revisions = {r1, r2}
  Callers = {k1, k2}
SYMMETRY Symmetry
INVARIANTS ChainIntact NoFalseConflict GapReported
PROPERTY ImplementsLog
