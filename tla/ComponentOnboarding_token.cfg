SPECIFICATION Spec
CONSTANTS
  Jobs = {j1, j2}
  Keys = {x1, x2}
  Manifests = {src, m1}
  Sources = {src}
  Callers = {k1, k2, k3}
  MaxLock = 2
  None = None
CONSTRAINT Bounded
SYMMETRY Alike
INVARIANTS OneHandOff CancelledIsUnusable ActiveIsHandedOff HeldUntilHandOff
PROPERTY HandedOffIsFinal
CHECK_DEADLOCK FALSE
