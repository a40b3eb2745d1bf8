SPECIFICATION Spec
CONSTANTS
  Credentials = {c1, c2}
  Tokens = {t1, t2}
  m1 = m1
  m2 = m2
  x = x
  y = y
  Manifests = {m1, m2}
  Scopes = {x, y}
  Requires <- RequiresValue
  Calls = {k1}
  None = None
  MaxEpoch = 2
CONSTRAINT EpochBound
SYMMETRY Symmetry
INVARIANTS SameRevision IssuedWithScopes OverlapOnly
PROPERTY NoResurrection
