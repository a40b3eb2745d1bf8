SPECIFICATION AdminSpec
CONSTANTS
  Accounts = {a1, m}
  Managed = m
  Sessions = {s1, s2}
  Logins = {l1, l2}
  MaxEpoch = 2
  Nobody = Nobody
SYMMETRY Symmetry
CONSTRAINT Focused
INVARIANTS SessionProvesCredentials RevocationReachesLogins
