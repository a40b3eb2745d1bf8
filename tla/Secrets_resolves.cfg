SPECIFICATION Spec
CONSTRAINT Apart
CONSTANTS
  Secrets = {s1, s2}
  TokenGrants = {s1}
  Requests = {r1}
  MaxVersion = 2
  MaxLife = 1
  MaxDigest = 2
  None = None
INVARIANTS HeldIsCurrent OldTokensAdmitNothing
PROPERTIES ServedOnPresentGrant
