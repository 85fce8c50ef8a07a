SPECIFICATION Spec
CONSTANTS
  a1 = a1
  a2 = a2
  s1 = s1
  r1 = r1
  r2 = r2
  Apps = {a1, a2}
  Sidecars = {s1}
  References = {r1, r2}
  None = None
  MaxKeys = 2
SYMMETRY Symmetric
INVARIANTS  SecretsLiveUntilDeleted
