SPECIFICATION MCSpec
CONSTANTS
  c1 = c1
  c2 = c2
  i1 = i1
  i2 = i2
  r1 = r1
  r2 = r2
  r3 = r3
  p1 = p1
  p2 = p2
  Openers = {p1, p2}
  MaxRevision = 1
  MaxAttempts = 2
  Callers = {c1, c2}
  Ids = {i1, i2}
  Refs = {r1, r2, r3}
  Nil = Nil
  Empty = Empty
  MaxEdits = 2
  MaxStops = 1
SYMMETRY Symmetric
CONSTRAINT Small
CHECK_DEADLOCK FALSE
INVARIANTS RepositoryIsAgreedOn
PROPERTIES ImportsKeepSecrets
