CONSTANTS
    a1 = a1  a2 = a2  k1 = k1  k2 = k2  r1 = r1  r2 = r2  r3 = r3  e1 = e1  e2 = e2  c1 = c1  c2 = c2
    Connections = {c1, c2}
    Apps = {a1, a2}
    Clients = {k1}
    References = {r1, r2}
    Endpoints = {e1, file}
    FileEndpoint = file
    None = None
    MaxRevision = 3
SYMMETRY Symmetric
CONSTRAINT OneProfileOrOneEndpoint
SPECIFICATION Spec
INVARIANTS SecretStaysWithEndpoint LeasedConfigIsCurrent SecretsFitProfiles
