SPECIFICATION MCSpec
CONSTANTS
  k1 = k1
  k2 = k2
  d1 = d1
  d2 = d2
  Calls = {k1, k2}
  Databases = {d1, d2}
  None = None
  Clients <- MCClients
  NoValue = None
  Engines = {"PostgreSQL", "MySQL", "SQLite", "SQLServer", "ClickHouse", "MongoDB", "Redis"}
  MainDb = main
  OtherDbs = {other}
  Schema = schema
  Batches = {b1, b2}
  BatchSize = 2
  MaxScript = 2
  MaxRevision = 2
  MaxGeneration = 2
SYMMETRY Symmetric
CHECK_DEADLOCK FALSE
INVARIANTS  ScriptsReadBack 
 
