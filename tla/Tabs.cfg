SPECIFICATION MCSpec
CONSTANTS
  None = None
  Null = Null
  Unset = Unset
  Invalid = Invalid
  Pages <- PagesValue
  Inputs <- InputsValue
  Pasted <- PastedValue
  PrimaryKeys = {1}
  Writable = TRUE
  NoOptions = o1
  Options = {o1, o2}
  MaxPage = 2
  MaxLoads = 2
  MaxSaves = 1
  MaxDrafts = 1
  MaxHistory = 2
  Nothing = Nothing
  Texts = {Empty, t1, t2}
  Paths = {p1, p2}
  Databases = {d1, d2}
  SchemasOf <- MCSchemas
  Limits <- MCLimits
  Empty = Empty
  Broken = Broken
  t1 = t1
  t2 = t2
  p1 = p1
  p2 = p2
  d1 = d1
  d2 = d2
  s1 = s1
INVARIANTS UndoRestoresThePage QueryTabIsTrue
PROPERTIES SavesAreAsShown
