SPECIFICATION PathsSpec
CONSTANTS
  a = a
  b = b
  bad = bad
  c = c
  Names = {a, b}
  InvalidNames = {bad}
  Contents = {c}
  Ids = {1, 2, 3}
  RawPaths <- MCRawPaths
INVARIANTS
  PathsMeanWhatTheySay
  PathsLeadBack
  CallsDoAllOrNothing
  CutOffCallCanBeRepeated
PROPERTIES
  ImplementsPathStore
CHECK_DEADLOCK FALSE
