SPECIFICATION IterSpec
CONSTANTS
  c = c
  Names = {1, 2}
  Contents = {c}
  Ids = {1, 2, 3, 4}
  NameOrder <- MCNameOrder
INVARIANTS
  PathsAreUnique
  EveryItemHasAPath
  YieldsInOrder
PROPERTIES
  IterationEnds
