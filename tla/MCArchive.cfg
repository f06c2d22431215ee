SPECIFICATION Spec
CONSTANTS
  empty = empty
  short = short
  other = other
  long = long
  None = None
  Names = {a, b}
  Contents = {empty, short, long}
  ContentLen <- MCContentLen
  MaxId = 4
  MaxSourceLen = 10
  HEADER_SIZE = 1
  SEGMENT_HEADER_SIZE = 1
  DIRECTORY_ENTRY_SIZE = 1
  FILE_ENTRY_SIZE = 1
  FirstDirsCapacity = 1
  FirstFilesCapacity = 1
  DirsCapacity = 2
  FilesCapacity = 1
SYMMETRY MCSymmetry
INVARIANTS
  TypeOK
  IndexMatchesTable
  CanBeReopened
  ZonesApart
  CoverageKnowsAll
  IdsUnique
  EverythingReachable
PROPERTIES
  SmallerContentFits
  ImplementsFileTree
CHECK_DEADLOCK FALSE
