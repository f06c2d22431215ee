SPECIFICATION SpecWithFailedReplace
CONSTANTS
  empty = empty
  short = short
  other = other
  long = long
  None = None
  Names = {a, b}
  Contents = {short, other}
  ContentLen <- MCContentLen
  MaxId = 4
  MaxSourceLen = 9
  HEADER_SIZE = 1
  SEGMENT_HEADER_SIZE = 1
  DIRECTORY_ENTRY_SIZE = 1
  FILE_ENTRY_SIZE = 1
  FirstDirsCapacity = 1
  FirstFilesCapacity = 1
  DirsCapacity = 1
  FilesCapacity = 1
INVARIANTS
  OpenNeverPanics
CHECK_DEADLOCK FALSE
