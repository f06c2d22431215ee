SPECIFICATION ShownSpec
CONSTANTS
  empty = empty
  short = short
  long = long
  first_chunk = first_chunk
  last_chunk = last_chunk
  None = None
  Names = {a, b}
  Contents = {empty, short}
  ContentLen <- MCContentLen
  Chunks <- MCChunks
  MaxId = 3
  MaxSourceLen = 26
  HEADER_SIZE = 1
  SEGMENT_HEADER_SIZE = 3
  DIRECTORY_ENTRY_SIZE = 3
  FILE_ENTRY_SIZE = 6
  FirstDirsCapacity = 1
  FirstFilesCapacity = 1
  DirsCapacity = 1
  FilesCapacity = 1
SYMMETRY MCSymmetry
INVARIANTS
  DiskHoldsTheTable
PROPERTIES
  DiskImplementsFileTree
CHECK_DEADLOCK FALSE
