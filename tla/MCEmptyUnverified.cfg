SPECIFICATION MCSpec
CONSTANTS
  Bytes = {0, 1}
  MaxLen = 6
  MaxRead = 4
  MaxWrite = 2
  Capacity = 3
  Base = 5
  Width = 2
  Lead = 3
  Trail = 4
  ForbiddenBytes = {}
  ReservedNames <- MCReservedNames
  NewIds = {1, 7}
  ParentDirs = {0, 6}
  NewNames <- MCNewNames
  Times = {8}
  Contents <- MCNotEmpty
  EmptyChecksum = 1
  MaxCrashes = 1
  None = None
  Names <- MCNames
  Tables <- MCTables
  ByteValues = {0, 1}
  DeviceLen = 5
  MaxBuf = 2
  Files <- MCFiles
CHECK_DEADLOCK FALSE
INVARIANTS
  ReadingIsVerified
