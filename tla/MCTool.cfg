SPECIFICATION ToolSpec
CONSTANTS
  a = a
  d = d
  e = e
  bad = bad
  c1 = c1
  c2 = c2
  dest = dest
  stem = stem
  mine = mine
  Names = {a, d, e}
  InvalidNames = {bad}
  NoUnderDir = none
  Outside <- MCOutside
  AddArguments <- MCAddArguments
  UnderDirs <- MCUnderDirs
  DeleteArguments <- MCDeleteArguments
  Partial = partial
  Stem = stem
  NoOutputDir = none
  Disks <- MCDisks
  OutputDirs <- MCOutputDirs
  ItemLists <- MCItemLists
  MaxCommands = 2
  MaxItems = 3
CHECK_DEADLOCK FALSE
INVARIANTS
  OnlyWhatWasAsked
  DoneMeansDone
  NoFileIsLost
  OnlyBelowOutputDir
  DoneMeansExtracted
PROPERTIES
  EveryCommandEnds
