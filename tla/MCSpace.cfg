SPECIFICATION SpaceSpec
CONSTANTS
  HeaderLen = 1
  FirstSegmentLen = 2
  MaxWrite = 3
  MaxSourceLen = 11
INVARIANTS
  NoOverlap
  WithinSource
  NeverPanics
  FreeZonesAreTheGaps
PROPERTIES
  GrowsOnlyWhenFull
CHECK_DEADLOCK FALSE
