SPECIFICATION Spec
CONSTANTS
  Thread <- TwoThreads
  Place <- TwoPlaces
  Value <- TwoValues
  Mode <- WriteMode
  MaxHw = 3
INVARIANTS
  WatchTypeOK
  NoWrongSlot
PROPERTIES
  CoverageKept
  ReportCovers
