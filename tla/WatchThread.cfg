SPECIFICATION Spec
CONSTANTS
  Thread <- TwoThreads
  Place <- TwoPlaces
  Value <- TwoValues
  Mode <- BothModes
  MaxHw = 2
PROPERTIES
  HitNamesWriter
