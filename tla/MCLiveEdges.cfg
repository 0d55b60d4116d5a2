CONSTANTS
  Counts <- EdgeCounts
  Times <- EdgeTimes
  Firsts <- Epoch
  Unknown = Unknown
  MaxPasses = 2
SPECIFICATION Spec
CHECK_DEADLOCK FALSE
INVARIANTS BandAgrees LiveInv
PROPERTIES TimeOnlyQuiets
