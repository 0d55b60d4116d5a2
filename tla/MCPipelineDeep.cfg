CONSTANTS
  NoVerdict = NoVerdict
  MaxFaults = 0
  MaxTriggers = 0
SPECIFICATION FairSpec
CHECK_DEADLOCK FALSE
PROPERTIES DeepFollowsTriage
