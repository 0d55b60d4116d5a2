CONSTANTS
  NoVerdict = NoVerdict
  MaxFaults = 3
  MaxTriggers = 2
SPECIFICATION FairSpec
CHECK_DEADLOCK FALSE
INVARIANTS FiredNeverDismissed FixOnlyWhenCertain PipelineInv
PROPERTIES NotReplanned NeverChurns HandedOffIsFixed Ends
