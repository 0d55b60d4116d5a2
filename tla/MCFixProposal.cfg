CONSTANTS
  p1 = p1
  p2 = p2
  p3 = p3
  Repos = {p1, p2}
  Admission <- OneRefused
  NoRepo = NoRepo
  NoBlock = NoBlock
  Drift = TRUE
  MaxFaults = 2
  MaxTriggers = 0
SPECIFICATION Spec
CHECK_DEADLOCK FALSE
INVARIANTS ProposalOnlyWithoutPull
