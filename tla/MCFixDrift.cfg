CONSTANTS
  p1 = p1
  p2 = p2
  p3 = p3
  Repos = {p1, p3}
  Admission <- OneBroken
  NoRepo = NoRepo
  NoBlock = NoBlock
  Drift = TRUE
  MaxFaults = 2
  MaxTriggers = 1
SPECIFICATION FairSpec
CHECK_DEADLOCK FALSE
INVARIANTS TypeOK CompletedIsRecorded OneProposal EitherPullOrProposal FiledHonestly
PROPERTIES ResultIsFinal NeverChurns Ends
