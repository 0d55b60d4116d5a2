SPECIFICATION Spec
CONSTANTS
  j1 = j1
  j2 = j2
  JobIds = {j1, j2}
  Assignments <- MCAssignments
  NoPush = NoPush
  LastSecond = 1
INVARIANTS TypeOK RunnerIsWired OneSentry CountSurvives
CHECK_DEADLOCK FALSE
