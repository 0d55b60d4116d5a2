CONSTANTS
  a1 = a1
  a2 = a2
  Alerts = {a1, a2}
  Undatable = {a2}
  NoLine = NoLine
  Attempts = 2
  MaxFaults = 2
SPECIFICATION FairSpec
CHECK_DEADLOCK FALSE
INVARIANTS TypeOK CollectorInv
PROPERTIES SuccessIsObserved AlertsGetTasks Recovers
