SPECIFICATION Spec
CONSTANTS
  Bodies <- MCAsked
  Words <- MCWords
  Derived <- MCDerived
  Canonical <- MCCanonical
INVARIANT FixKept
CHECK_DEADLOCK FALSE
