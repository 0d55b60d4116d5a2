SPECIFICATION Spec
CONSTANTS
  Bodies <- MCBodies
  Words <- MCWords
  Derived <- MCDerived
  Canonical <- MCCanonical
INVARIANTS TypeOK CountedIsCarried OwnedIsComputed HandoffReads
PROPERTY Implements
CHECK_DEADLOCK FALSE
