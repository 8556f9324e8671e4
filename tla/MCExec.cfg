SPECIFICATION Spec
CONSTANTS
  MaxTexts = 2
INVARIANTS
  ExecUntilKilled
CHECK_DEADLOCK FALSE
