CONSTANTS
  Boots = 2
SPECIFICATION Spec
INVARIANTS NoTrafficWhileHidden
CHECK_DEADLOCK FALSE
