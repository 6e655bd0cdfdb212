SPECIFICATION Spec
CONSTANTS
  N = 3
  Runs = {r1, r2}
  MaxTries = 3
  Weights <- ZeroOneThree
  HashRange = 7
  Faults <- NoFaults
  MaxLeak = 0
SYMMETRY RunSymmetry
INVARIANTS
  NetZero
  SpillProportional
PROPERTIES
  DispatchesOnFreshState
  GivesUpOnlyWhenSpent
