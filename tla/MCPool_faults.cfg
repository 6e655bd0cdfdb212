SPECIFICATION FairSpec
CONSTANTS
  N = 2
  Runs = {r1, r2}
  MaxTries = 2
  Weights <- ZeroOrOne
  HashRange = 2
  Faults <- AllFaults
  MaxLeak = 2
INVARIANTS
  NotedLockstep
PROPERTIES
  LeaseSpec
  EverySettles
