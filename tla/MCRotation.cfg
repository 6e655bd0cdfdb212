CONSTANTS
  N = 3
  Weights <- W012
  Strategies = {"RoundRobin", "LeastConn", "SED", "NQ"}
  MaxInflight = 3
SPECIFICATION Spec
INVARIANTS TakesTurns Balanced
