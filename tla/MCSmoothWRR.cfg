CONSTANTS
  N = 3
  Weights <- W012
SPECIFICATION FairSpec
INVARIANTS Consistent ExactShare
PROPERTIES NoStarvationUnderChurn
