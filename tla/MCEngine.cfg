CONSTANTS
  N = 2
  SlotCap = 1
  R = 2
  RunsB <- TwoRuns
  Tries = 2
  MaxArrivals = 2
SPECIFICATION FairSpec
INVARIANTS Accounted InflightExact ShedIffOnlyFull
PROPERTIES Quiesces
