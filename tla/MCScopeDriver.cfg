CONSTANTS
  s1 = s1
  s2 = s2
  N = 2
  Strategies <- OneOfEach
  Slots <- TwoSlots
  MaxService = 2
  Targets <- Fill
  Weights0 <- Default
  Ramp <- Steep
  Pin = 3
  High = 2
  Low = 1
  Half = 1
  FlapPeriod = 2
  Cycle = 2
SPECIFICATION DriverSpec
INVARIANTS NotedTracksCounts SlotsConserved CountsHonest WeightsReachBalancer
SYMMETRY SlotSymmetry
