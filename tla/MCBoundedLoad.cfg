CONSTANTS
  N = 3
  M = 5
  ProbeLimit = 1
  Weights <- W013
  Batches <- SomeBatches
  Mixes <- SomeMixes
  EpsNum = 1
  EpsDen = 4
  MinCaps <- Floors
  MaxJobs = 3
SPECIFICATION Spec
INVARIANTS Consistent HotspotBounded Sticky SharesExact FindsWhatThereIs
PROPERTIES MinimalDisruption
