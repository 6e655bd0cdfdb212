CONSTANTS
  N = 3
  Strategies <- Both
  Seeds <- SeedZero
  DrawTries = 1
  Redraws = 32
  Samples <- FastOrSlow
  Times <- AroundZero
  Carried <- IdleOrLoaded
  Scale = 512
  MaxPicks = 2
  MaxSamples = 3
SPECIFICATION ChoiceSpec
INVARIANTS GeneratorAlive EstimatesBounded MeanWeighsByAge
PROPERTIES NeverDearest ShunsSilent
