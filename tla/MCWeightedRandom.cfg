CONSTANTS
  N = 3
  Weights <- W013
  MaxEdited = 2
SPECIFICATION WeightedSpec
INVARIANTS SharesExact ReweightTakesEffect
