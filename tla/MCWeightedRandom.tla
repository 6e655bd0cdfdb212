---------------------------- MODULE MCWeightedRandom ---------------------------
(* Values of the constants of WeightedRandom for TLC. *)
EXTENDS WeightedRandom

W013 == {0, 1, 3}
===============================================================================
