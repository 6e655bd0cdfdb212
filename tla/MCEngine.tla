-------------------------------- MODULE MCEngine ------------------------------
(* Values of the constants of Engine for TLC. *)
EXTENDS Engine

TwoRuns == {1, 2}
===============================================================================
