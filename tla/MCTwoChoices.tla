------------------------------ MODULE MCTwoChoices ----------------------------
(* Values of the constants of TwoChoices for TLC. *)
EXTENDS TwoChoices

Both == {"P2C", "PeakEWMA"}
SeedZero == {{}}
IdleOrLoaded == {[i \in Nodes |-> 0], [i \in Nodes |-> IF i = 0 THEN 0 ELSE 1]}
FastOrSlow == {1, 4}
AroundZero == {-2, 0, 1}
===============================================================================
