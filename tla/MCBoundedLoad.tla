----------------------------- MODULE MCBoundedLoad ----------------------------
(* Values of the constants of BoundedLoad and ConsistentHash for TLC. *)
EXTENDS BoundedLoad

W013 == {0, 1, 3}
SomeBatches == {[i \in Nodes |-> (i + 1) % 2], [i \in Nodes |-> IF i = 2 THEN 3 ELSE 1]}
Floors == {0, 2}

(* The first endpoint's permutation starts at slot 0, which fixes the      *)
(* table up to a rotation; the second starts anywhere.                     *)
SomeMixes ==
  {m \in [Nodes -> Mix] :
     /\ m[0] = [offset |-> 0, skip |-> 1]
     /\ m[1].skip = 2
     /\ m[2] = [offset |-> 2, skip |-> 2]}
===============================================================================
