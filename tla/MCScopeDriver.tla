----------------------------- MODULE MCScopeDriver ----------------------------
(* Values of the constants of ScopeDriver for TLC. *)
EXTENDS ScopeDriver, TLC

CONSTANTS s1, s2
TwoSlots == {s1, s2}
SlotSymmetry == Permutations(TwoSlots)

\* A strategy that notes and copies, one that shares the array, a blind one.
OneOfEach == {"boundedload", "smoothwrr", "p2c"}
Fill == {1, 2}
Default == [i \in Nodes |-> 1]
Steep == [i \in Nodes |-> i + 1]
===============================================================================
