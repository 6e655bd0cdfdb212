-------------------------------- MODULE MCPool --------------------------------
(* Small instances of Pool for TLC. *)
EXTENDS Pool, TLC

(* Run slots are interchangeable: no definition tells them apart. *)
RunSymmetry == Permutations(Runs)

NoFaults == {}
AllFaults == Fault
ZeroOrOne == {0, 1}
ZeroOneThree == {0, 1, 3}
===============================================================================
