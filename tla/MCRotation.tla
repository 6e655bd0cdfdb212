------------------------------- MODULE MCRotation ------------------------------
(* Values of the constants of Rotation for TLC. *)
EXTENDS Rotation

W012 == {0, 1, 2}
===============================================================================
