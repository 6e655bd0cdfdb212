------------------------------ MODULE MCSmoothWRR -----------------------------
(* Values of the constants of SmoothWRR for TLC. *)
EXTENDS SmoothWRR

W012 == {0, 1, 2}
===============================================================================
