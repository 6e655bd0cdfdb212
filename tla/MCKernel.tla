-------------------------------- MODULE MCKernel ------------------------------
(* Values of the constants of Kernel for TLC. *)
EXTENDS Kernel

ThreeJobs == {1, 2, 3}
OneOrTwo == {1, 2}
===============================================================================
