-------------------------------- MODULE MCFleet --------------------------------
(* Values of the constants of Fleet for TLC.  The fleet keeps nothing that *)
(* two workers share, so one worker shows what each of them does.          *)
EXTENDS Fleet

OneWorker == {"w1"}
===============================================================================
