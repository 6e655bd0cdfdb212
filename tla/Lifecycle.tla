-------------------------------- MODULE Lifecycle -----------------------------
(***************************************************************************)
(* What a kernel of pickEcosystem/live promises its caller: it serves,     *)
(* then drains, then is halted for good.  Once it drains nothing new is    *)
(* admitted, and in the step in which it is halted every worker is retired *)
(* and nothing is pending.                                                 *)
(***************************************************************************)
CONSTANTS Requests, Threads

VARIABLES phase, pending, up

vars == <<phase, pending, up>>

Init ==
  /\ phase = "serving"
  /\ pending = {}
  /\ up = Threads

(* Requests come and go, workers die and are respawned. *)
Serve ==
  /\ phase = "serving"
  /\ pending' \in SUBSET Requests
  /\ up' \in SUBSET Threads
  /\ UNCHANGED phase

(* A shutdown begins, or a halt that fails to retire the workers. *)
Drain ==
  /\ phase = "serving"
  /\ phase' = "draining"
  /\ UNCHANGED <<pending, up>>

Settle ==
  /\ phase = "draining"
  /\ pending' \in SUBSET pending
  /\ up' \in SUBSET Threads
  /\ UNCHANGED phase

Halt ==
  /\ phase # "halted"
  /\ phase' = "halted"
  /\ pending' = {}
  /\ up' = {}

Next == Serve \/ Drain \/ Settle \/ Halt

Spec == Init /\ [][Next]_vars
===============================================================================
