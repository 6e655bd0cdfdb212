-------------------------------- MODULE Lease --------------------------------
(***************************************************************************)
(* What the request wrapper of Pool.js promises about the in-flight view,  *)
(* with every detail of a request left out.  A client leases endpoints one *)
(* at a time, never the same one twice, and gives all of them back in one  *)
(* step; the load of an endpoint moves by exactly one with each.           *)
(***************************************************************************)
EXTENDS Integers, FiniteSets

CONSTANTS
  Clients,   \* the calls of Pool.run
  Endpoints  \* the indices of the in-flight view

VARIABLES
  leases,    \* leases[c]: the endpoints client c holds
  load       \* load[e]: the in-flight count of endpoint e

vars == <<leases, load>>

Init ==
  /\ leases = [c \in Clients |-> {}]
  /\ load = [e \in Endpoints |-> 0]

(* A client takes one more endpoint, which it does not hold yet. *)
Acquire(c, e) ==
  /\ e \notin leases[c]
  /\ leases' = [leases EXCEPT ![c] = @ \cup {e}]
  /\ load' = [load EXCEPT ![e] = @ + 1]

(* A client gives back everything it holds. *)
ReleaseAll(c) ==
  /\ leases' = [leases EXCEPT ![c] = {}]
  /\ load' = [e \in Endpoints |-> IF e \in leases[c] THEN load[e] - 1 ELSE load[e]]

Next ==
  \E c \in Clients : ReleaseAll(c) \/ \E e \in Endpoints : Acquire(c, e)

Spec == Init /\ [][Next]_vars
==============================================================================
