------------------------------- MODULE Balancer -------------------------------
(***************************************************************************)
(* BalancerBase of Pick.js: the eligibility view every strategy reads and  *)
(* the count of endpoints that are up, kept in step by setEligible.  A     *)
(* strategy's module extends this one, as its class extends the base       *)
(* class.  The calls are synchronous, so each is one step.                 *)
(***************************************************************************)
EXTENDS Integers, FiniteSets

CONSTANT N      \* the balancer's capacity

ASSUME CapacityAssumption == N \in Nat \ {0}

Nodes == 0 .. N-1
NONE == -1      \* PICK_NONE

VARIABLES
  eligible,     \* the set of endpoints whose eligible[] byte is 1
  live          \* _live: how many endpoints are up

baseVars == <<eligible, live>>

BaseInit ==
  /\ eligible \in SUBSET Nodes
  /\ live = Cardinality(eligible)

(* setEligible(i, up): idempotent, the count follows the flip. *)
Flip(i, up) ==
  /\ eligible' = IF up THEN eligible \cup {i} ELSE eligible \ {i}
  /\ live' = IF up = (i \in eligible) THEN live
             ELSE IF up THEN live + 1 ELSE live - 1

------------------------------------------------------------------------------

BaseTypeOK ==
  /\ eligible \in SUBSET Nodes
  /\ live \in 0 .. N

(* The count the picks fail closed on is the number of endpoints that are  *)
(* up, after any sequence of flips, repeated ones included                 *)
(* (BalancerBase.assertConsistent).                                        *)
LiveExact == live = Cardinality(eligible)
===============================================================================
