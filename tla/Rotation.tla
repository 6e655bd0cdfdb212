-------------------------------- MODULE Rotation -------------------------------
(***************************************************************************)
(* The strategies of Pick.js that scan the pool from a rotating cursor:    *)
(* RoundRobinBalancer, LeastConnBalancer, SedBalancer and NqBalancer.      *)
(* Each takes the first of its preferred endpoints at or after the cursor, *)
(* and moves the cursor past it; with ties: 'random' the last three draw   *)
(* one of the preferred instead.  Callers raise the count of the endpoint  *)
(* they are given and lower it when the request settles.                   *)
(***************************************************************************)
EXTENDS Balancer, Functions

CONSTANTS
  Strategies,   \* the classes to model, a subset of Strategy
  Weights,      \* the weights a caller may write (SED and NQ read them)
  MaxInflight   \* bound on the requests in flight

Strategy == {"RoundRobin", "LeastConn", "SED", "NQ"}
Weighted == {"SED", "NQ"}

ASSUME RotationAssumption ==
  /\ Strategies \subseteq Strategy
  /\ Weights \subseteq Nat
  /\ MaxInflight \in Nat

VARIABLES
  strategy,     \* the balancer's class, fixed by its constructor
  ties,         \* its ties option, fixed too
  cur,          \* the cursor: _cur, and RoundRobin's _cursor + 1
  weight,       \* the caller's weights[]
  inflight,     \* the caller's inflight[]
  last,         \* history: the endpoint of the last pick, NONE for PICK_NONE
  passed,       \* history: how many picks in a row have preferred an endpoint
                \* and given its turn to another (counted up to N)
  calm          \* history: nothing has settled, flipped or changed weight yet

vars == <<baseVars, strategy, ties, cur, weight, inflight, last, passed, calm>>

(* The tie-breaks a constructor accepts; RoundRobin's takes no options. *)
TieModes(s) == IF s = "RoundRobin" THEN {"rotate"} ELSE {"rotate", "random"}

Init ==
  /\ BaseInit
  /\ strategy \in Strategies
  /\ ties \in TieModes(strategy)
  /\ cur = 0
  /\ weight \in [Nodes -> IF strategy \in Weighted THEN Weights ELSE {1}]
  /\ inflight = [i \in Nodes |-> 0]
  /\ last = NONE
  /\ passed = [i \in Nodes |-> 0]
  /\ calm = TRUE

------------------------------------------------------------------------------
(* What a pick prefers *)

Candidates == IF strategy \in Weighted THEN {i \in eligible : weight[i] > 0} ELSE eligible

(* (inflight[i] + 1) / weight[i] < (inflight[j] + 1) / weight[j] *)
Bug_Sooner(i, j) == inflight[i] * weight[j] < inflight[j] * weight[i]
Sooner(i, j) == (inflight[i] + 1) * weight[j] < (inflight[j] + 1) * weight[i]

LeastLoaded == {i \in Candidates : \A j \in Candidates : inflight[i] <= inflight[j]}
Soonest == {i \in Candidates : \A j \in Candidates : ~Sooner(j, i)}
Idle == {i \in Candidates : inflight[i] = 0}

Bug_Preferred ==
  CASE strategy = "RoundRobin" -> Candidates
    [] strategy = "LeastConn" -> LeastLoaded
    [] strategy \in {"SED", "NQ"} -> Soonest
Preferred ==
  CASE strategy = "RoundRobin" -> Candidates
    [] strategy = "LeastConn" -> LeastLoaded
    [] strategy = "SED" -> Soonest
    [] strategy = "NQ" -> IF Idle # {} THEN Idle ELSE Soonest

(* How far the scan goes before it meets i: [cur, cap), then [0, cur). *)
Start == IF cur < N THEN cur ELSE 0
Distance(i) == IF i >= Start THEN i - Start ELSE i - Start + N

(* The endpoints a pick may choose. *)
Chosen ==
  IF ties = "random" THEN Preferred
  ELSE {i \in Preferred : \A j \in Preferred : Distance(i) <= Distance(j)}

------------------------------------------------------------------------------
(* The steps *)

(* Where a pick of i leaves the cursor. *)
Bug_Advance(i) == cur' = IF i < Start THEN cur ELSE i + 1
Advance(i) == cur' = IF ties = "random" THEN cur ELSE i + 1

Passed(i) ==
  passed' = [j \in Nodes |-> IF j = i \/ j \notin Preferred THEN 0
                            ELSE IF passed[j] < N THEN passed[j] + 1 ELSE N]

(* pick() gives the caller endpoint i, and the caller raises its count. *)
Pick ==
  /\ live > 0
  /\ SumFunction(inflight) < MaxInflight
  /\ \E i \in Chosen :
       /\ Advance(i)
       /\ inflight' = [inflight EXCEPT ![i] = @ + 1]
       /\ last' = i
       /\ IF ties = "rotate" THEN Passed(i) ELSE UNCHANGED passed
  /\ UNCHANGED <<baseVars, strategy, ties, weight, calm>>

(* The whole pool is down, or no endpoint that is up has weight. *)
PickNone ==
  /\ live = 0 \/ Chosen = {}
  /\ last' = NONE
  /\ UNCHANGED <<baseVars, strategy, ties, cur, weight, inflight, passed, calm>>

Settle(i) ==
  /\ inflight[i] > 0
  /\ inflight' = [inflight EXCEPT ![i] = @ - 1]
  /\ calm' = FALSE
  /\ UNCHANGED <<baseVars, strategy, ties, cur, weight, last, passed>>

SetEligible(i, up) ==
  /\ Flip(i, up)
  /\ calm' = FALSE
  /\ UNCHANGED <<strategy, ties, cur, weight, inflight, last, passed>>

(* The caller writes a weight, which the next pick reads. *)
SetWeight(i, w) ==
  /\ strategy \in Weighted
  /\ weight' = [weight EXCEPT ![i] = w]
  /\ calm' = FALSE
  /\ UNCHANGED <<baseVars, strategy, ties, cur, inflight, last, passed>>

Next ==
  \/ Pick
  \/ PickNone
  \/ \E i \in Nodes : Settle(i)
  \/ \E i \in Nodes, up \in BOOLEAN : SetEligible(i, up)
  \/ \E i \in Nodes, w \in Weights : SetWeight(i, w)

Spec == Init /\ [][Next]_vars

------------------------------------------------------------------------------
(* Properties *)

(* Every variable has its type; the cursor stays within one past the last  *)
(* endpoint (Pick.js, _cur and _cursor).                                   *)
TypeOK ==
  /\ BaseTypeOK
  /\ strategy \in Strategies
  /\ ties \in {"rotate", "random"}
  /\ cur \in 0 .. N
  /\ weight \in [Nodes -> Weights \cup {1}]
  /\ inflight \in [Nodes -> Nat]
  /\ last \in Nodes \cup {NONE}
  /\ passed \in [Nodes -> Nat]
  /\ calm \in BOOLEAN

(* Ties take turns: an endpoint that each pick prefers is passed over      *)
(* fewer than N times, whatever flips, settles and reweights come between  *)
(* the picks (the rotating tie-break, M5).                                 *)
TakesTurns == ties = "rotate" => \A i \in Nodes : passed[i] < N

(* The distance left to an endpoint bounds how often it was passed over:   *)
(* what makes TakesTurns inductive.                                        *)
TurnBound == ties = "rotate" => \A i \in Nodes : passed[i] = 0 \/ passed[i] + Distance(i) < N

(* While requests only arrive, no request could have been placed better:   *)
(* one more on endpoint i would finish no sooner than what endpoint j has  *)
(* (SED converges to inflight / weight; NQ gives every endpoint one first; *)
(* for LeastConn all weights count as one), and under NQ and LeastConn no  *)
(* endpoint has two before every other candidate has one (never queue).    *)
Balanced ==
  calm /\ strategy # "RoundRobin" =>
    \A i, j \in Candidates :
      /\ \/ inflight[j] <= (IF strategy = "NQ" THEN 1 ELSE 0)
         \/ inflight[j] * weight[i] <= (inflight[i] + 1) * weight[j]
      /\ strategy \in {"NQ", "LeastConn"} /\ inflight[j] > 1 => inflight[i] > 0
===============================================================================
