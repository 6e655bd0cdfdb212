------------------------------- MODULE SmoothWRR ------------------------------
(***************************************************************************)
(* SmoothWRRBalancer of Pick.js: smooth weighted round-robin.  Each pick   *)
(* credits every candidate with its weight, takes the one with the most    *)
(* credit, and charges it the total.  Health flips and reweights may come  *)
(* between any two picks.                                                  *)
(***************************************************************************)
EXTENDS Balancer, Functions

CONSTANT Weights        \* the weights setWeight may set

ASSUME WeightsAssumption == Weights \subseteq Nat /\ IsFiniteSet(Weights)

VARIABLES
  weight,       \* weights[]
  current,      \* _current: each endpoint's credit
  total,        \* _totalEligibleWeight
  last,         \* history: the last pick
  fair,         \* history: a round is on: all credit was zero when it began, and
                \* no flip or reweight of a candidate has come since
  picks,        \* history: the picks of this round
  got           \* history: the picks of this round each endpoint got

ownVars == <<weight, current, total>>
round == <<fair, picks, got>>
vars == <<baseVars, ownVars, last, round>>

Zero == [i \in Nodes |-> 0]

Init ==
  /\ BaseInit
  /\ weight \in [Nodes -> Weights]
  /\ current = Zero
  /\ total = SumFunctionOnSet(weight, eligible)
  /\ last = NONE
  /\ picks = 0
  /\ got = Zero
  /\ fair = TRUE

(* A flip or a reweight ends the round, and begins one if the credit it    *)
(* leaves, c, is zero.                                                     *)
NewRound(c) ==
  /\ fair' = (c = Zero)
  /\ picks' = 0
  /\ got' = Zero
  /\ UNCHANGED last

(* A change of side moves the weight into or out of the total and drops    *)
(* the endpoint's credit.                                                  *)
Bug_SetEligibleResetsAll(i, up) ==
  /\ Flip(i, up)
  /\ IF up = (i \in eligible) THEN UNCHANGED <<total, current, last, round>>
     ELSE /\ total' = IF up THEN total + weight[i] ELSE total - weight[i]
          /\ current' = Zero
          /\ NewRound(current')
  /\ UNCHANGED weight
Bug_SetEligibleKeeps(i, up) ==
  /\ Flip(i, up)
  /\ IF up = (i \in eligible) THEN UNCHANGED <<total, current, last, round>>
     ELSE /\ total' = IF up THEN total + weight[i] ELSE total - weight[i]
          /\ NewRound(current)
          /\ UNCHANGED current
  /\ UNCHANGED weight
SetEligible(i, up) ==
  /\ Flip(i, up)
  /\ IF up = (i \in eligible) THEN UNCHANGED <<total, current, last, round>>
     ELSE /\ total' = IF up THEN total + weight[i] ELSE total - weight[i]
          /\ current' = [current EXCEPT ![i] = 0]
          /\ NewRound(current')
  /\ UNCHANGED weight

(* A changed weight drops the endpoint's credit, and moves the total when  *)
(* the endpoint is up.                                                     *)
Bug_SetWeight(i, w) ==
  /\ w # weight[i]
  /\ weight' = [weight EXCEPT ![i] = w]
  /\ current' = [current EXCEPT ![i] = 0]
  /\ total' = total + w - weight[i]
  /\ NewRound(current')
  /\ UNCHANGED baseVars
Bug_SetWeightKeeps(i, w) ==
  /\ w # weight[i]
  /\ weight' = [weight EXCEPT ![i] = w]
  /\ IF i \in eligible THEN /\ total' = total + w - weight[i]
                           /\ NewRound(current)
     ELSE UNCHANGED <<total, last, round>>
  /\ UNCHANGED <<baseVars, current>>
SetWeight(i, w) ==
  /\ w # weight[i]
  /\ weight' = [weight EXCEPT ![i] = w]
  /\ current' = [current EXCEPT ![i] = 0]
  /\ IF i \in eligible THEN /\ total' = total + w - weight[i]
                           /\ NewRound(current')
     ELSE UNCHANGED <<total, last, round>>
  /\ UNCHANGED baseVars

(* An endpoint of weight 0 is never a candidate. *)
Candidates == {i \in eligible : weight[i] > 0}

Credited == [i \in Nodes |-> current[i] + IF i \in Candidates THEN weight[i] ELSE 0]

(* The first candidate with the most credit. *)
Bug_Best(c) == CHOOSE i \in Candidates : \A j \in Candidates : weight[j] <= weight[i]
Best(c) ==
  CHOOSE i \in Candidates : \A j \in Candidates : c[j] < c[i] \/ (c[j] = c[i] /\ i <= j)

(* The history of a pick: it opens a round when no credit is out. *)
Count(i) ==
  IF current = Zero THEN fair' = TRUE /\ picks' = 1 /\ got' = [Zero EXCEPT ![i] = 1]
  ELSE IF fair THEN picks' = picks + 1 /\ got' = [got EXCEPT ![i] = @ + 1] /\ UNCHANGED fair
  ELSE UNCHANGED round

Bug_PickForgives ==
  /\ total > 0
  /\ LET best == Best(Credited)
     IN  /\ current' = [Credited EXCEPT ![best] = 0]
         /\ last' = best
         /\ Count(best)
  /\ UNCHANGED <<baseVars, weight, total>>
Pick ==
  /\ total > 0
  /\ LET best == Best(Credited)
     IN  /\ current' = [Credited EXCEPT ![best] = @ - total]
         /\ last' = best
         /\ Count(best)
  /\ UNCHANGED <<baseVars, weight, total>>

Next ==
  \/ Pick
  \/ \E i \in Nodes, up \in BOOLEAN : SetEligible(i, up)
  \/ \E i \in Nodes, w \in Weights : SetWeight(i, w)

Spec == Init /\ [][Next]_vars
FairSpec == Spec /\ WF_vars(Pick)       \* requests keep coming

------------------------------------------------------------------------------
(* Properties *)

(* Every variable has its type, and an endpoint that is no candidate, down *)
(* or of weight 0, has no credit (Pick.js SmoothWRRBalancer).              *)
TypeOK ==
  /\ BaseTypeOK
  /\ weight \in [Nodes -> Weights]
  /\ current \in [Nodes -> Int]
  /\ total \in Nat
  /\ last \in Nodes \cup {NONE}
  /\ fair \in BOOLEAN
  /\ picks \in Nat
  /\ got \in [Nodes -> Nat]
  /\ \A i \in Nodes \ Candidates : current[i] = 0

TotalExact == total = SumFunctionOnSet(weight, eligible)

(* Churn piles up no credit: however flips and reweights drop the credit   *)
(* of one endpoint or another, none is owed or owes more than twice what   *)
(* the rest of the pool weighs at most, and Float64 holds that exactly     *)
(* (ADR 0004, stale credit).                                               *)
MaxWeight == CHOOSE w \in Weights : \A v \in Weights : v <= w
CreditBounded ==
  LET bound == 2 * (N-1) * MaxWeight
  IN  \A i \in Nodes : current[i] <= bound /\ -current[i] <= bound

(* The state is well formed, its caches exact and its credit bounded after *)
(* any mix of flips and reweights of endpoints up or down: the live count  *)
(* is the number of endpoints that are up, and the total is the sum of     *)
(* their weights (SmoothWRRBalancer.assertConsistent).                     *)
Consistent == TypeOK /\ LiveExact /\ TotalExact /\ CreditBounded

(* Smoothness: within a round an endpoint is never a whole pick ahead of   *)
(* its share of the picks so far, so there is no burst (the header's       *)
(* A A B A C A A, not A A A A A B C).                                      *)
NeverAhead ==
  fair => \A i \in Candidates : got[i] * total < picks * weight[i] + total

(* A round hands out exact shares, smoothly: whenever its credit is back   *)
(* at zero, each candidate has got its weight's share of the picks, and    *)
(* that is so after as many picks as the total, or earlier (the 5 : 1 : 1  *)
(* of SmoothWRRBalancer's header).                                         *)
ExactShare ==
  fair =>
    /\ picks <= total
    /\ picks = total => current = Zero
    /\ current = Zero => \A i \in Candidates : got[i] * total = picks * weight[i]
    /\ NeverAhead

(* Nobody starves: an endpoint that stays a candidate of the same weight   *)
(* is picked again and again, even while the other endpoints flap and are  *)
(* reweighted for ever.                                                    *)
NoStarvationUnderChurn ==
  \A i \in Nodes, w \in Weights \ {0} :
    <>[](i \in eligible /\ weight[i] = w) => []<>(last = i)
===============================================================================
