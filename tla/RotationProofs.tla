---------------------------- MODULE RotationProofs ----------------------------
(***************************************************************************)
(* Type correctness of Rotation, the exact live count, that the preferred  *)
(* endpoints take turns, and that arrivals are placed in balance, for      *)
(* every N and every set of weights.                                       *)
(***************************************************************************)
EXTENDS Rotation, DataProofs

(* The base class: the constructor counts the endpoints that are up, and   *)
(* setEligible keeps the count exact.                                      *)
LEMMA BaseInitExact == ASSUME BaseInit PROVE BaseTypeOK /\ LiveExact
  BY CountInRange, CapacityAssumption DEF BaseInit, BaseTypeOK, LiveExact, Nodes

LEMMA FlipKeepsExact ==
  ASSUME BaseTypeOK, LiveExact, NEW i \in Nodes, NEW up \in BOOLEAN, Flip(i, up)
  PROVE  BaseTypeOK' /\ LiveExact'
<1>1. N \in Nat /\ eligible \in SUBSET (0 .. N-1) /\ i \in 0 .. N-1
  BY CapacityAssumption DEF BaseTypeOK, Nodes
<1>2. /\ eligible' \in SUBSET (0 .. N-1)
      /\ live' = Cardinality(eligible')
  BY <1>1, CountFollows DEF Flip, LiveExact
<1>3. Cardinality(eligible') \in 0 .. N
  BY <1>1, <1>2, CountInRange
<1> QED
  BY <1>2, <1>3 DEF BaseTypeOK, LiveExact, Nodes

IInv == TypeOK /\ LiveExact /\ TurnBound

(* The scan starts at an endpoint, and meets every endpoint within N. *)
LEMMA DistanceInRange ==
  ASSUME cur \in 0 .. N, NEW i \in Nodes
  PROVE  Distance(i) \in 0 .. N-1
  BY CapacityAssumption DEF Distance, Start, Nodes

(* A distance around the ring is less than N. *)
LEMMA WrapInRange ==
  ASSUME NEW s \in Nodes, NEW i \in Nodes
  PROVE  /\ i >= s => i - s \in 0 .. N-1
         /\ ~(i >= s) => i - s + N \in 0 .. N-1
  BY CapacityAssumption DEF Nodes

(* The same bound holds in the next state. *)
LEMMA DistanceInRangeNext ==
  ASSUME cur' \in 0 .. N, NEW i \in Nodes
  PROVE  Distance(i)' \in 0 .. N-1
<1>1. Start' \in Nodes
  BY CapacityAssumption DEF Start, Nodes
<1>2. /\ i >= Start' => Distance(i)' = i - Start'
      /\ ~(i >= Start') => Distance(i)' = i - Start' + N
  BY DEF Distance
<1> QED
  BY <1>1, <1>2, WrapInRange

(* The pick is a preferred endpoint, and under rotating ties none of the   *)
(* preferred is nearer.                                                    *)
LEMMA ChosenNearest ==
  ASSUME NEW i \in Chosen
  PROVE  /\ i \in Preferred
         /\ ties = "rotate" => \A j \in Preferred : Distance(i) <= Distance(j)
  BY DEF Chosen

(* Only endpoints that are up are preferred. *)
LEMMA PreferredUp == ASSUME TypeOK PROVE Preferred \subseteq Nodes
<1>1. Candidates \subseteq Nodes
  BY DEF TypeOK, BaseTypeOK, Candidates
<1>2. LeastLoaded \subseteq Candidates /\ Soonest \subseteq Candidates /\ Idle \subseteq Candidates
  BY DEF LeastLoaded, Soonest, Idle
<1>3. strategy \in {"RoundRobin", "LeastConn", "SED", "NQ"}
  BY RotationAssumption DEF TypeOK, Strategy
<1> QED
  BY <1>1, <1>2, <1>3 DEF Preferred

(* Moving the cursor past i, at or before j in the scan, brings it nearer  *)
(* to j.                                                                   *)
LEMMA CursorNears ==
  ASSUME cur \in 0 .. N, NEW i \in Nodes, NEW j \in Nodes, i # j,
         Distance(i) <= Distance(j), cur' = i + 1
  PROVE  Distance(j)' < Distance(j)
<1>1. CASE i + 1 < N
  BY <1>1, CapacityAssumption DEF Distance, Start, Nodes
<1>2. CASE i + 1 >= N
  BY <1>2, CapacityAssumption DEF Distance, Start, Nodes
<1> QED
  BY <1>1, <1>2, CapacityAssumption DEF Nodes

(* The constructors establish the invariant. *)
LEMMA InitOK == Init => IInv
<1> SUFFICES ASSUME Init PROVE IInv
  OBVIOUS
<1>1. BaseTypeOK /\ LiveExact
  BY BaseInitExact DEF Init
<1>2. ties \in {"rotate", "random"}
  BY DEF Init, TieModes
<1>3. weight \in [Nodes -> Weights \cup {1}]
  BY DEF Init
<1>4. /\ strategy \in Strategies
      /\ cur \in 0 .. N
      /\ inflight \in [Nodes -> Nat]
      /\ last \in Nodes \cup {NONE}
      /\ passed \in [Nodes -> Nat]
      /\ calm \in BOOLEAN
  BY CapacityAssumption DEF Init
<1>5. TurnBound
  BY DEF Init, TurnBound
<1> QED
  BY <1>1, <1>2, <1>3, <1>4, <1>5 DEF IInv, TypeOK

(* A step that leaves the cursor and the turns alone keeps the bound on them. *)
LEMMA TurnsKept ==
  ASSUME IInv, UNCHANGED <<ties, cur, passed>>
  PROVE  TurnBound'
  BY DEF IInv, TurnBound, Distance, Start

(* A pick keeps the invariant: who is passed over gets nearer. *)
LEMMA PickOK == ASSUME IInv, Pick PROVE IInv'
<1>1. PICK i \in Chosen :
        /\ Advance(i)
        /\ inflight' = [inflight EXCEPT ![i] = @ + 1]
        /\ last' = i
        /\ IF ties = "rotate" THEN Passed(i) ELSE UNCHANGED passed
  BY DEF Pick
<1>2. UNCHANGED <<eligible, live, strategy, ties, weight, calm>>
  BY DEF Pick, baseVars
<1>3. i \in Nodes /\ i \in Preferred
  BY <1>1, ChosenNearest, PreferredUp DEF IInv
<1>4. i \in 0 .. N-1 /\ N \in Nat
  BY <1>3, CapacityAssumption DEF Nodes
<1>5. cur' \in 0 .. N
  BY <1>1, <1>4 DEF Advance, IInv, TypeOK
<1>6. inflight' \in [Nodes -> Nat] /\ last' \in Nodes \cup {NONE}
  BY <1>1, <1>3 DEF IInv, TypeOK
<1>7. passed' \in [Nodes -> Nat]
  BY <1>1, <1>4 DEF IInv, TypeOK, Passed
<1>8. TypeOK' /\ LiveExact'
  BY <1>2, <1>5, <1>6, <1>7 DEF IInv, TypeOK, BaseTypeOK, LiveExact
<1>9. TurnBound'
  <2> SUFFICES ASSUME ties' = "rotate", NEW j \in Nodes, passed'[j] # 0
               PROVE  passed'[j] + Distance(j)' < N
    BY DEF TurnBound
  <2>1. ties = "rotate" /\ Passed(i) /\ cur' = i + 1
    BY <1>1, <1>2 DEF Advance
  <2>2. /\ j # i
        /\ j \in Preferred
        /\ passed'[j] = IF passed[j] < N THEN passed[j] + 1 ELSE N
    BY <2>1 DEF Passed
  <2>3. Distance(i) <= Distance(j)
    BY <1>1, <2>1, <2>2, ChosenNearest
  <2>4. cur \in 0 .. N /\ passed[j] \in Nat
    BY DEF IInv, TypeOK
  <2>5. Distance(j)' < Distance(j)
    BY <1>3, <2>1, <2>2, <2>3, <2>4, CursorNears
  <2>6. Distance(j) \in 0 .. N-1
    BY <2>4, DistanceInRange
  <2>7. Distance(j)' \in 0 .. N-1
    BY <1>5, DistanceInRangeNext
  <2>8. passed[j] = 0 \/ passed[j] + Distance(j) < N
    BY <2>1 DEF IInv, TurnBound
  <2> QED
    BY <1>4, <2>2, <2>4, <2>5, <2>6, <2>7, <2>8
<1> QED
  BY <1>8, <1>9 DEF IInv

(* Every step keeps the invariant. *)
LEMMA Invariance == Spec => []IInv
<1>1. ASSUME IInv, [Next]_vars PROVE IInv'
  <2> USE <1>1
  <2>1. CASE Pick
    BY <2>1, PickOK
  <2>2. CASE PickNone
    <3>1. TypeOK' /\ LiveExact'
      BY <2>2 DEF PickNone, IInv, TypeOK, BaseTypeOK, LiveExact, baseVars
    <3> QED
      BY <2>2, <3>1, TurnsKept DEF PickNone, IInv
  <2>3. ASSUME NEW i \in Nodes, Settle(i) PROVE IInv'
    <3>1. inflight' \in [Nodes -> Nat]
      BY <2>3 DEF Settle, IInv, TypeOK
    <3>2. TypeOK' /\ LiveExact'
      BY <2>3, <3>1 DEF Settle, IInv, TypeOK, BaseTypeOK, LiveExact, baseVars
    <3> QED
      BY <2>3, <3>2, TurnsKept DEF Settle, IInv
  <2>4. ASSUME NEW i \in Nodes, NEW up \in BOOLEAN, SetEligible(i, up) PROVE IInv'
    <3>1. BaseTypeOK' /\ LiveExact'
      BY <2>4, FlipKeepsExact DEF SetEligible, IInv, TypeOK
    <3>2. TypeOK'
      BY <2>4, <3>1 DEF SetEligible, IInv, TypeOK
    <3> QED
      BY <2>4, <3>1, <3>2, TurnsKept DEF SetEligible, IInv
  <2>5. ASSUME NEW i \in Nodes, NEW w \in Weights, SetWeight(i, w) PROVE IInv'
    <3>1. weight' \in [Nodes -> Weights \cup {1}]
      BY <2>5 DEF SetWeight, IInv, TypeOK
    <3>2. TypeOK' /\ LiveExact'
      BY <2>5, <3>1 DEF SetWeight, IInv, TypeOK, BaseTypeOK, LiveExact, baseVars
    <3> QED
      BY <2>5, <3>2, TurnsKept DEF SetWeight, IInv
  <2>6. CASE UNCHANGED vars
    <3>1. TypeOK' /\ LiveExact'
      BY <2>6 DEF vars, IInv, TypeOK, BaseTypeOK, LiveExact, baseVars
    <3> QED
      BY <2>6, <3>1, TurnsKept DEF vars, IInv
  <2> QED
    BY <2>1, <2>2, <2>3, <2>4, <2>5, <2>6 DEF Next
<1> QED
  BY <1>1, InitOK, PTL DEF Spec

------------------------------------------------------------------------------
(* Balance *)

(* Only SED and NQ read weights; for the others all count as one. *)
UnitWeights == strategy \notin Weighted => \A i \in Nodes : weight[i] = 1
BInv == IInv /\ UnitWeights /\ Balanced

(* Balance with the requests f and the weights w, for one pair. *)
Fair(f, w, i, j) ==
  /\ \/ f[j] <= (IF strategy = "NQ" THEN 1 ELSE 0)
     \/ f[j] * w[i] <= (f[i] + 1) * w[j]
  /\ strategy \in {"NQ", "LeastConn"} /\ f[j] > 1 => f[i] > 0

LEMMA CandidateTypes ==
  ASSUME TypeOK
  PROVE  /\ Candidates \in SUBSET Nodes
         /\ \A i \in Nodes : inflight[i] \in Nat /\ weight[i] \in Nat
<1>1. eligible \in SUBSET Nodes /\ inflight \in [Nodes -> Nat] /\ weight \in [Nodes -> Weights \cup {1}]
  BY DEF TypeOK, BaseTypeOK
<1>2. Candidates \in SUBSET Nodes
  BY <1>1 DEF Candidates
<1>3. ASSUME NEW i \in Nodes PROVE inflight[i] \in Nat /\ weight[i] \in Nat
  <2>1. inflight[i] \in Nat
    BY <1>1
  <2>2. weight[i] \in Weights \cup {1}
    BY <1>1
  <2>3. PICK w : w = weight[i]
    OBVIOUS
  <2>4. w \in Nat
    <3>1. w \in Weights \/ w = 1
      BY <2>2, <2>3
    <3>2. CASE w \in Weights
      BY <3>2, RotationAssumption
    <3> QED
      BY <3>1, <3>2
  <2> QED
    BY <2>1, <2>3, <2>4
<1> QED
  BY <1>2, <1>3

(* A product grows with a factor. *)
LEMMA OneMoreFits ==
  ASSUME NEW a \in Nat, NEW x \in Nat, NEW w \in Nat, a <= (x + 1) * w
  PROVE  a <= ((x + 1) + 1) * w
<1>1. (x + 1) * w <= ((x + 1) + 1) * w
  BY MulMono
<1>2. (x + 1) * w \in Nat /\ ((x + 1) + 1) * w \in Nat
  OBVIOUS
<1> QED
  BY <1>1, <1>2

(* The pick finishes no later than any other would have. *)
LEMMA PreferredSoonest ==
  ASSUME TypeOK, UnitWeights, strategy # "RoundRobin", NEW i \in Preferred, NEW j \in Candidates
  PROVE  /\ \/ strategy = "NQ" /\ inflight[i] = 0
            \/ (inflight[i] + 1) * weight[j] <= (inflight[j] + 1) * weight[i]
         /\ strategy \in {"NQ", "LeastConn"} /\ inflight[i] > 0 => inflight[j] > 0
<1>1. /\ i \in Candidates /\ i \in Nodes /\ j \in Nodes
      /\ strategy \in {"LeastConn", "SED", "NQ"}
  <2>1. LeastLoaded \subseteq Candidates /\ Soonest \subseteq Candidates /\ Idle \subseteq Candidates
    BY DEF LeastLoaded, Soonest, Idle
  <2>2. strategy \in {"LeastConn", "SED", "NQ"}
    BY RotationAssumption DEF TypeOK, Strategy
  <2>3. i \in Candidates
    BY <2>1, <2>2 DEF Preferred
  <2> QED
    BY <2>2, <2>3, CandidateTypes
<1>2. PICK x \in Nat, y \in Nat, v \in Nat, w \in Nat :
        x = inflight[i] /\ y = inflight[j] /\ v = weight[i] /\ w = weight[j]
  BY <1>1, CandidateTypes
<1>3. (x + 1) * w \in Nat /\ (y + 1) * v \in Nat
  OBVIOUS
<1>4. ASSUME i \in Soonest PROVE (x + 1) * w <= (y + 1) * v
  <2>1. ~((y + 1) * v < (x + 1) * w)
    BY <1>2, <1>4 DEF Soonest, Sooner
  <2> QED
    BY <1>3, <2>1
<1>5. CASE strategy = "LeastConn"
  <2>1. v = 1 /\ w = 1
    BY <1>1, <1>2, <1>5 DEF UnitWeights, Weighted
  <2>2. x <= y
    BY <1>2, <1>5 DEF Preferred, LeastLoaded
  <2> QED
    BY <1>2, <1>5, <2>1, <2>2
<1>6. CASE strategy = "SED"
  BY <1>2, <1>4, <1>6 DEF Preferred
<1>7. CASE strategy = "NQ" /\ Idle # {}
  BY <1>7 DEF Preferred, Idle
<1>8. CASE strategy = "NQ" /\ Idle = {}
  <2>1. i \in Soonest
    BY <1>8 DEF Preferred
  <2>2. y # 0
    BY <1>2, <1>8 DEF Idle
  <2> QED
    BY <1>2, <1>4, <1>8, <2>1, <2>2
<1> QED
  BY <1>1, <1>5, <1>6, <1>7, <1>8

(* A pick keeps the balance: the endpoint picked was the soonest, and the  *)
(* others' requests do not change.                                         *)
LEMMA PickBalances == ASSUME BInv, Pick PROVE Balanced'
<1>1. PICK i \in Chosen : inflight' = [inflight EXCEPT ![i] = @ + 1]
  BY DEF Pick
<1>2. UNCHANGED <<eligible, strategy, weight, calm>>
  BY DEF Pick, baseVars
<1>3. i \in Preferred /\ i \in Nodes /\ TypeOK
  BY ChosenNearest, PreferredUp DEF BInv, IInv
<1>4. Candidates' = Candidates
  BY <1>2 DEF Candidates
<1>5. PICK g \in [Nodes -> Nat] :
        /\ g = inflight' /\ g[i] = inflight[i] + 1
        /\ \A k \in Nodes : k # i => g[k] = inflight[k]
  <2>1. inflight \in [Nodes -> Nat]
    BY <1>3 DEF TypeOK
  <2>2. inflight[i] + 1 \in Nat
    BY <1>3, <2>1
  <2>3. /\ inflight' \in [Nodes -> Nat]
        /\ inflight'[i] = inflight[i] + 1
        /\ \A k \in Nodes : k # i => inflight'[k] = inflight[k]
    BY <1>1, <1>3, <2>1, <2>2
  <2> QED
    BY <2>3
<1>6. ASSUME calm, strategy # "RoundRobin", NEW h \in Candidates, NEW j \in Candidates
      PROVE  Fair(g, weight, h, j)
  <2>1. /\ h \in Nodes /\ j \in Nodes
        /\ \A k \in Nodes : inflight[k] \in Nat /\ weight[k] \in Nat
    BY <1>3, CandidateTypes
  <2>2. Fair(inflight, weight, h, j)
    BY <1>6 DEF BInv, Balanced, Fair
  <2>3. CASE j # i /\ h # i
    <3>1. g[j] = inflight[j] /\ g[h] = inflight[h]
      BY <1>5, <2>1, <2>3
    <3> QED
      BY <2>2, <3>1 DEF Fair
  <2>4. CASE j # i /\ h = i
    <3>1. PICK x \in Nat, y \in Nat, v \in Nat, w \in Nat :
            x = inflight[h] /\ y = inflight[j] /\ v = weight[h] /\ w = weight[j]
      BY <2>1
    <3>2. g[j] = y /\ g[h] = x + 1
      BY <1>5, <2>1, <2>4, <3>1
    <3>3. y * v \in Nat
      OBVIOUS
    <3>4. y * v <= (x + 1) * w => y * v <= ((x + 1) + 1) * w
      BY <3>3, OneMoreFits
    <3> QED
      BY <2>2, <3>1, <3>2, <3>4 DEF Fair
  <2>5. CASE j = i
    <3>1. /\ \/ strategy = "NQ" /\ inflight[i] = 0
             \/ (inflight[i] + 1) * weight[h] <= (inflight[h] + 1) * weight[i]
          /\ strategy \in {"NQ", "LeastConn"} /\ inflight[i] > 0 => inflight[h] > 0
      BY <1>3, <1>6, PreferredSoonest DEF BInv
    <3>2. PICK x \in Nat, y \in Nat, v \in Nat, w \in Nat :
            x = inflight[i] /\ y = inflight[h] /\ v = weight[i] /\ w = weight[h]
      BY <1>3, <2>1
    <3>3. g[j] = x + 1
      BY <1>5, <2>5, <3>2
    <3>4. CASE h # i
      <4>1. g[h] = y
        BY <1>5, <2>1, <3>2, <3>4
      <4> QED
        BY <2>5, <3>1, <3>2, <3>3, <4>1 DEF Fair
    <3>5. CASE h = i
      <4>1. (x + 1) * v <= ((x + 1) + 1) * v
        BY MulMono
      <4> QED
        BY <2>5, <3>2, <3>3, <3>5, <4>1 DEF Fair
    <3> QED
      BY <3>4, <3>5
  <2> QED
    BY <2>3, <2>4, <2>5
<1> QED
  BY <1>2, <1>4, <1>5, <1>6 DEF Balanced, Fair

LEMMA BalanceInvariance == Spec => []BInv
<1>1. Init => BInv
  <2> SUFFICES ASSUME Init PROVE BInv
    OBVIOUS
  <2>1. IInv
    BY InitOK
  <2>2. UnitWeights
    BY DEF Init, UnitWeights
  <2>3. Balanced
    BY CandidateTypes, <2>1 DEF Init, Balanced, IInv
  <2> QED
    BY <2>1, <2>2, <2>3 DEF BInv
<1>2. ASSUME BInv, IInv', [Next]_vars PROVE BInv'
  <2> USE <1>2
  <2>1. CASE Pick
    BY <2>1, PickBalances DEF Pick, BInv, UnitWeights
  <2>2. CASE PickNone
    BY <2>2 DEF PickNone, BInv, UnitWeights, Balanced, Candidates, baseVars
  <2>3. ASSUME NEW i \in Nodes, Settle(i) PROVE BInv'
    BY <2>3 DEF Settle, BInv, UnitWeights, Balanced
  <2>4. ASSUME NEW i \in Nodes, NEW up \in BOOLEAN, SetEligible(i, up) PROVE BInv'
    BY <2>4 DEF SetEligible, BInv, UnitWeights, Balanced
  <2>5. ASSUME NEW i \in Nodes, NEW w \in Weights, SetWeight(i, w) PROVE BInv'
    BY <2>5 DEF SetWeight, BInv, UnitWeights, Balanced
  <2>6. CASE UNCHANGED vars
    BY <2>6 DEF vars, BInv, UnitWeights, Balanced, Candidates, baseVars
  <2> QED
    BY <2>1, <2>2, <2>3, <2>4, <2>5, <2>6 DEF Next
<1> QED
  BY <1>1, <1>2, Invariance, PTL DEF Spec

------------------------------------------------------------------------------
(* The theorems *)

(* Every reachable state is well typed (the cursor stays in range). *)
THEOREM TypeCorrect == Spec => []TypeOK
<1>1. IInv => TypeOK
  BY DEF IInv
<1> QED
  BY <1>1, Invariance, PTL

(* The live count the picks fail closed on is exact, after any flips       *)
(* (BalancerBase.setEligible).                                             *)
THEOREM LiveAlwaysExact == Spec => []LiveExact
<1>1. IInv => LiveExact
  BY DEF IInv
<1> QED
  BY <1>1, Invariance, PTL

(* Under rotating ties an endpoint that every pick prefers is chosen       *)
(* within N picks, for every N, strategy and churn.                        *)
THEOREM TurnsTaken == Spec => []TakesTurns
<1>1. IInv => TakesTurns
  <2> SUFFICES ASSUME IInv, ties = "rotate", NEW i \in Nodes PROVE passed[i] < N
    BY DEF TakesTurns
  <2>1. Distance(i) \in 0 .. N-1
    BY DistanceInRange DEF IInv, TypeOK
  <2>2. passed[i] \in Nat /\ (passed[i] = 0 \/ passed[i] + Distance(i) < N)
    BY DEF IInv, TypeOK, TurnBound
  <2> QED
    BY <2>1, <2>2, CapacityAssumption
<1> QED
  BY <1>1, Invariance, PTL

(* While requests only arrive, no request could have been placed better,   *)
(* and NQ and LeastConn never queue behind a request while a candidate is  *)
(* idle, for every N and all weights (LeastConnBalancer.pick,              *)
(* SedBalancer.pick, NqBalancer.pick).                                     *)
THEOREM BalancedAlways == Spec => []Balanced
<1>1. BInv => Balanced
  BY DEF BInv
<1> QED
  BY <1>1, BalanceInvariance, PTL
===============================================================================
