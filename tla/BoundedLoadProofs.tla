---------------------------- MODULE BoundedLoadProofs --------------------------
(***************************************************************************)
(* Theorems about the Maglev table and the picks on it, with and without   *)
(* the cap, for every prime table size, hash, set of weights, probe limit, *)
(* slack and pool.                                                         *)
(*                                                                         *)
(* A health flip moves only the keys of the endpoint it flips: probe and   *)
(* sweep together look at the slots that follow a key's slot, in order,    *)
(* and the pick is the first endpoint on that walk that is up.  The walk   *)
(* does not change with health.  If neither the old nor the new pick is    *)
(* the endpoint that flipped, each of the two is up in both states, so     *)
(* neither comes before the other on the walk.                             *)
(*                                                                         *)
(* The shares: the quotas are the weights' shares rounded down and one of  *)
(* the slots left over each, and the leftover is at most a slot for each   *)
(* endpoint that has weight, so the quotas add up to the table.  An        *)
(* endpoint below its quota therefore finds the table not yet full, and    *)
(* its permutation, whose stride is not a multiple of the prime size,      *)
(* comes to every slot, a free one included.  So after r rounds each       *)
(* endpoint has r slots or its quota, and M rounds are enough for all.     *)
(*                                                                         *)
(* The cap: if every endpoint that is up held more than the mean, they     *)
(* would hold more than there is.  So one of them is under the cap, and a  *)
(* window that reaches it has an endpoint to pick.                         *)
(***************************************************************************)
EXTENDS BoundedLoad, DataProofs

------------------------------------------------------------------------------
(* The first endpoint on the walk that is up *)

(* The base class: the constructor counts the endpoints that are up, and   *)
(* setEligible keeps the count exact.                                      *)
LEMMA BaseInitExact == ASSUME BaseInit PROVE BaseTypeOK /\ LiveExact
  BY CountInRange, CapacityAssumption DEF BaseInit, BaseTypeOK, LiveExact, Nodes

LEMMA FlipKeepsExact ==
  ASSUME BaseTypeOK, LiveExact, NEW i \in Nodes, NEW up \in BOOLEAN, Flip(i, up)
  PROVE  BaseTypeOK' /\ LiveExact'
<1>1. N \in Nat /\ eligible \in SUBSET (0 .. N-1) /\ i \in 0 .. N-1
  BY CapacityAssumption DEF BaseTypeOK, Nodes
<1>2. /\ eligible' \in SUBSET (0 .. N-1)
      /\ live' = Cardinality(eligible')
  BY <1>1, CountFollows DEF Flip, LiveExact
<1>3. Cardinality(eligible') \in 0 .. N
  BY <1>1, <1>2, CountInRange
<1> QED
  BY <1>2, <1>3 DEF BaseTypeOK, LiveExact, Nodes

(* What a key's walk meets at distance d, and how far the walk goes. *)
Met(s, d) == lookup[(s + d) % M]
Reach == ProbeLimit + M

(* The pick is the first endpoint on the walk that is up. *)
IsFirstUp(s, d) ==
  /\ d \in 0 .. Reach
  /\ Met(s, d) \in eligible
  /\ \A e \in 0 .. Reach : Met(s, e) \in eligible => d <= e
Walks(s) ==
  IF wmask /\ \E d \in 0 .. Reach : Met(s, d) \in eligible
  THEN \E d \in 0 .. Reach : IsFirstUp(s, d) /\ PlainRoute(s) = Met(s, d)
  ELSE PlainRoute(s) = NONE

BaseInv == BaseTypeOK /\ LiveExact

(* The nearest of the slots from .. to whose endpoint is up. *)
LEMMA NearestIsFirst ==
  ASSUME NEW s, NEW from \in Nat, NEW to \in Nat, Up(s, from, to) # {}
  PROVE  \E d \in Up(s, from, to) :
           /\ NearestUp(s, from, to) = Met(s, d)
           /\ \A e \in Up(s, from, to) : d <= e
<1> DEFINE nearest(d) == \A e \in Up(s, from, to) : d <= e
           c == CHOOSE d \in Up(s, from, to) : nearest(d)
<1>1. Up(s, from, to) \in SUBSET Nat
  BY DEF Up
<1>2. \E d \in Up(s, from, to) : nearest(d)
  BY <1>1, LeastExists
<1>3. c \in Up(s, from, to) /\ nearest(c)
  BY <1>2
<1>4. NearestUp(s, from, to) = Met(s, c)
  BY DEF NearestUp, Met
<1> QED
  BY <1>3, <1>4

(* Probe, then sweep: the pick is the first endpoint on the walk that is   *)
(* up.                                                                     *)
LEMMA PickWalks == BaseInv => \A s \in Slots : Walks(s)
<1> SUFFICES ASSUME BaseInv, NEW s \in Slots PROVE Walks(s)
  OBVIOUS
<1>1. ProbeLimit \in Nat /\ M \in Nat /\ Reach \in Nat
  BY TableAssumption DEF Reach
<1>2. (live = 0) = (eligible = {})
  <2>1. IsFiniteSet(eligible) /\ live = Cardinality(eligible)
    BY CountInRange, CapacityAssumption DEF BaseInv, BaseTypeOK, LiveExact, Nodes
  <2> QED
    BY <2>1, FS_EmptySet
<1>3. CASE ~wmask \/ eligible = {}
  <2>1. PlainRoute(s) = NONE
    BY <1>2, <1>3 DEF PlainRoute
  <2> QED
    BY <2>1, <1>3 DEF Walks
<1>4. CASE wmask /\ eligible # {} /\ Up(s, 0, ProbeLimit) # {}
  <2>1. PICK d \in Up(s, 0, ProbeLimit) :
          /\ NearestUp(s, 0, ProbeLimit) = Met(s, d)
          /\ \A e \in Up(s, 0, ProbeLimit) : d <= e
    BY <1>1, <1>4, NearestIsFirst
  <2>2. d \in 0 .. ProbeLimit /\ d \in 0 .. Reach /\ Met(s, d) \in eligible
    BY <1>1 DEF Up, Met, Reach
  <2>3. ASSUME NEW e \in 0 .. Reach, Met(s, e) \in eligible PROVE d <= e
    <3>1. CASE e <= ProbeLimit
      <4>1. e \in Up(s, 0, ProbeLimit)
        BY <1>1, <2>3, <3>1 DEF Up, Met
      <4> QED
        BY <4>1, <2>1
    <3>2. CASE e > ProbeLimit
      BY <1>1, <2>2, <3>2
    <3> QED
      BY <1>1, <3>1, <3>2
  <2>4. PlainRoute(s) = Met(s, d)
    BY <1>2, <1>4, <2>1 DEF PlainRoute
  <2> QED
    BY <1>4, <2>2, <2>3, <2>4 DEF Walks, IsFirstUp
<1>5. CASE wmask /\ eligible # {} /\ Up(s, 0, ProbeLimit) = {}
  <2>1. \A e \in 0 .. ProbeLimit : Met(s, e) \notin eligible
    BY <1>5 DEF Up, Met
  <2>2. PlainRoute(s) = Sweep(s)
    BY <1>2, <1>5 DEF PlainRoute
  <2>3. CASE Up(s, ProbeLimit + 1, ProbeLimit + M) = {}
    <3>1. \A e \in 0 .. Reach : Met(s, e) \notin eligible
      BY <1>1, <2>1, <2>3 DEF Up, Met, Reach
    <3> QED
      BY <3>1, <2>2, <2>3 DEF Walks, Sweep
  <2>4. CASE Up(s, ProbeLimit + 1, ProbeLimit + M) # {}
    <3>1. PICK d \in Up(s, ProbeLimit + 1, ProbeLimit + M) :
            /\ NearestUp(s, ProbeLimit + 1, ProbeLimit + M) = Met(s, d)
            /\ \A e \in Up(s, ProbeLimit + 1, ProbeLimit + M) : d <= e
      BY <1>1, <2>4, NearestIsFirst
    <3>2. d \in 0 .. Reach /\ Met(s, d) \in eligible
      BY <1>1 DEF Up, Met, Reach
    <3>3. ASSUME NEW e \in 0 .. Reach, Met(s, e) \in eligible PROVE d <= e
      <4>1. e > ProbeLimit
        BY <1>1, <2>1, <3>3
      <4>2. e \in Up(s, ProbeLimit + 1, ProbeLimit + M)
        BY <1>1, <3>3, <4>1 DEF Up, Met, Reach
      <4> QED
        BY <4>2, <3>1
    <3>4. PlainRoute(s) = Met(s, d)
      BY <2>2, <2>4, <3>1 DEF Sweep
    <3> QED
      BY <1>5, <3>2, <3>3, <3>4 DEF Walks, IsFirstUp
  <2> QED
    BY <2>3, <2>4
<1> QED
  BY <1>3, <1>4, <1>5

(* A flip of i leaves the walk, and the side of every other endpoint.      *)
LEMMA FlipMovesOwnKeys ==
  ASSUME BaseInv, BaseInv', NEW i \in Nodes, NEW up \in BOOLEAN, SetEligible(i, up),
         NEW s \in Slots, Walks(s), Walks(s)'
  PROVE  PlainRoute(s)' # PlainRoute(s) => i \in {PlainRoute(s), PlainRoute(s)'}
<1> SUFFICES ASSUME PlainRoute(s)' # i, PlainRoute(s) # i
             PROVE  PlainRoute(s)' = PlainRoute(s)
  OBVIOUS
<1>1. wmask' = wmask /\ \A d \in 0 .. Reach : Met(s, d)' = Met(s, d)
  BY DEF SetEligible, tableVars, Met
<1>2. \A j : j # i => (j \in eligible' <=> j \in eligible)
  BY DEF SetEligible, Flip
<1>3. Reach \in Nat
  BY TableAssumption DEF Reach
<1>4. CASE ~wmask
  BY <1>1, <1>4 DEF Walks
<1>5. CASE wmask /\ PlainRoute(s) # NONE /\ PlainRoute(s)' # NONE
  <2>1. PICK d \in 0 .. Reach : IsFirstUp(s, d) /\ PlainRoute(s) = Met(s, d)
    BY <1>5 DEF Walks
  <2>2. PICK e \in 0 .. Reach : IsFirstUp(s, e)' /\ PlainRoute(s)' = Met(s, e)'
    BY <1>5 DEF Walks
  <2>3. Met(s, d) \in eligible' /\ Met(s, e) \in eligible
    BY <1>1, <1>2, <2>1, <2>2 DEF IsFirstUp
  <2>4. d <= e
    BY <2>1, <2>3 DEF IsFirstUp
  <2>5. e <= d
    <3>1. \A c \in 0 .. Reach : Met(s, c)' \in eligible' => e <= c
      BY <2>2 DEF IsFirstUp
    <3> QED
      BY <1>1, <2>3, <3>1
  <2> QED
    BY <1>1, <1>3, <2>1, <2>2, <2>4, <2>5
<1>6. CASE wmask /\ PlainRoute(s) = NONE /\ PlainRoute(s)' # NONE
  <2>1. PICK e \in 0 .. Reach : IsFirstUp(s, e)' /\ PlainRoute(s)' = Met(s, e)'
    BY <1>6 DEF Walks
  <2>2. Met(s, e) \in eligible
    BY <1>1, <1>2, <2>1 DEF IsFirstUp
  <2>3. PICK d \in 0 .. Reach : IsFirstUp(s, d) /\ PlainRoute(s) = Met(s, d)
    BY <1>6, <2>2 DEF Walks
  <2>4. NONE \in eligible
    BY <1>6, <2>3 DEF IsFirstUp
  <2> QED
    BY <2>4, CapacityAssumption DEF BaseInv, BaseTypeOK, Nodes, NONE
<1>7. CASE wmask /\ PlainRoute(s) # NONE /\ PlainRoute(s)' = NONE
  <2>1. PICK d \in 0 .. Reach : IsFirstUp(s, d) /\ PlainRoute(s) = Met(s, d)
    BY <1>7 DEF Walks
  <2>2. Met(s, d)' \in eligible'
    BY <1>1, <1>2, <2>1 DEF IsFirstUp
  <2>3. PICK e \in 0 .. Reach : IsFirstUp(s, e)' /\ PlainRoute(s)' = Met(s, e)'
    BY <1>1, <1>7, <2>2 DEF Walks
  <2>4. NONE \in eligible'
    BY <1>7, <2>3 DEF IsFirstUp
  <2> QED
    BY <2>4, CapacityAssumption DEF BaseInv, BaseTypeOK, Nodes, NONE
<1>8. CASE wmask /\ PlainRoute(s) = NONE /\ PlainRoute(s)' = NONE
  BY <1>8
<1> QED
  BY <1>4, <1>5, <1>6, <1>7, <1>8

(* The base state stays well typed and its count exact.                    *)
LEMMA BaseInvInductive == BaseInv /\ [Next]_vars => BaseInv'
<1> SUFFICES ASSUME BaseInv, [Next]_vars PROVE BaseInv'
  OBVIOUS
<1>1. ASSUME NEW i \in Nodes, NEW up \in BOOLEAN, SetEligible(i, up) PROVE BaseInv'
  BY <1>1, FlipKeepsExact DEF SetEligible, BaseInv
<1>2. ASSUME UNCHANGED baseVars PROVE BaseInv'
  BY <1>2 DEF baseVars, BaseInv, BaseTypeOK, LiveExact
<1>3. ASSUME NEW slot \in Slots, Dispatch(slot) PROVE BaseInv'
  BY <1>2, <1>3 DEF Dispatch
<1>4. ASSUME NEW i \in Nodes, Settle(i) PROVE BaseInv'
  BY <1>2, <1>4 DEF Settle
<1>5. ASSUME NEW i \in Nodes, NEW w \in Weights, SetWeight(i, w) PROVE BaseInv'
  BY <1>2, <1>5 DEF SetWeight
<1>6. ASSUME NEW w \in Batches, SetWeights(w) PROVE BaseInv'
  BY <1>2, <1>6 DEF SetWeights
<1>7. CASE Rebuild
  BY <1>2, <1>7 DEF Rebuild
<1>8. CASE UNCHANGED vars
  BY <1>2, <1>8 DEF vars
<1> QED
  BY <1>1, <1>3, <1>4, <1>5, <1>6, <1>7, <1>8 DEF Next, Reconfigure

LEMMA BaseInvAlways == Spec => []BaseInv
<1>1. Init => BaseInv
  BY BaseInitExact DEF Init, TableInit, BaseInv
<1> QED
  BY <1>1, BaseInvInductive, PTL DEF Spec

(* Minimal disruption for every table, hash, probe limit and history of    *)
(* reweights: a health flip of one endpoint moves only the keys it had or  *)
(* gets (ConsistentHashBalancer.pick over setEligible).                    *)
THEOREM FlipsDisruptMinimally == Spec => MinimalDisruption
<1> DEFINE Flips ==
      \A i \in Nodes, up \in BOOLEAN : SetEligible(i, up) =>
        \A s \in Slots : PlainRoute(s)' # PlainRoute(s) => i \in {PlainRoute(s), PlainRoute(s)'}
<1>1. BaseInv /\ BaseInv' /\ (\A s \in Slots : Walks(s)) /\ (\A s \in Slots : Walks(s))' => Flips
  <2> SUFFICES ASSUME BaseInv, BaseInv', \A s \in Slots : Walks(s), (\A s \in Slots : Walks(s))',
                      NEW i \in Nodes, NEW up \in BOOLEAN, SetEligible(i, up), NEW s \in Slots
               PROVE  PlainRoute(s)' # PlainRoute(s) => i \in {PlainRoute(s), PlainRoute(s)'}
    OBVIOUS
  <2>1. Walks(s) /\ Walks(s)'
    BY DEF Slots
  <2> QED
    BY <2>1, FlipMovesOwnKeys
<1>2. Spec => [][Flips]_<<baseVars, tableVars>>
  <2> HIDE DEF Flips
  <2> QED
    BY <1>1, BaseInvAlways, PickWalks, PTL
<1> QED
  BY <1>2 DEF MinimalDisruption

------------------------------------------------------------------------------
(* The table *)

LEMMA TableSets ==
  /\ IsFiniteSet(Nodes) /\ Cardinality(Nodes) = N /\ N \in Nat \ {0}
  /\ IsFiniteSet(Slots) /\ Cardinality(Slots) = M /\ M \in Nat \ {0}
  /\ M >= 2 /\ \A d \in 2 .. M-1 : M % d # 0
  /\ NONE \notin Nodes
<1>1. N \in Nat \ {0} /\ M \in Nat /\ M >= 2 /\ \A d \in 2 .. M-1 : M % d # 0
  BY CapacityAssumption, TableAssumption DEF IsPrime
<1> QED
  BY <1>1, BelowFinite DEF Nodes, Slots, NONE

(* The quotas add up to the table, and each is its weight's share to       *)
(* within one slot: the leftover is at most a slot for each endpoint that  *)
(* has weight, so all of it is dealt.                                      *)
LEMMA QuotaShares ==
  ASSUME NEW w \in [Nodes -> Nat], SumFunction(w) > 0
  PROVE  /\ Quota(w) \in [Nodes -> Nat] /\ SumFunction(Quota(w)) = M
         /\ \A b \in Nodes : /\ w[b] = 0 => Quota(w)[b] = 0
                             /\ Quota(w)[b] <= M
                             /\ Quota(w)[b] * SumFunction(w) <= w[b] * M + SumFunction(w)
                             /\ w[b] * M <= Quota(w)[b] * SumFunction(w) + SumFunction(w)
<1> DEFINE floor == [b \in Nodes |-> (w[b] * M) \div SumFunction(w)]
           left == M - SumFunction(floor)
           before(b) == Cardinality({c \in Nodes : c < b /\ w[c] > 0})
           D == {b \in Nodes : w[b] > 0 /\ before(b) < left}
           one == [b \in Nodes |-> IF b \in D THEN 1 ELSE 0]
           some == [b \in Nodes |-> IF w[b] > 0 THEN 1 ELSE 0]
           P == {b \in Nodes : w[b] > 0}
<1>1. Quota(w) = [b \in Nodes |-> floor[b] + one[b]]
  BY DEF Quota
<1>2. PICK total \in Nat \ {0} : total = SumFunction(w)
  BY TableSets, SumAllNat
<1>3. \A b \in Nodes : /\ floor[b] \in Nat /\ w[b] \in Nat
                       /\ floor[b] * total <= w[b] * M
                       /\ w[b] * M <= floor[b] * total + total * some[b]
                       /\ w[b] = 0 => floor[b] = 0
  <2> SUFFICES ASSUME NEW b \in Nodes
               PROVE  /\ floor[b] \in Nat /\ w[b] \in Nat
                      /\ floor[b] * total <= w[b] * M
                      /\ w[b] * M <= floor[b] * total + total * some[b]
                      /\ w[b] = 0 => floor[b] = 0
    OBVIOUS
  <2>1. PICK x \in Nat : x = w[b] * M
    BY TableSets
  <2>2. /\ x \div total \in Nat /\ x = ((x \div total) * total) + (x % total)
        /\ x % total \in 0 .. total-1
    BY DivMod
  <2>3. PICK f \in Nat, r \in 0 .. total-1 : f = x \div total /\ x = f * total + r
    BY <2>2
  <2>4. floor[b] = f
    BY <1>2, <2>1, <2>3
  <2>5. f * total \in Nat
    OBVIOUS
  <2>6. CASE w[b] > 0
    <3>1. total * some[b] = total
      BY <2>6
    <3> QED
      BY <2>1, <2>3, <2>4, <2>5, <2>6, <3>1
  <2>7. CASE ~(w[b] > 0)
    <3>1. w[b] = 0 /\ total * some[b] = 0 /\ x = 0
      BY <2>1, <2>7, TableSets
    <3>2. f * total = 0
      BY <2>3, <2>5, <3>1
    <3>3. f = 0
      <4>1. CASE f > 0
        <5>1. 0 * total + total <= f * total
          BY <4>1, MulStrict
        <5> QED
          BY <3>2, <5>1
      <4> QED
        BY <4>1
    <3> QED
      BY <2>1, <2>4, <3>1, <3>2, <3>3
  <2> QED
    BY <2>6, <2>7
<1> HIDE DEF floor
<1>4. /\ floor = [b \in Nodes |-> floor[b]] /\ some = [b \in Nodes |-> some[b]]
      /\ IsFiniteSet(Nodes) /\ M \in Nat \ {0}
  BY TableSets DEF floor
<1>5. PICK sum \in Nat, rest \in Nat :
        sum = SumFunction(floor) /\ sum <= M /\ rest = M - sum /\ rest <= Cardinality(P)
  <2>1. PICK f, g, h, x, y, z : /\ f = floor /\ h = some
                                /\ g = [b \in Nodes |-> total * f[b]]
                                /\ x = [b \in Nodes |-> M * w[b]]
                                /\ y = [b \in Nodes |-> total * h[b]]
                                /\ z = [b \in Nodes |-> g[b] + y[b]]
    OBVIOUS
  <2>2. \A b \in Nodes : /\ f[b] \in Nat /\ h[b] \in Nat /\ w[b] \in Nat
                         /\ g[b] = total * f[b] /\ x[b] = M * w[b] /\ y[b] = total * h[b]
                         /\ z[b] = g[b] + y[b]
    BY <1>3, <2>1
  <2>3. \A b \in Nodes : g[b] \in Int /\ x[b] \in Int /\ y[b] \in Int /\ z[b] \in Int
    BY <1>4, <2>2
  <2>4. \A b \in Nodes : g[b] <= x[b] /\ x[b] <= z[b]
    <3> SUFFICES ASSUME NEW b \in Nodes PROVE g[b] <= x[b] /\ x[b] <= z[b]
      OBVIOUS
    <3>1. /\ floor[b] * total <= w[b] * M /\ w[b] * M <= floor[b] * total + total * some[b]
          /\ floor[b] \in Nat /\ w[b] \in Nat
      BY <1>3
    <3>2. g[b] = floor[b] * total /\ x[b] = w[b] * M /\ y[b] = total * some[b]
      BY <1>4, <2>1, <2>2, <3>1
    <3> QED
      BY <2>2, <2>3, <3>1, <3>2
  <2>5. /\ SumFunctionOnSet(g, Nodes) = total * SumFunctionOnSet(f, Nodes)
        /\ SumFunctionOnSet(f, Nodes) \in Nat
    <3>1. total \in Int /\ \A b \in Nodes : f[b] \in Int /\ g[b] = total * f[b]
      BY <2>2
    <3>2. SumFunctionOnSet(g, Nodes) = total * SumFunctionOnSet(f, Nodes)
      BY ONLY <1>4, <3>1, SumScale
    <3>3. SumFunctionOnSet(f, Nodes) \in Nat
      BY <1>4, <2>2, SumNat
    <3> QED
      BY <3>2, <3>3
  <2>6. SumFunctionOnSet(x, Nodes) = M * SumFunctionOnSet(w, Nodes)
    BY <1>4, <2>2, SumScale
  <2>7. SumFunctionOnSet(h, Nodes) = Cardinality(P) /\ Cardinality(P) \in Nat
    <3>1. PICK Q : Q = P
      OBVIOUS
    <3>2. Q \in SUBSET Nodes /\ \A b \in Nodes : h[b] = IF b \in Q THEN 1 ELSE 0
      BY <2>1, <3>1
    <3> QED
      BY <1>4, <3>1, <3>2, SumCount, FS_Subset, FS_CardinalityType
  <2>8. SumFunctionOnSet(y, Nodes) = total * SumFunctionOnSet(h, Nodes)
    <3>1. total \in Int /\ \A b \in Nodes : h[b] \in Int /\ y[b] = total * h[b]
      BY <2>2
    <3> QED
      BY ONLY <1>4, <3>1, SumScale
  <2>9. SumFunctionOnSet(z, Nodes) = SumFunctionOnSet(g, Nodes) + SumFunctionOnSet(y, Nodes)
    BY <1>4, <2>2, <2>3, SumPlus
  <2>10. /\ SumFunctionOnSet(g, Nodes) <= SumFunctionOnSet(x, Nodes)
         /\ SumFunctionOnSet(x, Nodes) <= SumFunctionOnSet(z, Nodes)
    BY <1>4, <2>3, <2>4, SumCompare
  <2>11. SumFunctionOnSet(w, Nodes) = total /\ SumFunctionOnSet(f, Nodes) = SumFunction(floor)
    BY <1>2, <1>4, <2>1 DEF SumFunction
  <2>12. PICK a \in Nat, p \in Nat : a = SumFunctionOnSet(f, Nodes) /\ p = Cardinality(P)
    BY <2>5, <2>7
  <2>13. total * a <= M * total /\ M * total <= total * a + total * p
    BY <2>5, <2>6, <2>7, <2>8, <2>9, <2>10, <2>11, <2>12
  <2>14. a <= M
    <3>1. CASE M < a
      <4>1. M * total + total <= a * total
        BY <1>4, <3>1, MulStrict
      <4>2. a * total = total * a /\ M * total \in Nat /\ total * a \in Nat
        BY <1>4
      <4> QED
        BY <2>13, <4>1, <4>2
    <3> QED
      BY <1>4, <3>1
  <2>15. M <= a + p
    <3>1. PICK c \in Nat : c = a + p
      OBVIOUS
    <3>2. CASE c < M
      <4>1. c * total + total <= M * total
        BY <1>4, <3>2, MulStrict
      <4>2. /\ c * total = total * a + total * p /\ M * total \in Nat
            /\ total * a \in Nat /\ total * p \in Nat
        BY <1>4, <3>1
      <4> QED
        BY <2>13, <4>1, <4>2
    <3> QED
      BY <1>4, <3>1, <3>2
  <2> QED
    <3>1. a = SumFunction(floor) /\ M - a \in Nat /\ M - a <= p
      BY <1>4, <2>11, <2>12, <2>14, <2>15
    <3> HIDE DEF P
    <3> QED
      BY <2>12, <2>14, <3>1
<1>6. SumFunctionOnSet(one, Nodes) = rest
  <2>1. PICK Q, Z : Q = P /\ Z = {b \in Q : Cardinality({c \in Q : c < b}) < rest}
    OBVIOUS
  <2>2. Q \in SUBSET (0 .. N-1)
    BY <2>1 DEF Nodes
  <2>3. Cardinality(Z) = rest
    BY <1>5, <2>1, <2>2, TableSets, LeastCount
  <2>4. \A b \in Nodes : {c \in Nodes : c < b /\ w[c] > 0} = {c \in Q : c < b}
    BY <2>1
  <2>5. \A b \in Nodes : b \in D <=> b \in Z
    BY <1>5, <2>1, <2>4
  <2>6. PICK f : f = one
    OBVIOUS
  <2>7. Z \in SUBSET Nodes /\ \A b \in Nodes : f[b] = IF b \in Z THEN 1 ELSE 0
    BY <2>1, <2>5, <2>6
  <2> QED
    BY <1>4, <2>3, <2>6, <2>7, SumCount
<1>7. \A b \in Nodes : one[b] \in {0, 1} /\ (w[b] = 0 => one[b] = 0)
  OBVIOUS
<1> HIDE DEF one, some, D, P, left, before
<1>8. PICK q : q = Quota(w)
  OBVIOUS
<1>9. \A b \in Nodes : q[b] = floor[b] + one[b] /\ q[b] \in Nat
  BY <1>1, <1>3, <1>7, <1>8
<1>10. q \in [Nodes -> Nat]
  BY <1>1, <1>8, <1>9
<1>11. SumFunction(q) = M
  <2>1. PICK f, g : f = floor /\ g = one
    OBVIOUS
  <2>2. \A b \in Nodes : f[b] \in Int /\ g[b] \in Int /\ q[b] = f[b] + g[b]
    BY <1>3, <1>7, <1>9, <2>1
  <2>3. SumFunctionOnSet(q, Nodes) = SumFunctionOnSet(f, Nodes) + SumFunctionOnSet(g, Nodes)
    BY <1>4, <2>2, SumPlus
  <2>4. SumFunctionOnSet(f, Nodes) = sum /\ SumFunctionOnSet(g, Nodes) = rest
    BY <1>4, <1>5, <1>6, <2>1 DEF SumFunction
  <2> QED
    BY <1>4, <1>5, <1>10, <2>3, <2>4 DEF SumFunction
<1>12. ASSUME NEW b \in Nodes
       PROVE  /\ w[b] = 0 => q[b] = 0
              /\ q[b] <= M
              /\ q[b] * total <= w[b] * M + total
              /\ w[b] * M <= q[b] * total + total
  <2>1. q[b] <= M
    BY <1>4, <1>10, <1>11, SumAllNat
  <2>2. PICK f \in Nat, e \in {0, 1}, x \in Nat, u \in Nat :
          f = floor[b] /\ e = one[b] /\ x = w[b] * M /\ u = f * total
    BY <1>3, <1>4, <1>7
  <2>3. u <= x /\ x <= u + total * some[b] /\ q[b] = f + e
    BY <1>3, <1>9, <2>2
  <2>4. total * some[b] <= total /\ total * some[b] \in Nat
    BY DEF some
  <2>5. q[b] * total = u + e * total /\ e * total \in {0, total}
    BY <2>2, <2>3
  <2>6. q[b] * total <= x + total /\ x <= q[b] * total + total
    BY <2>3, <2>4, <2>5
  <2>7. w[b] = 0 => q[b] = 0
    BY <1>3, <1>7, <1>9
  <2> QED
    BY <2>1, <2>2, <2>6, <2>7
<1> QED
  BY <1>2, <1>8, <1>10, <1>11, <1>12

(* The slots are those of the endpoints, and the free ones. *)
SlotsTaken(table) == [b \in Nodes |-> Cardinality(Owned(table, b))]
Filling == [Slots -> Nodes \cup {NONE}]

LEMMA FreeSlots ==
  ASSUME NEW table \in Filling
  PROVE  /\ SlotsTaken(table) \in [Nodes -> Nat]
         /\ SumFunction(SlotsTaken(table)) + Cardinality(Owned(table, NONE)) = M
         /\ SumFunction(SlotsTaken(table)) \in Nat
         /\ IsFiniteSet(Owned(table, NONE)) /\ Cardinality(Owned(table, NONE)) \in Nat
<1>1. \A v : IsFiniteSet(Owned(table, v)) /\ Cardinality(Owned(table, v)) \in Nat
  <2>1. \A v : Owned(table, v) \in SUBSET Slots
    BY DEF Owned
  <2> QED
    BY <2>1, TableSets, FS_Subset, FS_CardinalityType
<1>2. PICK V, g, own : /\ V = Nodes \cup {NONE} /\ own = SlotsTaken(table)
                       /\ g = [v \in V |-> Cardinality(Owned(table, v))]
  OBVIOUS
<1>3. own \in [Nodes -> Nat] /\ \A b \in Nodes : own[b] = g[b]
  BY <1>1, <1>2 DEF SlotsTaken
<1>4. IsFiniteSet(V) /\ table \in [Slots -> V]
  BY <1>2, TableSets, FS_AddElement DEF Filling
<1>5. \A v \in V : /\ g[v] = Cardinality({s \in Slots : table[s] = v})
                   /\ g[v] \in Int
  BY <1>1, <1>2 DEF Owned
<1>6. SumFunctionOnSet(g, V) = Cardinality(Slots)
  BY ONLY <1>4, <1>5, TableSets, SumFibres
<1>7. PICK none : none = NONE
  OBVIOUS
<1>8. none \notin Nodes /\ g[none] \in Int /\ \A b \in Nodes : g[b] \in Int
  BY <1>2, <1>5, <1>7, TableSets
<1>9. SumFunctionOnSet(g, Nodes \cup {none}) = SumFunctionOnSet(g, Nodes) + g[none]
  BY ONLY <1>8, TableSets, SumAdd
<1>10. SumFunctionOnSet(own, Nodes) = SumFunctionOnSet(g, Nodes)
  <2>1. \A b \in Nodes : own[b] \in Int /\ own[b] = g[b]
    BY <1>3
  <2> QED
    BY ONLY <2>1, TableSets, SumAgree
<1>11. SumFunction(own) = SumFunctionOnSet(own, Nodes) /\ SumFunction(own) \in Nat
  BY <1>3, TableSets, SumAllNat DEF SumFunction
<1>12. g[none] = Cardinality(Owned(table, NONE))
  BY <1>2, <1>7
<1> QED
  BY <1>1, <1>2, <1>3, <1>6, <1>7, <1>9, <1>10, <1>11, <1>12, TableSets

(* An endpoint below its quota takes a slot that is free: there is one, as *)
(* long as the quotas add up to the table, and its permutation comes to    *)
(* every slot.                                                             *)
LEMMA FindsFree ==
  ASSUME mix \in [Nodes -> Mix], NEW table \in Filling, NEW b \in Nodes, NEW s \in Slots,
         table[s] = NONE
  PROVE  Free(table, b) \in Slots /\ table[Free(table, b)] = NONE
<1> DEFINE slot(j) == (mix[b].offset + j * mix[b].skip) % M
           isFirst(j) == table[slot(j)] = NONE /\ \A k \in 0 .. j-1 : table[slot(k)] # NONE
           T == {j \in 0 .. M-1 : table[slot(j)] = NONE}
<1>1. mix[b].offset \in 0 .. M-1 /\ mix[b].skip \in 1 .. M-1
  BY DEF Mix, Slots
<1>2. PICK o \in 0 .. M-1, k \in 1 .. M-1 : o = mix[b].offset /\ k = mix[b].skip
  BY <1>1
<1>3. \A j : slot(j) = (o + j * k) % M
  BY <1>2
<1>4. \E j \in 0 .. M-1 : slot(j) = s
  <2>1. \E j \in 0 .. M-1 : (o + j * k) % M = s
    <3>1. /\ M \in Nat /\ M >= 2 /\ \A d \in 2 .. M-1 : M % d # 0
          /\ s \in 0 .. M-1
      BY TableSets DEF Slots
    <3> QED
      BY ONLY <3>1, o \in 0 .. M-1, k \in 1 .. M-1, PrimeStride
  <2> QED
    BY <1>3, <2>1
<1>5. T # {} /\ T \in SUBSET Nat
  BY <1>4, TableSets
<1>6. \E j \in 0 .. M-1 : isFirst(j)
  <2>1. PICK j \in T : \A i \in T : j <= i
    <3> HIDE DEF T
    <3> QED
      BY <1>5, LeastExists
  <2>2. j \in 0 .. M-1 /\ table[slot(j)] = NONE
    OBVIOUS
  <2>3. ASSUME NEW i \in 0 .. j-1 PROVE table[slot(i)] # NONE
    <3>1. i \in 0 .. M-1 /\ ~(j <= i)
      BY <2>2, TableSets
    <3> QED
      BY <2>1, <3>1
  <2> QED
    BY <2>2, <2>3
<1>7. PICK f : f = CHOOSE j \in 0 .. M-1 : isFirst(j)
  OBVIOUS
<1>8. f \in 0 .. M-1 /\ isFirst(f)
  BY <1>6, <1>7
<1>9. Free(table, b) = slot(f)
  BY <1>7 DEF Free
<1>10. slot(f) \in 0 .. M-1
  <2>1. f \in Nat /\ o \in Nat /\ k \in Nat
    BY <1>8
  <2>2. PICK x \in Nat : x = o + f * k
    BY <2>1
  <2>3. x % M \in 0 .. M-1
    BY TableSets, DivMod
  <2> QED
    BY <1>3, <2>2, <2>3
<1> QED
  BY <1>8, <1>9, <1>10 DEF Slots

LEMMA TakesFree ==
  ASSUME mix \in [Nodes -> Mix], NEW q \in [Nodes -> Nat], SumFunction(q) = M,
         NEW table \in Filling, \A a \in Nodes : Cardinality(Owned(table, a)) <= q[a],
         NEW b \in Nodes, Cardinality(Owned(table, b)) < q[b]
  PROVE  /\ Take(table, b, q) \in Filling
         /\ \A a \in Nodes : Cardinality(Owned(Take(table, b, q), a))
                               = Cardinality(Owned(table, a)) + (IF a = b THEN 1 ELSE 0)
<1>1. PICK own \in [Nodes -> Nat] : own = SlotsTaken(table)
  BY FreeSlots
<1>2. \A a \in Nodes : own[a] = Cardinality(Owned(table, a))
  BY <1>1 DEF SlotsTaken
<1>3. SumFunction(own) < M
  <2>1. PICK more, T : more = [own EXCEPT ![b] = @ + 1] /\ T = {b}
    OBVIOUS
  <2>2. more \in [Nodes -> Nat] /\ \A a \in Nodes : more[a] <= q[a]
    BY <1>2, <2>1
  <2>3. /\ T \in SUBSET Nodes /\ Cardinality(T) = 1
        /\ \A a \in Nodes : more[a] = own[a] + (IF a \in T THEN 1 ELSE 0)
    <3>1. T \in SUBSET Nodes /\ Cardinality(T) = 1
      BY <2>1, FS_Singleton
    <3>2. \A a \in Nodes : more[a] = own[a] + (IF a \in T THEN 1 ELSE 0)
      BY ONLY <2>1, own \in [Nodes -> Nat], b \in Nodes
    <3> QED
      BY <3>1, <3>2
  <2>4. SumFunction(more) = SumFunction(own) + Cardinality(T)
    BY ONLY <2>2, <2>3, own \in [Nodes -> Nat], TableSets, SumTaken
  <2>6. SumFunctionOnSet(more, Nodes) <= SumFunctionOnSet(q, Nodes)
    <3>1. \A a \in Nodes : more[a] \in Int /\ q[a] \in Int /\ more[a] <= q[a]
      BY <2>2
    <3> QED
      BY ONLY <3>1, TableSets, SumCompare
  <2>7. SumFunction(more) <= M
    BY <2>2, <2>6 DEF SumFunction
  <2>8. SumFunction(own) \in Nat
    BY TableSets, SumAllNat
  <2> QED
    BY <2>3, <2>4, <2>7, <2>8, TableSets
<1>4. PICK s \in Slots : table[s] = NONE
  <2>1. Cardinality(Owned(table, NONE)) # 0
    BY <1>1, <1>3, FreeSlots, TableSets
  <2>2. Owned(table, NONE) # {}
    BY <2>1, FS_EmptySet
  <2> QED
    BY <2>2 DEF Owned
<1>5. PICK f \in Slots : f = Free(table, b) /\ table[f] = NONE
  BY <1>4, FindsFree
<1>6. Take(table, b, q) = [table EXCEPT ![f] = b]
  BY <1>2, <1>5 DEF Take
<1>7. PICK t : t = [table EXCEPT ![f] = b]
  OBVIOUS
<1>8. t \in Filling /\ t[f] = b /\ \A s2 \in Slots \ {f} : t[s2] = table[s2]
  BY <1>5, <1>7 DEF Filling
<1>9. ASSUME NEW a \in Nodes
      PROVE  Cardinality(Owned(t, a)) = Cardinality(Owned(table, a)) + (IF a = b THEN 1 ELSE 0)
  <2>1. PICK A, B : A = Owned(table, a) /\ B = Owned(t, a)
    OBVIOUS
  <2>2. /\ A \in SUBSET Slots /\ B \in SUBSET Slots /\ A \ {f} = B \ {f}
        /\ f \notin A /\ (f \in B <=> a = b)
    BY <1>5, <1>8, <2>1, TableSets DEF Owned
  <2>3. /\ Cardinality(B) = Cardinality(A) + (IF f \in B THEN 1 ELSE 0) - (IF f \in A THEN 1 ELSE 0)
        /\ Cardinality(A) \in Nat
    BY ONLY <2>2, <1>5, TableSets, CountOne
  <2> QED
    BY <2>1, <2>2, <2>3
<1> QED
  BY <1>6, <1>7, <1>8, <1>9

------------------------------------------------------------------------------
(* The turns *)

(* The recursion of Table, up to turn m. *)
Turns(g, m, q) ==
  g = [t \in 0 .. m |->
         IF t = 0 THEN [s \in Slots |-> NONE] ELSE Take(g[t-1], (t-1) % N, q)]

LEMMA TableUnfold ==
  ASSUME NEW w
  PROVE  Table(w) = LET filled == (CHOOSE g : Turns(g, M * N, Quota(w)))[M * N]
                    IN  [s \in Slots |-> IF filled[s] = NONE THEN 0 ELSE filled[s]]
  BY DEF Table, Turns

LEMMA TurnsExist ==
  ASSUME NEW q, NEW n \in Nat
  PROVE  \E g : Turns(g, n, q)
<1> DEFINE T == {m \in Nat : \E g : Turns(g, m, q)}
           none == [s \in Slots |-> NONE]
<1>1. 0 \in T
  <2>1. Turns([t \in 0 .. 0 |-> none], 0, q)
    BY DEF Turns
  <2> QED
    BY <2>1
<1>2. ASSUME NEW m \in T PROVE m + 1 \in T
  <2>1. PICK g : Turns(g, m, q)
    OBVIOUS
  <2>2. m \in Nat
    OBVIOUS
  <2> DEFINE h == [t \in 0 .. m+1 |-> IF t <= m THEN g[t] ELSE Take(g[m], m % N, q)]
  <2>3. ASSUME NEW t \in 0 .. m+1
        PROVE  h[t] = IF t = 0 THEN none ELSE Take(h[t-1], (t-1) % N, q)
    <3>1. CASE t = 0
      <4>1. g[0] = none
        BY <2>1, <2>2 DEF Turns
      <4> QED
        BY <2>2, <3>1, <4>1
    <3>2. CASE t # 0 /\ t <= m
      <4>1. g[t] = Take(g[t-1], (t-1) % N, q)
        BY <2>1, <2>2, <3>2 DEF Turns
      <4>2. h[t] = g[t] /\ h[t-1] = g[t-1]
        BY <2>2, <3>2
      <4> QED
        BY <3>2, <4>1, <4>2
    <3>3. CASE t = m + 1
      <4>1. h[t] = Take(g[m], m % N, q) /\ h[t-1] = g[m] /\ t - 1 = m /\ t # 0
        BY <2>2, <3>3
      <4> QED
        BY <4>1
    <3> QED
      BY <2>2, <3>1, <3>2, <3>3
  <2>4. Turns(h, m + 1, q)
    <3> HIDE DEF h
    <3>1. h = [t \in 0 .. m+1 |-> h[t]]
      BY DEF h
    <3> QED
      BY <2>3, <3>1 DEF Turns
  <2> QED
    BY <2>2, <2>4
<1>3. T \in SUBSET Nat
  OBVIOUS
<1> HIDE DEF T
<1>4. T = Nat
  BY <1>1, <1>2, <1>3, NatInduct
<1> QED
  BY <1>4 DEF T

(* After r rounds and j turns an endpoint has a slot for each of its turns *)
(* until it has its quota.                                                 *)
Least(x, y) == IF x <= y THEN x ELSE y
Fair(table, r, j, q) ==
  /\ table \in Filling
  /\ \A b \in Nodes : Cardinality(Owned(table, b))
                        = Least(IF b < j THEN r + 1 ELSE r, q[b])

LEMMA TurnFair ==
  ASSUME mix \in [Nodes -> Mix], NEW q \in [Nodes -> Nat], SumFunction(q) = M,
         NEW table, NEW r \in Nat, NEW j \in Nodes, Fair(table, r, j, q)
  PROVE  Fair(Take(table, j, q), r, j + 1, q)
<1>1. \A b \in Nodes : b < j + 1 <=> (b < j \/ b = j)
  BY TableSets DEF Nodes
<1>2. ~(j < j) /\ q[j] \in Nat
  BY TableSets DEF Nodes
<1>3. Cardinality(Owned(table, j)) = Least(r, q[j])
  BY <1>2 DEF Fair
<1>4. CASE q[j] <= r
  <2>1. Take(table, j, q) = table
    BY <1>2, <1>3, <1>4 DEF Take, Least
  <2>2. Least(r, q[j]) = Least(r + 1, q[j])
    BY <1>2, <1>4 DEF Least
  <2>3. ASSUME NEW b \in Nodes
        PROVE  Cardinality(Owned(table, b)) = Least(IF b < j + 1 THEN r + 1 ELSE r, q[b])
    <3>1. CASE b = j
      BY <1>1, <1>3, <2>2, <3>1
    <3>2. CASE b # j
      BY <1>1, <3>2 DEF Fair
    <3> QED
      BY <3>1, <3>2
  <2> QED
    BY <2>1, <2>3 DEF Fair
<1>5. CASE ~(q[j] <= r)
  <2>1. table \in Filling /\ \A a \in Nodes : Cardinality(Owned(table, a)) <= q[a]
    BY DEF Fair, Least
  <2>2. Cardinality(Owned(table, j)) = r /\ r < q[j]
    BY <1>2, <1>3, <1>5 DEF Least
  <2>3. /\ Take(table, j, q) \in Filling
        /\ \A a \in Nodes : Cardinality(Owned(Take(table, j, q), a))
                              = Cardinality(Owned(table, a)) + (IF a = j THEN 1 ELSE 0)
    BY <2>1, <2>2, TakesFree
  <2>4. ASSUME NEW b \in Nodes
        PROVE  Cardinality(Owned(Take(table, j, q), b))
                 = Least(IF b < j + 1 THEN r + 1 ELSE r, q[b])
    <3>1. CASE b = j
      <4>1. Least(r + 1, q[j]) = r + 1
        BY <1>2, <2>2 DEF Least
      <4> QED
        BY <1>1, <2>2, <2>3, <3>1, <4>1
    <3>2. CASE b # j
      <4>1. Cardinality(Owned(table, b)) = Least(IF b < j THEN r + 1 ELSE r, q[b])
        BY DEF Fair
      <4>2. Cardinality(Owned(table, b)) \in Nat
        BY <4>1 DEF Least
      <4> QED
        BY <1>1, <2>3, <3>2, <4>1, <4>2
    <3> QED
      BY <3>1, <3>2
  <2> QED
    BY <2>3, <2>4 DEF Fair
<1> QED
  BY <1>4, <1>5

LEMMA TurnsFair ==
  ASSUME mix \in [Nodes -> Mix], NEW q \in [Nodes -> Nat], SumFunction(q) = M,
         NEW n \in Nat, NEW g, Turns(g, n * N, q)
  PROVE  Fair(g[n * N], n, 0, q)
<1> DEFINE T == {t \in Nat : t <= n * N =>
                   \E r \in Nat, j \in Nodes : t = r * N + j /\ Fair(g[t], r, j, q)}
<1>1. n * N \in Nat /\ 0 \in Nodes /\ N \in Nat \ {0}
  BY TableSets DEF Nodes
<1>2. 0 \in T
  <2>1. g[0] = [s \in Slots |-> NONE]
    BY <1>1 DEF Turns
  <2>2. ASSUME NEW b \in Nodes PROVE Cardinality(Owned(g[0], b)) = Least(0, q[b])
    <3>1. Owned(g[0], b) = {}
      BY <2>1, TableSets DEF Owned
    <3>2. Least(0, q[b]) = 0
      BY DEF Least
    <3> QED
      BY <3>1, <3>2, FS_EmptySet
  <2>3. \A b \in Nodes : ~(b < 0)
    BY <1>1 DEF Nodes
  <2>4. Fair(g[0], 0, 0, q)
    BY <2>1, <2>2, <2>3 DEF Fair, Filling
  <2>5. 0 = 0 * N + 0
    BY <1>1
  <2> QED
    BY <1>1, <2>4, <2>5
<1>3. ASSUME NEW t \in T PROVE t + 1 \in T
  <2> SUFFICES ASSUME t + 1 <= n * N
               PROVE  \E r \in Nat, j \in Nodes : t + 1 = r * N + j /\ Fair(g[t+1], r, j, q)
    OBVIOUS
  <2>1. t \in Nat /\ t <= n * N
    BY <1>1
  <2>2. PICK r \in Nat, j \in Nodes : t = r * N + j /\ Fair(g[t], r, j, q)
    BY <2>1
  <2>3. g[t+1] = Take(g[t], t % N, q)
    <3>1. t + 1 \in 0 .. n * N /\ t + 1 # 0 /\ (t + 1) - 1 = t
      BY <1>1, <2>1
    <3> QED
      BY <3>1 DEF Turns
  <2>4. t % N = j
    BY <1>1, <2>2, ModOf DEF Nodes
  <2>5. Fair(g[t+1], r, j + 1, q)
    BY <2>2, <2>3, <2>4, TurnFair
  <2>6. CASE j + 1 < N
    <3>1. j + 1 \in Nodes /\ t + 1 = r * N + (j + 1)
      BY <1>1, <2>2, <2>6 DEF Nodes
    <3> QED
      BY <2>5, <3>1
  <2>7. CASE ~(j + 1 < N)
    <3>1. j + 1 = N
      BY <1>1, <2>7 DEF Nodes
    <3>2. t + 1 = (r + 1) * N + 0
      <4>1. (r + 1) * N = r * N + N /\ r * N \in Nat /\ j \in Nat
        BY <1>1 DEF Nodes
      <4> QED
        BY <1>1, <2>2, <3>1, <4>1
    <3>3. \A b \in Nodes : b < j + 1 /\ ~(b < 0)
      BY <1>1, <3>1 DEF Nodes
    <3>4. Fair(g[t+1], r + 1, 0, q)
      BY <2>5, <3>3 DEF Fair
    <3> QED
      BY <1>1, <3>2, <3>4
  <2> QED
    BY <2>6, <2>7
<1>4. T \in SUBSET Nat
  OBVIOUS
<1>5. T = Nat
  <2> HIDE DEF T
  <2> QED
    BY <1>2, <1>3, <1>4, NatInduct
<1>6. PICK r \in Nat, j \in Nodes : n * N = r * N + j /\ Fair(g[n * N], r, j, q)
  BY <1>1, <1>5
<1>7. r = n /\ j = 0
  <2>1. j \in 0 .. N-1 /\ 0 \in 0 .. N-1
    BY <1>1 DEF Nodes
  <2>2. (r * N + j) % N = j /\ (r * N + j) \div N = r
    BY <1>1, <2>1, ModOf
  <2>3. (n * N + 0) % N = 0 /\ (n * N + 0) \div N = n
    BY <1>1, <2>1, ModOf
  <2>4. n * N + 0 = n * N
    BY <1>1
  <2> QED
    BY <1>6, <2>2, <2>3, <2>4
<1> QED
  BY <1>6, <1>7

(* The whole table: every slot has an endpoint, and each endpoint as many  *)
(* as its quota says.                                                      *)
LEMMA TableFilled ==
  ASSUME mix \in [Nodes -> Mix], NEW w \in [Nodes -> Nat], SumFunction(w) > 0
  PROVE  /\ Table(w) \in [Slots -> Nodes]
         /\ \A b \in Nodes : Cardinality(Owned(Table(w), b)) = Quota(w)[b]
<1>1. PICK q \in [Nodes -> Nat] :
        q = Quota(w) /\ SumFunction(q) = M /\ \A b \in Nodes : q[b] <= M
  BY QuotaShares
<1>2. M \in Nat /\ M * N \in Nat
  BY TableSets
<1>3. PICK g : g = CHOOSE h : Turns(h, M * N, q)
  OBVIOUS
<1>4. Turns(g, M * N, q)
  <2>1. \E h : Turns(h, M * N, q)
    BY <1>2, TurnsExist
  <2> QED
    BY <1>3, <2>1
<1>5. PICK filled : filled = g[M * N]
  OBVIOUS
<1>6. Fair(filled, M, 0, q)
  <2>1. Fair(g[M * N], M, 0, q)
    BY <1>1, <1>2, <1>4, TurnsFair
  <2> QED
    BY <1>5, <2>1
<1>7. filled \in Filling /\ \A b \in Nodes : Cardinality(Owned(filled, b)) = q[b]
  <2>1. \A b \in Nodes : ~(b < 0) /\ q[b] \in Nat /\ q[b] <= M
    BY <1>1 DEF Nodes
  <2>2. \A b \in Nodes : Least(M, q[b]) = q[b]
    BY <1>2, <2>1 DEF Least
  <2> QED
    BY <1>6, <2>1, <2>2 DEF Fair
<1>8. Owned(filled, NONE) = {}
  <2>1. SlotsTaken(filled) = q
    BY <1>1, <1>7 DEF SlotsTaken
  <2>2. Cardinality(Owned(filled, NONE)) = 0
    BY <1>1, <1>2, <1>7, <2>1, FreeSlots
  <2> QED
    BY <1>7, <2>2, FreeSlots, FS_EmptySet
<1>9. \A s \in Slots : filled[s] # NONE
  BY <1>8 DEF Owned
<1>10. Table(w) = [s \in Slots |-> IF filled[s] = NONE THEN 0 ELSE filled[s]]
  BY <1>1, <1>3, <1>5, TableUnfold
<1>11. Table(w) = filled /\ filled \in [Slots -> Nodes]
  BY <1>7, <1>9, <1>10 DEF Filling
<1> QED
  BY <1>1, <1>7, <1>11

------------------------------------------------------------------------------
(* What the table and the counts keep *)

(* What a build makes of the weights. *)
ShareOK(table, w, mask) ==
  /\ table \in [Slots -> Nodes]
  /\ mask \in BOOLEAN /\ mask = (SumFunction(w) > 0)
  /\ mask => \A b \in Nodes :
       LET own == Cardinality(Owned(table, b))
           total == SumFunction(w)
       IN  /\ w[b] = 0 => own = 0
           /\ own * total <= w[b] * M + total
           /\ w[b] * M <= own * total + total

LEMMA AsBoolean ==
  ASSUME NEW mask \in BOOLEAN, NEW total, mask <=> total > 0
  PROVE  mask = (total > 0)
  OBVIOUS

LEMMA BuildShares ==
  ASSUME mix \in [Nodes -> Mix], NEW w \in [Nodes -> Nat], NEW mask, NEW table,
         mask = (\E b \in Nodes : w[b] > 0),
         table = IF mask THEN Table(w) ELSE [s \in Slots |-> 0]
  PROVE  ShareOK(table, w, mask)
<1>1. SumFunction(w) \in Nat /\ \A b \in Nodes : w[b] \in Nat /\ w[b] <= SumFunction(w)
  BY TableSets, SumAllNat
<1>2. mask \in BOOLEAN /\ mask = (SumFunction(w) > 0)
  <2>1. ASSUME NEW b \in Nodes, w[b] > 0 PROVE SumFunction(w) > 0
    BY <1>1, <2>1
  <2>2. ASSUME \A b \in Nodes : ~(w[b] > 0) PROVE ~(SumFunction(w) > 0)
    <3>1. w = [b \in Nodes |-> 0]
      BY <1>1, <2>2
    <3>2. SumFunction(w) = 0
      BY ONLY <3>1, TableSets, SumAllZero
    <3> QED
      BY <3>2
  <2>3. (\E b \in Nodes : w[b] > 0) <=> SumFunction(w) > 0
    BY <2>1, <2>2
  <2>4. mask \in BOOLEAN /\ (mask <=> \E b \in Nodes : w[b] > 0)
    OBVIOUS
  <2>5. mask <=> SumFunction(w) > 0
    BY <2>3, <2>4
  <2> QED
    BY ONLY <2>4, <2>5, AsBoolean
<1>3. CASE mask
  <2>1. table = Table(w) /\ SumFunction(w) > 0
    BY <1>2, <1>3
  <2>2. table \in [Slots -> Nodes] /\ \A b \in Nodes : Cardinality(Owned(table, b)) = Quota(w)[b]
    BY <2>1, TableFilled
  <2> QED
    BY <1>2, <2>1, <2>2, QuotaShares DEF ShareOK
<1>4. CASE ~mask
  <2>1. table \in [Slots -> Nodes]
    BY <1>4, TableSets DEF Nodes
  <2> QED
    BY <1>2, <1>4, <2>1 DEF ShareOK
<1> QED
  BY <1>2, <1>3, <1>4

(* The inductive invariant: what the runs check of the table and of the    *)
(* counts, with the live count.                                            *)
TableInv ==
  /\ BaseInv
  /\ mix \in Mixes /\ weight \in [Nodes -> Weights]
  /\ ShareOK(lookup, weight, wmask)
LoadInv ==
  /\ minCap \in MinCaps
  /\ inflight \in [Nodes -> Nat]
  /\ noted = SumFunction(inflight) /\ noted <= MaxJobs

LEMMA TableInvImplies == TableInv => SharesExact /\ TableTypeOK
  BY DEF TableInv, BaseInv, ShareOK, SharesExact, TableTypeOK, MaskExact

LEMMA Types ==
  /\ \A w \in [Nodes -> Weights] : w \in [Nodes -> Nat]
  /\ Mixes \subseteq [Nodes -> Mix] /\ Batches \subseteq [Nodes -> Weights]
  BY TableAssumption

LEMMA InitInv == Init => TableInv /\ LoadInv
<1> SUFFICES ASSUME Init PROVE TableInv /\ LoadInv
  OBVIOUS
<1>1. BaseInv
  BY BaseInitExact DEF Init, TableInit, BaseInv
<1>2. ShareOK(lookup, weight, wmask)
  <2>1. mix \in [Nodes -> Mix] /\ weight \in [Nodes -> Nat]
    BY Types DEF Init, TableInit
  <2>2. /\ wmask = (\E b \in Nodes : weight[b] > 0)
        /\ lookup = IF wmask THEN Table(weight) ELSE [s \in Slots |-> 0]
    BY DEF Init, TableInit
  <2> QED
    BY ONLY <2>1, <2>2, BuildShares
<1>3. LoadInv
  <2>1. SumFunction([i \in Nodes |-> 0]) = 0
    BY TableSets, SumAllZero
  <2> QED
    BY <2>1, CapAssumption DEF Init, LoadInv
<1> QED
  BY <1>1, <1>2, <1>3 DEF Init, TableInit, TableInv

LEMMA BuildInv ==
  ASSUME TableInv, NEW w \in [Nodes -> Weights], weight' = w, Build(w), UNCHANGED <<baseVars, mix>>
  PROVE  TableInv'
<1>1. BaseInv'
  BY DEF TableInv, BaseInv, BaseTypeOK, LiveExact, baseVars
<1>2. PICK table, mask : table = lookup' /\ mask = wmask'
  OBVIOUS
<1>3. /\ mask = (\E b \in Nodes : w[b] > 0)
      /\ table = IF mask THEN Table(w) ELSE [s \in Slots |-> 0]
  BY <1>2 DEF Build
<1>4. mix \in [Nodes -> Mix] /\ w \in [Nodes -> Nat]
  BY Types DEF TableInv
<1>5. ShareOK(table, w, mask)
  BY ONLY <1>3, <1>4, BuildShares
<1> QED
  BY <1>1, <1>2, <1>5 DEF TableInv, ShareOK, Owned

LEMMA ReconfigureInv == ASSUME TableInv, Reconfigure PROVE TableInv'
<1>1. ASSUME NEW i \in Nodes, NEW up \in BOOLEAN, SetEligible(i, up) PROVE TableInv'
  <2>1. BaseInv'
    BY <1>1, FlipKeepsExact DEF SetEligible, TableInv, BaseInv
  <2> QED
    BY <1>1, <2>1 DEF SetEligible, tableVars, TableInv, ShareOK, Owned
<1>2. ASSUME NEW i \in Nodes, NEW w \in Weights, SetWeight(i, w) PROVE TableInv'
  <2>1. weight' = [weight EXCEPT ![i] = w] /\ weight \in [Nodes -> Weights]
    BY <1>2 DEF SetWeight, TableInv
  <2>2. PICK v : v = weight'
    OBVIOUS
  <2>3. v \in [Nodes -> Weights] /\ Build(v) /\ UNCHANGED <<baseVars, mix>>
    BY <1>2, <2>1, <2>2 DEF SetWeight
  <2> QED
    BY <2>2, <2>3, BuildInv
<1>3. ASSUME NEW w \in Batches, SetWeights(w) PROVE TableInv'
  BY <1>3, Types, BuildInv DEF SetWeights
<1>4. CASE Rebuild
  <2>1. weight \in [Nodes -> Weights] /\ weight' = weight /\ Build(weight)
        /\ UNCHANGED <<baseVars, mix>>
    BY <1>4 DEF Rebuild, TableInv
  <2> QED
    BY <2>1, BuildInv
<1> QED
  BY <1>1, <1>2, <1>3, <1>4 DEF Reconfigure

LEMMA TableStays == ASSUME TableInv, UNCHANGED <<baseVars, tableVars>> PROVE TableInv'
  BY DEF TableInv, BaseInv, BaseTypeOK, LiveExact, baseVars, tableVars, ShareOK, Owned

------------------------------------------------------------------------------
(* What a pick finds *)

LEMMA LiveCounts ==
  ASSUME BaseInv
  PROVE  /\ IsFiniteSet(eligible) /\ eligible \in SUBSET Nodes
         /\ live = Cardinality(eligible) /\ live \in Nat
         /\ live = 0 <=> eligible = {}
<1>1. IsFiniteSet(eligible) /\ live = Cardinality(eligible) /\ live \in Nat
  BY CountInRange, CapacityAssumption DEF BaseInv, BaseTypeOK, LiveExact, Nodes
<1> QED
  BY <1>1, FS_EmptySet DEF BaseInv, BaseTypeOK

LEMMA OnTheTable ==
  ASSUME TableInv, NEW s \in Slots, NEW d \in Nat
  PROVE  (s + d) % M \in Slots /\ At(s, d) \in Nodes
<1>1. s + d \in Nat /\ M \in Nat \ {0}
  BY TableSets DEF Slots
<1>2. PICK x \in Nat : x = s + d
  BY <1>1
<1>3. x % M \in 0 .. M-1
  BY <1>1, DivMod
<1> QED
  BY <1>2, <1>3 DEF TableInv, ShareOK, At, Slots

(* An endpoint that has a slot has weight. *)
LEMMA OwnerWeighs ==
  ASSUME TableInv, wmask, NEW t \in Slots
  PROVE  weight[lookup[t]] > 0
<1>1. PICK b \in Nodes : b = lookup[t]
  BY DEF TableInv, ShareOK
<1>2. Owned(lookup, b) \in SUBSET Slots /\ t \in Owned(lookup, b)
  BY <1>1 DEF Owned
<1>3. Cardinality(Owned(lookup, b)) # 0
  BY <1>2, TableSets, FS_Subset, FS_EmptySet
<1>4. weight[b] # 0
  BY <1>3 DEF TableInv, ShareOK
<1>5. weight[b] \in Nat
  BY Types DEF TableInv
<1> QED
  BY <1>1, <1>4, <1>5

(* Every slot is on the walk from every other. *)
LEMMA ComesTo ==
  ASSUME NEW s \in Slots, NEW t \in Slots
  PROVE  \E d \in 0 .. M-1 : (s + d) % M = t
<1>1. M \in Nat \ {0} /\ s \in 0 .. M-1 /\ t \in 0 .. M-1
  BY TableSets DEF Slots
<1>2. CASE s <= t
  <2>1. t - s \in 0 .. M-1 /\ s + (t - s) = 0 * M + t
    BY <1>1, <1>2
  <2>2. (0 * M + t) % M = t
    BY <1>1, ModOf
  <2> QED
    BY <2>1, <2>2
<1>3. CASE ~(s <= t)
  <2>1. (M + t) - s \in 0 .. M-1 /\ s + ((M + t) - s) = 1 * M + t
    BY <1>1, <1>3
  <2>2. (1 * M + t) % M = t
    BY <1>1, ModOf
  <2> QED
    BY <2>1, <2>2
<1> QED
  BY <1>2, <1>3

LEMMA PlainFinds ==
  ASSUME TableInv, NEW s \in Slots
  PROVE  Finds(PlainRoute(s))
<1>1. Walks(s)
  BY PickWalks DEF TableInv
<1>2. Reach \in Nat /\ 0 .. M-1 \subseteq 0 .. Reach /\ ProbeLimit \in Nat
  BY TableSets, TableAssumption DEF Reach
<1>3. CASE wmask /\ \E t \in Slots : lookup[t] \in eligible
  <2>1. \E d \in 0 .. Reach : Met(s, d) \in eligible
    <3>1. PICK t \in Slots : lookup[t] \in eligible
      BY <1>3
    <3>2. PICK d \in 0 .. M-1 : (s + d) % M = t
      BY ComesTo
    <3> QED
      BY <1>2, <3>1, <3>2 DEF Met
  <2>2. PICK d \in 0 .. Reach : Met(s, d) \in eligible /\ PlainRoute(s) = Met(s, d)
    BY <1>1, <1>3, <2>1 DEF Walks, IsFirstUp
  <2>3. (s + d) % M \in Slots
    BY <1>2, OnTheTable
  <2>4. weight[Met(s, d)] > 0
    BY <1>3, <2>3, OwnerWeighs DEF Met
  <2> QED
    BY <1>3, <2>2, <2>4 DEF Finds
<1>4. CASE ~(wmask /\ \E t \in Slots : lookup[t] \in eligible)
  <2>1. ~(wmask /\ \E d \in 0 .. Reach : Met(s, d) \in eligible)
    <3> SUFFICES ASSUME wmask, NEW d \in 0 .. Reach, Met(s, d) \in eligible PROVE FALSE
      OBVIOUS
    <3>1. (s + d) % M \in Slots
      BY <1>2, OnTheTable
    <3> QED
      BY <1>4, <3>1 DEF Met
  <2>2. PlainRoute(s) = NONE
    BY <1>1, <2>1 DEF Walks
  <2> QED
    BY <1>4, <2>2 DEF Finds
<1> QED
  BY <1>3, <1>4

LEMMA NearestOf ==
  ASSUME NEW slot, NEW ds \in SUBSET Nat, ds # {}
  PROVE  \E d \in ds : Nearest(slot, ds) = At(slot, d) /\ \A e \in ds : d <= e
<1> DEFINE least(d) == \A e \in ds : d <= e
<1>1. \E d \in ds : least(d)
  BY LeastExists
<1>2. PICK c : c = CHOOSE d \in ds : least(d)
  OBVIOUS
<1>3. c \in ds /\ least(c)
  BY <1>1, <1>2
<1>4. Nearest(slot, ds) = At(slot, c)
  BY <1>2 DEF Nearest
<1> QED
  BY <1>3, <1>4

(* The window's endpoints that are under the cap. *)
Under(slot) == {d \in Window(slot) : UnderCap(At(slot, d))}

LEMMA WindowType ==
  ASSUME NEW s \in Slots
  PROVE  /\ Window(s) \in SUBSET Nat /\ Under(s) \in SUBSET Window(s)
         /\ \A d \in Window(s) : At(s, d) \in eligible
  BY DEF Window, Up, At, Under

(* A pick takes the nearest endpoint under the cap if the window has one,  *)
(* and what a pick without the cap takes if nothing in the window is up.   *)
LEMMA RouteTakes ==
  ASSUME TableInv, NEW s \in Slots, wmask, live # 0
  PROVE  /\ Under(s) # {} => \E d \in Under(s) : /\ Route(s) = At(s, d)
                                                 /\ \A e \in Under(s) : d <= e
         /\ Under(s) = {} /\ Window(s) # {} => \E d \in Window(s) : Route(s) = At(s, d)
         /\ Window(s) = {} => Route(s) = PlainRoute(s)
<1>1. Route(s) = IF Under(s) # {} THEN Nearest(s, Under(s))
                 ELSE IF Window(s) # {} THEN Nearest(s, Window(s)) ELSE Sweep(s)
  BY DEF Route, Under
<1>2. Window(s) \in SUBSET Nat /\ Under(s) \in SUBSET Nat /\ Under(s) \in SUBSET Window(s)
  BY WindowType
<1>3. Window(s) = {} => Route(s) = PlainRoute(s)
  BY <1>1, <1>2 DEF PlainRoute, Window
<1>4. ASSUME Under(s) # {}
      PROVE  \E d \in Under(s) : Route(s) = At(s, d) /\ \A e \in Under(s) : d <= e
  <2>1. Route(s) = Nearest(s, Under(s))
    BY <1>1, <1>4
  <2> QED
    BY <1>2, <1>4, <2>1, NearestOf
<1>5. ASSUME Under(s) = {}, Window(s) # {} PROVE \E d \in Window(s) : Route(s) = At(s, d)
  <2>1. Route(s) = Nearest(s, Window(s))
    BY <1>1, <1>5
  <2> QED
    BY <1>2, <1>5, <2>1, NearestOf
<1> QED
  BY <1>3, <1>4, <1>5

LEMMA RouteFinds ==
  ASSUME TableInv, NEW s \in Slots
  PROVE  Finds(Route(s))
<1>1. /\ live = 0 <=> eligible = {}
      /\ wmask \in BOOLEAN
  BY LiveCounts DEF TableInv, ShareOK
<1>2. CASE live = 0 \/ ~wmask
  <2>1. Route(s) = NONE
    BY <1>2 DEF Route
  <2> QED
    BY <1>1, <1>2, <2>1 DEF Finds
<1>3. CASE ~(live = 0 \/ ~wmask) /\ Window(s) = {}
  <2>1. Route(s) = PlainRoute(s)
    BY <1>3, RouteTakes
  <2> QED
    BY <2>1, PlainFinds
<1>4. CASE ~(live = 0 \/ ~wmask) /\ Window(s) # {}
  <2>1. PICK d \in Window(s) : Route(s) = At(s, d)
    BY <1>4, RouteTakes, WindowType
  <2>2. At(s, d) \in eligible /\ d \in Nat
    BY WindowType
  <2>3. (s + d) % M \in Slots
    BY <2>2, OnTheTable
  <2>4. weight[At(s, d)] > 0 /\ lookup[(s + d) % M] \in eligible
    BY <1>4, <2>2, <2>3, OwnerWeighs DEF At
  <2> QED
    BY <1>4, <2>1, <2>2, <2>3, <2>4 DEF Finds
<1> QED
  BY <1>2, <1>3, <1>4

LEMMA RouteType ==
  ASSUME TableInv, NEW s \in Slots, Route(s) # NONE
  PROVE  Route(s) \in Nodes
<1>1. Route(s) \in eligible
  BY RouteFinds DEF Finds
<1> QED
  BY <1>1 DEF TableInv, BaseInv, BaseTypeOK

(* The cap is honoured: if the window has all that is up, one of them has  *)
(* no more than the mean, and the one picked is under the cap.             *)
LEMMA SomeUnderCap ==
  ASSUME TableInv, LoadInv, live # 0
  PROVE  \E i \in eligible : inflight[i] * live <= noted
<1>1. /\ IsFiniteSet(eligible) /\ eligible \in SUBSET Nodes /\ eligible # {}
      /\ live = Cardinality(eligible)
  BY LiveCounts DEF TableInv
<1>2. inflight \in [Nodes -> Nat] /\ noted = SumFunction(inflight)
  BY DEF LoadInv
<1>3. PICK E : E = eligible
  OBVIOUS
<1>4. PICK f : f = inflight
  OBVIOUS
<1>5. IsFiniteSet(E) /\ E # {} /\ E \in SUBSET Nodes /\ \A i \in Nodes : f[i] \in Nat
  BY <1>1, <1>2, <1>3, <1>4
<1>6. PICK i \in E : f[i] * Cardinality(E) <= SumFunctionOnSet(f, E)
  <2>1. \A j \in E : f[j] \in Int
    BY <1>5
  <2> QED
    BY ONLY <1>5, <2>1, SumSome
<1>7. SumFunctionOnSet(f, E) <= SumFunctionOnSet(f, Nodes)
  BY ONLY <1>5, TableSets, SumPart
<1>8. SumFunctionOnSet(f, E) \in Int /\ SumFunctionOnSet(f, Nodes) \in Int
  <2>1. (\A j \in E : f[j] \in Int) /\ \A j \in Nodes : f[j] \in Int
    BY <1>5
  <2> QED
    BY ONLY <1>5, <2>1, TableSets, SumType
<1>9. SumFunctionOnSet(f, Nodes) = noted
  BY <1>2, <1>4 DEF SumFunction
<1>10. f[i] * Cardinality(E) \in Int
  BY <1>5, FS_CardinalityType
<1>11. f[i] * Cardinality(E) <= noted
  BY <1>6, <1>7, <1>8, <1>9, <1>10
<1> QED
  BY <1>1, <1>3, <1>4, <1>11

LEMMA MeanIsUnderCap ==
  ASSUME TableInv, LoadInv, NEW i \in Nodes, inflight[i] * live <= noted
  PROVE  UnderCap(i)
<1>1. PICK x \in Nat, n \in Nat, d \in Nat \ {0}, e \in Nat \ {0} :
        x = inflight[i] * live /\ n = noted /\ d = EpsDen /\ e = EpsNum
  <2>1. live \in Nat /\ inflight[i] \in Nat
    BY LiveCounts DEF TableInv, LoadInv
  <2>2. inflight[i] * live \in Nat
    BY <2>1
  <2>3. noted \in Nat
    BY TableSets, SumAllNat DEF LoadInv
  <2> QED
    BY <2>2, <2>3, CapAssumption
<1>2. x * d <= n * d
  BY <1>1, MulMono
<1>3. (d + e) * (n + 1) = (n * d) + (e * n) + d + e
  OBVIOUS
<1>4. n * d \in Nat /\ e * n \in Nat /\ x * d \in Nat
  OBVIOUS
<1>5. x * d < (d + e) * (n + 1)
  BY <1>2, <1>3, <1>4
<1> QED
  BY <1>1, <1>5 DEF UnderCap

LEMMA HotspotOK == ASSUME TableInv, LoadInv PROVE HotspotBounded
<1> SUFFICES ASSUME NEW s \in Slots, wmask, live > 0,
                    eligible = {At(s, d) : d \in Window(s)}
             PROVE  \/ inflight[Route(s)] < minCap
                    \/ inflight[Route(s)] * Cardinality(eligible) * EpsDen
                         < (EpsDen + EpsNum) * (SumFunction(inflight) + 1)
  BY DEF HotspotBounded
<1>1. live \in Nat /\ live # 0 /\ live = Cardinality(eligible) /\ eligible \in SUBSET Nodes
  BY LiveCounts DEF TableInv
<1>2. PICK i \in eligible : inflight[i] * live <= noted
  BY <1>1, SomeUnderCap
<1>3. UnderCap(i)
  BY <1>1, <1>2, MeanIsUnderCap
<1>4. PICK d \in Window(s) : At(s, d) = i
  BY <1>2
<1>5. Under(s) # {}
  BY <1>3, <1>4 DEF Under
<1>6. PICK e \in Under(s) : Route(s) = At(s, e)
  BY <1>1, <1>5, RouteTakes
<1>7. UnderCap(Route(s)) /\ Route(s) \in Nodes
  BY <1>1, <1>6, WindowType DEF Under
<1>8. noted = SumFunction(inflight) /\ inflight \in [Nodes -> Nat]
  BY DEF LoadInv
<1>9. CASE noted = 0
  <2>1. inflight[Route(s)] = 0
    <3>1. inflight[Route(s)] \in Nat /\ inflight[Route(s)] <= SumFunction(inflight)
      BY <1>7, <1>8, TableSets, SumAllNat
    <3> QED
      BY <1>8, <1>9, <3>1
  <2>2. 0 * live * EpsDen = 0 /\ (EpsDen + EpsNum) * (0 + 1) > 0
    BY <1>1, CapAssumption
  <2> QED
    BY <1>1, <1>8, <1>9, <2>1, <2>2
<1>10. CASE noted # 0
  BY <1>1, <1>7, <1>8, <1>10 DEF UnderCap
<1> QED
  BY <1>9, <1>10

(* A home within the mean is the nearest of all. *)
LEMMA StickyOK == ASSUME TableInv, LoadInv PROVE Sticky
<1> SUFFICES ASSUME NEW s \in Slots, lookup[s] \in eligible, wmask,
                    inflight[lookup[s]] * live <= noted \/ inflight[lookup[s]] < minCap
             PROVE  Route(s) = lookup[s]
  BY DEF Sticky
<1>1. live # 0 /\ eligible \in SUBSET Nodes
  BY LiveCounts DEF TableInv
<1>2. At(s, 0) = lookup[s]
  <2>1. s \in 0 .. M-1 /\ M \in Nat \ {0}
    BY TableSets DEF Slots
  <2>2. (0 * M + s) % M = s /\ 0 * M + s = s + 0
    BY <2>1, ModOf
  <2> QED
    BY <2>2 DEF At
<1>3. UnderCap(lookup[s])
  BY <1>1, MeanIsUnderCap DEF UnderCap
<1>4. 0 \in Window(s)
  <2>1. 0 \in 0 .. ProbeLimit
    BY TableAssumption
  <2> QED
    BY <1>2, <2>1 DEF Window, Up, At
<1>5. 0 \in Under(s)
  BY <1>2, <1>3, <1>4 DEF Under
<1>6. PICK d \in Under(s) : Route(s) = At(s, d) /\ d <= 0
  BY <1>1, <1>5, RouteTakes
<1>7. d = 0
  BY <1>6, WindowType
<1> QED
  BY <1>2, <1>6, <1>7

------------------------------------------------------------------------------
(* The steps *)

(* One job more, or one job less, on one endpoint: the sum follows. *)
LEMMA SumOneMore ==
  ASSUME NEW f \in [Nodes -> Nat], NEW g \in [Nodes -> Nat], NEW i \in Nodes,
         f[i] = g[i] + 1, \A j \in Nodes : j # i => f[j] = g[j]
  PROVE  SumFunction(f) = SumFunction(g) + 1 /\ SumFunction(f) \in Nat /\ SumFunction(g) \in Nat
<1>1. {i} \in SUBSET Nodes /\ \A x \in Nodes : f[x] = g[x] + (IF x \in {i} THEN 1 ELSE 0)
  OBVIOUS
<1>2. Cardinality({i}) = 1
  BY FS_Singleton
<1>3. /\ SumFunction(f) = SumFunction(g) + Cardinality({i})
      /\ SumFunction(f) \in Nat /\ SumFunction(g) \in Nat
  BY ONLY <1>1, TableSets, SumTaken, f \in [Nodes -> Nat], g \in [Nodes -> Nat]
<1> QED
  BY <1>2, <1>3

LEMMA DispatchInv ==
  ASSUME TableInv, LoadInv, NEW slot \in Slots, Dispatch(slot)
  PROVE  TableInv' /\ LoadInv'
<1>1. TableInv'
  BY TableStays DEF Dispatch
<1>2. PICK i \in Nodes : i = Route(slot)
  BY RouteType DEF Dispatch
<1>3. /\ SumFunction(inflight) < MaxJobs /\ inflight' = [inflight EXCEPT ![i] = @ + 1]
      /\ Note(1) /\ minCap' = minCap
  BY <1>2 DEF Dispatch
<1>4. /\ inflight \in [Nodes -> Nat] /\ inflight' \in [Nodes -> Nat]
      /\ inflight'[i] = inflight[i] + 1 /\ \A j \in Nodes : j # i => inflight'[j] = inflight[j]
  BY <1>3 DEF LoadInv
<1>5. /\ SumFunction(inflight') = SumFunction(inflight) + 1
      /\ SumFunction(inflight) \in Nat
  <2>1. PICK f, g : f = inflight' /\ g = inflight
    OBVIOUS
  <2>2. /\ f \in [Nodes -> Nat] /\ g \in [Nodes -> Nat]
        /\ f[i] = g[i] + 1 /\ \A j \in Nodes : j # i => f[j] = g[j]
    BY <1>4, <2>1
  <2>3. SumFunction(f) = SumFunction(g) + 1 /\ SumFunction(g) \in Nat
    BY ONLY <2>2, SumOneMore, i \in Nodes
  <2> QED
    BY <2>1, <2>3
<1>6. noted' = SumFunction(inflight') /\ noted' <= MaxJobs
  BY <1>3, <1>5, CapAssumption DEF Note, LoadInv
<1> QED
  BY <1>1, <1>3, <1>4, <1>6 DEF LoadInv

LEMMA SettleInv ==
  ASSUME TableInv, LoadInv, NEW i \in Nodes, Settle(i)
  PROVE  TableInv' /\ LoadInv'
<1>1. TableInv'
  BY TableStays DEF Settle
<1>2. /\ inflight[i] > 0 /\ inflight' = [inflight EXCEPT ![i] = @ - 1]
      /\ Note(-1) /\ minCap' = minCap
  BY DEF Settle
<1>3. /\ inflight \in [Nodes -> Nat] /\ inflight' \in [Nodes -> Nat]
      /\ inflight[i] = inflight'[i] + 1 /\ \A j \in Nodes : j # i => inflight[j] = inflight'[j]
  BY <1>2 DEF LoadInv
<1>4. /\ SumFunction(inflight) = SumFunction(inflight') + 1
      /\ SumFunction(inflight') \in Nat
  <2>1. PICK f, g : f = inflight /\ g = inflight'
    OBVIOUS
  <2>2. /\ f \in [Nodes -> Nat] /\ g \in [Nodes -> Nat]
        /\ f[i] = g[i] + 1 /\ \A j \in Nodes : j # i => f[j] = g[j]
    BY <1>3, <2>1
  <2>3. SumFunction(f) = SumFunction(g) + 1 /\ SumFunction(g) \in Nat
    BY ONLY <2>2, SumOneMore, i \in Nodes
  <2> QED
    BY <2>1, <2>3
<1>5. noted' = SumFunction(inflight') /\ noted' <= MaxJobs
  BY <1>2, <1>4, CapAssumption DEF Note, LoadInv
<1> QED
  BY <1>1, <1>2, <1>3, <1>5 DEF LoadInv

LEMMA NextInv == TableInv /\ LoadInv /\ [Next]_vars => (TableInv /\ LoadInv)'
<1> SUFFICES ASSUME TableInv, LoadInv, [Next]_vars PROVE TableInv' /\ LoadInv'
  OBVIOUS
<1>1. CASE \E slot \in Slots : Dispatch(slot)
  BY <1>1, DispatchInv
<1>2. CASE \E i \in Nodes : Settle(i)
  BY <1>2, SettleInv
<1>3. CASE Reconfigure /\ UNCHANGED <<minCap, loadVars>>
  BY <1>3, ReconfigureInv DEF LoadInv, loadVars
<1>4. CASE UNCHANGED vars
  BY <1>4, TableStays DEF vars, LoadInv, loadVars
<1> QED
  BY <1>1, <1>2, <1>3, <1>4 DEF Next

LEMMA InvAlways == Spec => [](TableInv /\ LoadInv)
  BY InitInv, NextInv, PTL DEF Spec

LEMMA ConsistentOK == TableInv /\ LoadInv => Consistent
<1> SUFFICES ASSUME TableInv, LoadInv PROVE Consistent
  OBVIOUS
<1>1. TableTypeOK
  BY TableInvImplies
<1>2. /\ inflight \in [Nodes -> Nat] /\ noted = SumFunction(inflight) /\ noted <= MaxJobs
      /\ minCap \in MinCaps
  BY DEF LoadInv
<1>3. SumFunction(inflight) \in Nat /\ \A i \in Nodes : inflight[i] <= SumFunction(inflight)
  BY <1>2, TableSets, SumAllNat
<1>4. \A i \in Nodes : inflight[i] \in 0 .. MaxJobs
  BY <1>2, <1>3, CapAssumption
<1>5. inflight \in [Nodes -> 0 .. MaxJobs]
  BY <1>2, <1>4
<1>6. noted \in 0 .. MaxJobs
  BY <1>2, <1>3, CapAssumption
<1> QED
  BY <1>1, <1>2, <1>5, <1>6 DEF Consistent, TypeOK, NotedExact

LEMMA FindsOK == TableInv => FindsWhatThereIs
  BY RouteFinds, PlainFinds DEF FindsWhatThereIs

------------------------------------------------------------------------------
(* The theorems *)

(* The sum the cap is taken from is the number of jobs in flight, whatever *)
(* endpoints go down or are reweighted while they run                      *)
(* (BoundedLoadBalancer.note, assertConsistent).                           *)
THEOREM ConsistentAlways == Spec => []Consistent
  BY InvAlways, ConsistentOK, PTL

(* The table is never stale and never lopsided: each endpoint owns its     *)
(* weight's share of it to within one slot, for every prime size, hash and *)
(* history of reweights, batches and flaps (ConsistentHashBalancer._build, *)
(* setWeight, setWeights).                                                 *)
THEOREM SharesExactAlways == Spec => []SharesExact
  BY InvAlways, TableInvImplies, PTL

(* A pick fails only when no endpoint that is up has a slot, whatever the  *)
(* probe limit and the loads (pick of both classes).                       *)
THEOREM FindsAlways == Spec => []FindsWhatThereIs
  BY InvAlways, FindsOK, PTL

(* The hotspot bound, for every slack and every pool: when the window      *)
(* reaches all that is up, the pick is under the cap                       *)
(* (BoundedLoadBalancer.pick).                                             *)
THEOREM HotspotAlways == Spec => []HotspotBounded
  BY InvAlways, HotspotOK, PTL

(* A key stays at a home that is up and within the mean, for every slack   *)
(* and every pool (BoundedLoadBalancer.pick).                              *)
THEOREM StickyAlways == Spec => []Sticky
  BY InvAlways, StickyOK, PTL
===============================================================================
