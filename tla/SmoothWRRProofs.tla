---------------------------- MODULE SmoothWRRProofs ----------------------------
(***************************************************************************)
(* Theorems about smooth weighted round-robin, for every pool and every    *)
(* finite set of weights: churn piles up no credit, and a round hands out  *)
(* exact shares.                                                           *)
(*                                                                         *)
(* Churn.  A bound on one endpoint's credit alone is not inductive: what   *)
(* one is owed the others owe, until a flip drops what one of them owes.   *)
(* So the bound is on every set of endpoints, Cap of their number k, which *)
(* is k (2N - 1 - k) times the largest weight.  Cap grows with k, so a     *)
(* drop keeps the bound: it leaves the sum of a smaller set.  A pick keeps *)
(* it because the one picked had the most.  A set without it has no more   *)
(* than its part of what it has together with it, and Cap allows k parts   *)
(* of k + 1 exactly that; of a set with it the same is true of what it     *)
(* owes, against the candidates that are not in the set.                   *)
(*                                                                         *)
(* A round.  While all credit is accounted for, an endpoint's credit is    *)
(* what it is due less what it got, the credits add up to 0, and nobody    *)
(* owes a whole pick.  After as many picks as the total every credit is a  *)
(* multiple of the total, so none is negative, so all are 0.               *)
(*                                                                         *)
(* The last part is about the traffic engine of Pool Scope, a specification*)
(* of its own: its slots, its counts, the total it tells BoundedLoad and   *)
(* the weights it tells the strategies agree, for any number of workers    *)
(* and slots and any settings of the faults.                               *)
(***************************************************************************)
EXTENDS SmoothWRR, ScopeDriver, DataProofs

------------------------------------------------------------------------------
(* The bound on the credit of a set of endpoints *)

W == MaxWeight
Cap(k) == (k * ((2*N - 1) - k)) * W

LEMMA WeightsBound ==
  ASSUME NEW w \in Weights
  PROVE  W \in Nat /\ w \in Nat /\ w <= W
<1>1. \E m \in Weights : \A v \in Weights : v <= m
  <2>1. PICK f : f = [v \in Weights |-> v]
    OBVIOUS
  <2>2. /\ IsFiniteSet(Weights) /\ Weights # {}
        /\ \A v \in Weights : f[v] \in Int /\ f[v] = v
    BY <2>1, WeightsAssumption
  <2>3. \E m \in Weights : \A v \in Weights : f[v] <= f[m]
    BY ONLY <2>2, MostExists
  <2> QED
    BY <2>2, <2>3
<1>2. W \in Weights /\ \A v \in Weights : v <= W
  BY <1>1 DEF W, MaxWeight
<1> QED
  BY <1>2, WeightsAssumption

(* The bound on k endpoints grows with k. *)
LEMMA CapGrows ==
  ASSUME W \in Nat, NEW k \in 0 .. N, NEW j \in 0 .. k
  PROVE  Cap(j) \in Nat /\ Cap(k) \in Nat /\ Cap(j) <= Cap(k)
<1>1. N \in Nat \ {0}
  BY CapacityAssumption
<1>2. PICK c \in Nat : c = 2*N - 1 /\ k <= c /\ j <= c /\ (j # k => k + j <= c)
  BY <1>1
<1>3. k * (c - k) \in Nat /\ j * (c - j) \in Nat
  BY <1>2
<1>4. k * (c - k) - j * (c - j) = (k - j) * (c - k - j)
  BY <1>2
<1>5. (k - j) * (c - k - j) \in Nat
  BY <1>2
<1>6. PICK x \in Nat, y \in Nat : x = j * (c - j) /\ y = k * (c - k) /\ x <= y
  BY <1>3, <1>4, <1>5
<1>7. x * W <= y * W /\ x * W \in Nat /\ y * W \in Nat
  BY <1>6, MulMono
<1> QED
  BY <1>2, <1>6, <1>7 DEF Cap

(* Whatever endpoints one looks at, together they are owed, or owe, no     *)
(* more than the bound on their number.                                    *)
Bounded(c) ==
  \A A \in SUBSET Nodes : /\ SumFunctionOnSet(c, A) <= Cap(Cardinality(A))
                          /\ -SumFunctionOnSet(c, A) <= Cap(Cardinality(A))

LEMMA NodesFinite ==
  /\ N \in Nat \ {0} /\ IsFiniteSet(Nodes)
  /\ \A A \in SUBSET Nodes : IsFiniteSet(A) /\ Cardinality(A) \in 0 .. N
<1>1. N \in Nat \ {0}
  BY CapacityAssumption
<1> QED
  BY <1>1, BelowFinite, CountInRange DEF Nodes

LEMMA ZeroBounded == ASSUME W \in Nat PROVE Bounded(Zero)
<1> SUFFICES ASSUME NEW A \in SUBSET Nodes
             PROVE  /\ SumFunctionOnSet(Zero, A) <= Cap(Cardinality(A))
                    /\ -SumFunctionOnSet(Zero, A) <= Cap(Cardinality(A))
  BY DEF Bounded
<1>1. IsFiniteSet(A) /\ Cardinality(A) \in 0 .. N /\ Cardinality(A) \in Nat
  BY NodesFinite
<1>2. SumFunctionOnSet(Zero, A) = 0 * Cardinality(A)
  <2>1. \A x \in A : Zero[x] = 0
    BY DEF Zero
  <2> QED
    BY ONLY <1>1, <2>1, SumConst, 0 \in Int
<1>3. Cap(Cardinality(A)) \in Nat
  BY <1>1, CapGrows
<1> QED
  BY <1>1, <1>2, <1>3

(* Dropping an endpoint's credit leaves the sums of sets without it.       *)
LEMMA DropBounded ==
  ASSUME W \in Nat, NEW c \in [Nodes -> Int], Bounded(c), NEW i \in Nodes,
         NEW d, d = [c EXCEPT ![i] = 0]
  PROVE  d \in [Nodes -> Int] /\ Bounded(d)
<1>1. d \in [Nodes -> Int] /\ d[i] = 0 /\ \A j \in Nodes : j # i => d[j] = c[j]
  OBVIOUS
<1> SUFFICES ASSUME NEW A \in SUBSET Nodes
             PROVE  /\ SumFunctionOnSet(d, A) <= Cap(Cardinality(A))
                    /\ -SumFunctionOnSet(d, A) <= Cap(Cardinality(A))
  BY <1>1 DEF Bounded
<1>2. PICK B : B = A \ {i}
  OBVIOUS
<1>3. /\ B \in SUBSET A /\ B \in SUBSET Nodes /\ IsFiniteSet(A)
      /\ Cardinality(A) \in 0 .. N /\ Cardinality(B) \in 0 .. Cardinality(A)
  <2>1. B \in SUBSET A /\ B \in SUBSET Nodes
    BY <1>2
  <2>2. IsFiniteSet(A) /\ Cardinality(A) \in 0 .. N /\ Cardinality(B) \in 0 .. N
    BY <2>1, NodesFinite
  <2>3. Cardinality(B) <= Cardinality(A)
    BY <2>1, <2>2, FS_Subset
  <2> QED
    BY <2>1, <2>2, <2>3
<1>4. SumFunctionOnSet(d, A) = SumFunctionOnSet(d, B)
  <2>1. (\A x \in A : d[x] \in Int) /\ \A x \in A \ B : d[x] = 0
    BY <1>1, <1>2
  <2> QED
    BY ONLY <1>3, <2>1, SumOff
<1>5. SumFunctionOnSet(d, B) = SumFunctionOnSet(c, B)
  <2>1. IsFiniteSet(B) /\ \A x \in B : d[x] \in Int /\ d[x] = c[x]
    BY <1>1, <1>2, <1>3, NodesFinite
  <2> QED
    BY ONLY <2>1, SumAgree
<1>6. SumFunctionOnSet(c, B) <= Cap(Cardinality(B)) /\ -SumFunctionOnSet(c, B) <= Cap(Cardinality(B))
  BY <1>3 DEF Bounded
<1>7. SumFunctionOnSet(c, B) \in Int
  <2>1. IsFiniteSet(B) /\ \A x \in B : c[x] \in Int
    BY <1>3, NodesFinite
  <2> QED
    BY ONLY <2>1, SumType
<1>8. /\ Cap(Cardinality(B)) \in Nat /\ Cap(Cardinality(A)) \in Nat
      /\ Cap(Cardinality(B)) <= Cap(Cardinality(A))
  BY <1>3, CapGrows
<1> QED
  BY <1>4, <1>5, <1>6, <1>7, <1>8

(* The arithmetic of a pick: k endpoints other than the one picked hold s, *)
(* each at most the x that one holds, and all together D.                  *)
LEMMA OwedArith ==
  ASSUME W \in Nat, NEW k \in Nat, k + 1 <= N, NEW s \in Int, NEW x \in Int,
         s <= x * k, s + x <= Cap(k+1) + (k+1) * W
  PROVE  s <= Cap(k)
<1>1. N \in Nat \ {0}
  BY CapacityAssumption
<1>2. PICK c \in Nat, w \in Nat : c = 2*N - 1 /\ w = W
  BY <1>1
<1>3. PICK a \in Int, b \in Int : a = (k * (c - k)) * w /\ b = ((k+1) * (c - (k+1))) * w
  OBVIOUS
<1>4. Cap(k) = a /\ Cap(k+1) = b
  BY <1>2, <1>3 DEF Cap
<1>5. PICK z \in Int : z = b + (k+1) * w
  OBVIOUS
<1>6. k * z = (k+1) * a
  BY <1>3, <1>5
<1>7. (s + x) * k <= z * k
  <2>1. s + x <= z
    BY <1>2, <1>4, <1>5
  <2> QED
    BY <2>1, MulMono
<1>8. (s + x) * k = s * k + x * k /\ s * (k + 1) = s * k + s /\ z * k = k * z
  OBVIOUS
<1>9. s * (k+1) <= a * (k+1)
  <2>1. s * k \in Int /\ x * k \in Int /\ s * (k+1) \in Int /\ z * k \in Int /\ (s + x) * k \in Int
    OBVIOUS
  <2>2. s * (k+1) <= z * k
    BY <1>7, <1>8, <2>1
  <2>3. (k+1) * a = a * (k+1)
    OBVIOUS
  <2> QED
    BY <1>6, <1>8, <2>2, <2>3
<1>10. s <= a
  <2> SUFFICES ASSUME a < s PROVE FALSE
    OBVIOUS
  <2>1. a * (k+1) + (k+1) <= s * (k+1)
    BY MulStrict
  <2>2. a * (k+1) \in Int /\ s * (k+1) \in Int
    OBVIOUS
  <2> QED
    BY <1>9, <2>1, <2>2
<1> QED
  BY <1>4, <1>10

(* The same of what is owed: m endpoints, the one picked included, hold p, *)
(* each at most the x that one holds; the j others hold u over the total.  *)
LEMMA OwesArith ==
  ASSUME W \in Nat, NEW j \in Nat, NEW m \in Nat \ {0}, j + m <= N,
         NEW u \in Int, NEW x \in Int, NEW p \in Int,
         p <= x * m, -u <= Cap(j) + m * W, -(u + p) <= Cap(j+m)
  PROVE  -(u + x) <= Cap(j+1)
<1>1. N \in Nat \ {0}
  BY CapacityAssumption
<1>2. PICK c \in Nat, w \in Nat : c = 2*N - 1 /\ w = W
  BY <1>1
<1>3. PICK a0 \in Int, a1 \in Int, am \in Int :
        /\ a0 = (j * (c - j)) * w
        /\ a1 = ((j+1) * (c - (j+1))) * w
        /\ am = ((j+m) * (c - (j+m))) * w
  OBVIOUS
<1>4. Cap(j) = a0 /\ Cap(j+1) = a1 /\ Cap(j+m) = am
  BY <1>2, <1>3 DEF Cap
<1>5. PICK y \in Int : y = a0 + m * w
  OBVIOUS
<1>6. y * (m - 1) + am = a1 * m
  BY <1>3, <1>5
<1>7. (-u) * (m - 1) <= y * (m - 1)
  <2>1. -u <= y /\ -u \in Int /\ m - 1 \in Nat
    BY <1>2, <1>4, <1>5
  <2> QED
    BY <2>1, MulMono
<1>8. (-(u + x)) * m = ((-u) * (m - 1) - (u + p)) + (p - x * m)
  OBVIOUS
<1>9. (-(u + x)) * m <= a1 * m
  <2>1. (-u) * (m - 1) \in Int /\ y * (m - 1) \in Int /\ x * m \in Int /\ a1 * m \in Int
        /\ (-(u + x)) * m \in Int
    OBVIOUS
  <2> QED
    BY <1>4, <1>6, <1>7, <1>8, <2>1
<1>10. -(u + x) <= a1
  <2> SUFFICES ASSUME a1 < -(u + x) PROVE FALSE
    OBVIOUS
  <2>1. -(u + x) \in Int
    OBVIOUS
  <2>2. a1 * m + m <= (-(u + x)) * m
    BY <2>1, MulStrict
  <2>3. a1 * m \in Int /\ (-(u + x)) * m \in Int
    OBVIOUS
  <2> QED
    BY <1>9, <2>2, <2>3
<1> QED
  BY <1>4, <1>10

(* A pick: the candidates C are credited with the gains g, b, which then   *)
(* has the most, is charged their total t, and d is what is left.          *)
Charged(C, c, g, b, t, d) ==
  /\ C \in SUBSET Nodes /\ b \in C
  /\ c \in [Nodes -> Int] /\ g \in [Nodes -> Nat] /\ d \in [Nodes -> Int]
  /\ \A i \in Nodes : g[i] <= W /\ (i \notin C => c[i] = 0 /\ g[i] = 0)
  /\ t = SumFunctionOnSet(g, Nodes)
  /\ \A i \in C : c[i] + g[i] <= c[b] + g[b]
  /\ \A i \in Nodes : d[i] = (c[i] + g[i]) - (IF i = b THEN t ELSE 0)

(* Sums of credits and gains. *)
LEMMA ChargedSums ==
  ASSUME W \in Nat, NEW C, NEW c, NEW g, NEW b, NEW t, NEW d, Charged(C, c, g, b, t, d)
  PROVE  /\ t \in Nat /\ t = SumFunctionOnSet(g, C)
         /\ \A A \in SUBSET Nodes :
              /\ SumFunctionOnSet(c, A) \in Int /\ SumFunctionOnSet(g, A) \in Nat
              /\ SumFunctionOnSet(g, A) <= t
              /\ SumFunctionOnSet(g, A) <= W * Cardinality(A)
              /\ b \notin A => SumFunctionOnSet(d, A)
                                 = SumFunctionOnSet(c, A) + SumFunctionOnSet(g, A)
              /\ b \in A => SumFunctionOnSet(d, A)
                              = (SumFunctionOnSet(c, A) + SumFunctionOnSet(g, A)) - t
<1>1. /\ C \in SUBSET Nodes /\ b \in C /\ b \in Nodes
      /\ c \in [Nodes -> Int] /\ g \in [Nodes -> Nat] /\ d \in [Nodes -> Int]
      /\ \A i \in Nodes : g[i] <= W
      /\ \A i \in Nodes \ C : g[i] = 0
      /\ t = SumFunctionOnSet(g, Nodes)
      /\ \A i \in Nodes : d[i] = (c[i] + g[i]) - (IF i = b THEN t ELSE 0)
  BY DEF Charged
<1>2. \A i \in Nodes : g[i] \in Nat /\ g[i] \in Int /\ c[i] \in Int
  BY <1>1
<1>3. t \in Nat
  <2>1. SumFunctionOnSet(g, Nodes) \in Nat
    BY ONLY <1>2, NodesFinite, SumNat
  <2> QED
    BY <1>1, <2>1
<1>4. t = SumFunctionOnSet(g, C)
  <2>1. SumFunctionOnSet(g, Nodes) = SumFunctionOnSet(g, C)
    BY ONLY <1>1, <1>2, NodesFinite, SumOff
  <2> QED
    BY <1>1, <2>1
<1>5. ASSUME NEW A \in SUBSET Nodes
      PROVE  /\ SumFunctionOnSet(c, A) \in Int /\ SumFunctionOnSet(g, A) \in Nat
             /\ SumFunctionOnSet(g, A) <= t
             /\ SumFunctionOnSet(g, A) <= W * Cardinality(A)
             /\ b \notin A => SumFunctionOnSet(d, A)
                                = SumFunctionOnSet(c, A) + SumFunctionOnSet(g, A)
             /\ b \in A => SumFunctionOnSet(d, A)
                             = (SumFunctionOnSet(c, A) + SumFunctionOnSet(g, A)) - t
  <2>1. IsFiniteSet(A)
    BY NodesFinite
  <2>2. \A i \in A : g[i] \in Nat /\ g[i] \in Int /\ c[i] \in Int /\ g[i] <= W
    BY <1>1, <1>2
  <2>3. SumFunctionOnSet(c, A) \in Int /\ SumFunctionOnSet(g, A) \in Nat
    BY ONLY <2>1, <2>2, SumType, SumNat
  <2>4. SumFunctionOnSet(g, A) <= t
    <3>1. SumFunctionOnSet(g, A) <= SumFunctionOnSet(g, Nodes)
      BY ONLY <1>2, NodesFinite, SumPart, A \in SUBSET Nodes
    <3> QED
      BY <1>1, <3>1
  <2>5. SumFunctionOnSet(g, A) <= W * Cardinality(A)
    <3>1. W \in Int
      OBVIOUS
    <3> QED
      BY ONLY <2>1, <2>2, <3>1, SumBelow
  <2>6. PICK h : h = [i \in Nodes |-> c[i] + g[i]]
    OBVIOUS
  <2>7. \A i \in A : c[i] \in Int /\ g[i] \in Int /\ h[i] \in Int /\ h[i] = c[i] + g[i]
    BY <2>2, <2>6
  <2>8. SumFunctionOnSet(h, A) = SumFunctionOnSet(c, A) + SumFunctionOnSet(g, A)
    BY ONLY <2>1, <2>7, SumPlus
  <2>9. ASSUME b \notin A
        PROVE  SumFunctionOnSet(d, A) = SumFunctionOnSet(c, A) + SumFunctionOnSet(g, A)
    <3>1. \A i \in A : d[i] \in Int /\ d[i] = h[i]
      BY <1>1, <1>2, <2>7, <2>9
    <3>2. SumFunctionOnSet(d, A) = SumFunctionOnSet(h, A)
      BY ONLY <2>1, <3>1, SumAgree
    <3> QED
      BY <2>8, <3>2
  <2>10. ASSUME b \in A
         PROVE  SumFunctionOnSet(d, A) = (SumFunctionOnSet(c, A) + SumFunctionOnSet(g, A)) - t
    <3>1. /\ \A i \in A : h[i] \in Int /\ d[i] \in Int
          /\ \A i \in A \ {b} : h[i] = d[i]
          /\ d[b] - h[b] = -t
      BY <1>1, <1>2, <1>3, <2>7, <2>10
    <3>2. SumFunctionOnSet(d, A) = SumFunctionOnSet(h, A) + (d[b] - h[b])
      BY ONLY <2>1, <2>10, <3>1, SumChange
    <3> QED
      BY <1>3, <2>3, <2>8, <3>1, <3>2
  <2> QED
    BY <2>3, <2>4, <2>5, <2>9, <2>10
<1> QED
  BY <1>3, <1>4, <1>5

(* Candidates that are not picked: each holds no more than the one picked  *)
(* held, so together with it they hold more in proportion.                 *)
LEMMA OthersBounded ==
  ASSUME W \in Nat, NEW C, NEW c, NEW g, NEW b, NEW t, NEW d, Charged(C, c, g, b, t, d),
         Bounded(c), NEW A \in SUBSET C, b \notin A
  PROVE  /\ SumFunctionOnSet(d, A) <= Cap(Cardinality(A))
         /\ -SumFunctionOnSet(d, A) <= Cap(Cardinality(A))
<1>1. /\ C \in SUBSET Nodes /\ A \in SUBSET Nodes /\ b \in Nodes
      /\ c \in [Nodes -> Int] /\ g \in [Nodes -> Nat] /\ d \in [Nodes -> Int]
      /\ \A i \in C : c[i] + g[i] <= c[b] + g[b]
      /\ \A i \in A : d[i] = c[i] + g[i]
  BY DEF Charged
<1>2. PICK B : B = A \cup {b}
  OBVIOUS
<1>3. PICK k : k = Cardinality(A)
  OBVIOUS
<1>4. /\ B \in SUBSET Nodes /\ IsFiniteSet(A) /\ k \in Nat
      /\ Cardinality(B) = k + 1 /\ k + 1 <= N
  <2>1. B \in SUBSET Nodes
    BY <1>1, <1>2
  <2>2. IsFiniteSet(A) /\ k \in Nat /\ Cardinality(B) \in 0 .. N
    BY <1>1, <1>3, <2>1, NodesFinite
  <2>3. Cardinality(B) = k + 1
    BY <1>2, <1>3, <2>2, FS_AddElement
  <2> QED
    BY <2>1, <2>2, <2>3, NodesFinite
<1>5. /\ SumFunctionOnSet(d, A) = SumFunctionOnSet(c, A) + SumFunctionOnSet(g, A)
      /\ SumFunctionOnSet(c, A) \in Int /\ SumFunctionOnSet(g, A) \in Nat
  BY <1>1, ChargedSums
<1>6. /\ SumFunctionOnSet(g, B) <= W * (k + 1)
      /\ SumFunctionOnSet(c, B) \in Int /\ SumFunctionOnSet(g, B) \in Nat
  BY <1>4, ChargedSums
<1>7. PICK x \in Int : x = c[b] + g[b]
  BY <1>1
<1>8. SumFunctionOnSet(d, A) + x = SumFunctionOnSet(c, B) + SumFunctionOnSet(g, B)
  <2>1. /\ \A i \in A : c[i] \in Int /\ g[i] \in Int
        /\ c[b] \in Int /\ g[b] \in Int
    BY <1>1
  <2>2. /\ SumFunctionOnSet(c, A \cup {b}) = SumFunctionOnSet(c, A) + c[b]
        /\ SumFunctionOnSet(g, A \cup {b}) = SumFunctionOnSet(g, A) + g[b]
    BY ONLY <1>4, <2>1, SumAdd, b \notin A
  <2> QED
    BY <1>2, <1>5, <1>7, <2>1, <2>2
<1>9. SumFunctionOnSet(d, A) <= x * k
  <2>1. \A i \in A : d[i] \in Int /\ d[i] <= x
    BY <1>1, <1>7
  <2>2. SumFunctionOnSet(d, A) <= x * Cardinality(A)
    BY ONLY <1>4, <2>1, SumBelow, x \in Int
  <2> QED
    BY <1>3, <2>2
<1>10. SumFunctionOnSet(c, B) <= Cap(k+1) /\ -SumFunctionOnSet(c, A) <= Cap(k)
  BY <1>1, <1>3, <1>4 DEF Bounded
<1>11. SumFunctionOnSet(d, A) <= Cap(k)
  <2>1. PICK s \in Int : s = SumFunctionOnSet(d, A)
    BY <1>5
  <2>2. W * (k + 1) = (k+1) * W /\ Cap(k+1) \in Nat /\ (k+1) * W \in Int
    BY <1>4, CapGrows
  <2>3. s + x <= Cap(k+1) + (k+1) * W
    BY <1>6, <1>8, <1>10, <2>1, <2>2
  <2> QED
    BY <1>4, <1>9, <2>1, <2>3, OwedArith
<1>12. -SumFunctionOnSet(d, A) <= Cap(k)
  <2>1. Cap(k) \in Nat
    BY <1>4, CapGrows
  <2> QED
    BY <1>5, <1>10, <2>1
<1> QED
  BY <1>3, <1>11, <1>12

(* Candidates with the one picked: the charge is at least what they gain,  *)
(* and the one picked held at least the mean of the others' rest.          *)
LEMMA PickedBounded ==
  ASSUME W \in Nat, NEW C, NEW c, NEW g, NEW b, NEW t, NEW d, Charged(C, c, g, b, t, d),
         Bounded(c), NEW A \in SUBSET C, b \in A
  PROVE  /\ SumFunctionOnSet(d, A) <= Cap(Cardinality(A))
         /\ -SumFunctionOnSet(d, A) <= Cap(Cardinality(A))
<1>1. /\ C \in SUBSET Nodes /\ A \in SUBSET Nodes /\ b \in Nodes
      /\ c \in [Nodes -> Int] /\ g \in [Nodes -> Nat] /\ d \in [Nodes -> Int]
      /\ \A i \in C : c[i] + g[i] <= c[b] + g[b]
  BY DEF Charged
<1>2. PICK E, F, j, m : E = A \ {b} /\ F = C \ E /\ j = Cardinality(E) /\ m = Cardinality(F)
  OBVIOUS
<1>3. /\ E \in SUBSET Nodes /\ F \in SUBSET Nodes /\ E \in SUBSET C /\ b \notin E /\ b \in F
      /\ A = E \cup {b} /\ F \in SUBSET C
  BY <1>1, <1>2
<1>4. /\ IsFiniteSet(E) /\ IsFiniteSet(F) /\ IsFiniteSet(C)
      /\ j \in Nat /\ m \in Nat \ {0} /\ j + m <= N /\ Cardinality(C) = j + m
      /\ Cardinality(A) = j + 1
  <2>1. /\ IsFiniteSet(E) /\ IsFiniteSet(F) /\ IsFiniteSet(C) /\ j \in Nat /\ m \in Nat
        /\ Cardinality(C) \in 0 .. N
    BY <1>1, <1>2, <1>3, NodesFinite
  <2>2. m # 0
    BY <1>2, <1>3, <2>1, FS_EmptySet
  <2>3. Cardinality(C \ E) = Cardinality(C) - Cardinality(C \cap E)
    BY <2>1, FS_Difference
  <2>4. C \cap E = E
    BY <1>3
  <2>5. Cardinality(C) = j + m
    BY <1>2, <2>1, <2>3, <2>4
  <2>6. Cardinality(A) = j + 1
    BY <1>2, <1>3, <2>1, FS_AddElement
  <2> QED
    BY <2>1, <2>2, <2>5, <2>6, NodesFinite
<1>5. PICK x \in Int : x = c[b] + g[b]
  BY <1>1
<1>12. PICK h : h = [i \in Nodes |-> c[i] + g[i]]
  OBVIOUS
<1>6. \A i \in Nodes : c[i] \in Int /\ g[i] \in Int /\ h[i] \in Int /\ h[i] = c[i] + g[i]
  BY <1>1, <1>12
<1>7. PICK cE \in Int, cF \in Int, gE \in Nat, gF \in Nat :
        /\ cE = SumFunctionOnSet(c, E) /\ cF = SumFunctionOnSet(c, F)
        /\ gE = SumFunctionOnSet(g, E) /\ gF = SumFunctionOnSet(g, F)
  BY <1>3, ChargedSums
<1>8. /\ SumFunctionOnSet(c, C) = cE + cF
      /\ t = gE + gF /\ t \in Nat
  <2>1. \A i \in C : c[i] \in Int /\ g[i] \in Int
    BY <1>1, <1>6
  <2>2. /\ SumFunctionOnSet(c, C) = SumFunctionOnSet(c, E) + SumFunctionOnSet(c, C \ E)
        /\ SumFunctionOnSet(g, C) = SumFunctionOnSet(g, E) + SumFunctionOnSet(g, C \ E)
    BY ONLY <1>3, <1>4, <2>1, SumSplit
  <2>3. t = SumFunctionOnSet(g, C) /\ t \in Nat
    BY ChargedSums
  <2> QED
    BY <1>2, <1>7, <2>2, <2>3
<1>9. SumFunctionOnSet(d, A) = (cE + gE + x) - t
  <2>1. \A i \in E : c[i] \in Int /\ g[i] \in Int
    BY <1>3, <1>6
  <2>2. c[b] \in Int /\ g[b] \in Int
    BY <1>1
  <2>3. /\ SumFunctionOnSet(c, E \cup {b}) = SumFunctionOnSet(c, E) + c[b]
        /\ SumFunctionOnSet(g, E \cup {b}) = SumFunctionOnSet(g, E) + g[b]
    BY ONLY <1>3, <1>4, <2>1, <2>2, SumAdd
  <2>4. SumFunctionOnSet(d, A) = (SumFunctionOnSet(c, A) + SumFunctionOnSet(g, A)) - t
    BY <1>1, ChargedSums
  <2> QED
    BY <1>3, <1>5, <1>7, <1>8, <2>2, <2>3, <2>4
<1>10. SumFunctionOnSet(d, A) <= Cap(j+1)
  <2>1. SumFunctionOnSet(c, A) <= Cap(j+1)
    BY <1>1, <1>4 DEF Bounded
  <2>2. /\ SumFunctionOnSet(c, A) \in Int /\ SumFunctionOnSet(g, A) \in Nat
        /\ SumFunctionOnSet(g, A) <= t
        /\ SumFunctionOnSet(d, A) = (SumFunctionOnSet(c, A) + SumFunctionOnSet(g, A)) - t
    BY <1>1, ChargedSums
  <2>3. Cap(j+1) \in Nat
    BY <1>4, CapGrows
  <2> QED
    BY <1>8, <2>1, <2>2, <2>3
<1>11. -SumFunctionOnSet(d, A) <= Cap(j+1)
  <2>1. PICK u \in Int, p \in Int : u = (cE + gE) - t /\ p = cF + gF
    BY <1>7, <1>8
  <2>2. p <= x * m
    <3>1. \A i \in F : c[i] \in Int /\ g[i] \in Int /\ h[i] \in Int /\ h[i] = c[i] + g[i]
      BY <1>3, <1>6
    <3>2. SumFunctionOnSet(h, F) = SumFunctionOnSet(c, F) + SumFunctionOnSet(g, F)
      BY ONLY <1>4, <3>1, SumPlus
    <3>3. \A i \in F : h[i] \in Int /\ h[i] <= x
      BY <1>1, <1>3, <1>5, <3>1
    <3>4. SumFunctionOnSet(h, F) <= x * Cardinality(F)
      BY ONLY <1>4, <3>3, SumBelow, x \in Int
    <3> QED
      BY <1>2, <1>7, <2>1, <3>2, <3>4
  <2>3. -u <= Cap(j) + m * W
    <3>1. -cE <= Cap(j)
      BY <1>2, <1>3, <1>7 DEF Bounded
    <3>2. gF <= W * m
      BY <1>2, <1>3, <1>7, ChargedSums
    <3>3. W * m = m * W /\ m * W \in Nat /\ Cap(j) \in Nat
      BY <1>4, CapGrows
    <3> QED
      BY <1>8, <2>1, <3>1, <3>2, <3>3
  <2>4. -(u + p) <= Cap(j+m)
    <3>1. -(cE + cF) <= Cap(j+m)
      BY <1>1, <1>4, <1>8 DEF Bounded
    <3>2. u + p = cE + cF
      BY <1>8, <2>1
    <3> QED
      BY <3>1, <3>2
  <2>5. -(u + x) <= Cap(j+1)
    BY <1>4, <2>2, <2>3, <2>4, OwesArith
  <2>6. SumFunctionOnSet(d, A) = u + x
    BY <1>8, <1>9, <2>1
  <2> QED
    BY <2>5, <2>6
<1> QED
  BY <1>4, <1>10, <1>11

LEMMA ChargedBounded ==
  ASSUME W \in Nat, NEW C, NEW c, NEW g, NEW b, NEW t, NEW d, Charged(C, c, g, b, t, d),
         Bounded(c)
  PROVE  Bounded(d)
<1> SUFFICES ASSUME NEW A \in SUBSET Nodes
             PROVE  /\ SumFunctionOnSet(d, A) <= Cap(Cardinality(A))
                    /\ -SumFunctionOnSet(d, A) <= Cap(Cardinality(A))
  BY DEF Bounded
<1>1. PICK B : B = A \cap C
  OBVIOUS
<1>2. /\ B \in SUBSET A /\ B \in SUBSET C /\ B \in SUBSET Nodes /\ IsFiniteSet(A)
      /\ Cardinality(A) \in 0 .. N /\ Cardinality(B) \in 0 .. Cardinality(A)
  <2>1. B \in SUBSET A /\ B \in SUBSET C /\ B \in SUBSET Nodes
    BY <1>1
  <2>2. IsFiniteSet(A) /\ Cardinality(A) \in 0 .. N /\ Cardinality(B) \in 0 .. N
    BY <2>1, NodesFinite
  <2>3. Cardinality(B) <= Cardinality(A)
    BY <2>1, <2>2, FS_Subset
  <2> QED
    BY <2>1, <2>2, <2>3
<1>3. SumFunctionOnSet(d, A) = SumFunctionOnSet(d, B)
  <2>1. (\A x \in A : d[x] \in Int) /\ \A x \in A \ B : d[x] = 0
    BY <1>1 DEF Charged
  <2> QED
    BY ONLY <1>2, <2>1, SumOff
<1>4. /\ SumFunctionOnSet(d, B) <= Cap(Cardinality(B))
      /\ -SumFunctionOnSet(d, B) <= Cap(Cardinality(B))
  <2>1. CASE b \in B
    BY <1>2, <2>1, PickedBounded
  <2>2. CASE b \notin B
    BY <1>2, <2>2, OthersBounded
  <2> QED
    BY <2>1, <2>2
<1>5. /\ Cap(Cardinality(B)) \in Nat /\ Cap(Cardinality(A)) \in Nat
      /\ Cap(Cardinality(B)) <= Cap(Cardinality(A))
  BY <1>2, CapGrows
<1>6. SumFunctionOnSet(d, B) \in Int
  <2>1. IsFiniteSet(B) /\ \A x \in B : d[x] \in Int
    BY <1>2, NodesFinite DEF Charged
  <2> QED
    BY ONLY <2>1, SumType
<1> QED
  BY <1>3, <1>4, <1>5, <1>6

------------------------------------------------------------------------------
(* The steps *)

(* The base class: the constructor counts the endpoints that are up, and   *)
(* setEligible keeps the count exact.                                      *)
LEMMA BaseInitExact == ASSUME BaseInit PROVE BaseTypeOK /\ LiveExact
  BY CountInRange, CapacityAssumption DEF BaseInit, BaseTypeOK, LiveExact, Nodes

LEMMA FlipKeepsExact ==
  ASSUME BaseTypeOK, LiveExact, NEW i \in Nodes, NEW up \in BOOLEAN, Flip(i, up)
  PROVE  BaseTypeOK' /\ LiveExact'
<1>1. N \in Nat /\ eligible \in SUBSET (0 .. N-1) /\ i \in 0 .. N-1
  BY CapacityAssumption DEF BaseTypeOK, Nodes
<1>2. /\ eligible' \in SUBSET (0 .. N-1)
      /\ live' = Cardinality(eligible')
  BY <1>1, CountFollows DEF Flip, LiveExact
<1>3. Cardinality(eligible') \in 0 .. N
  BY <1>1, <1>2, CountInRange
<1> QED
  BY <1>2, <1>3 DEF BaseTypeOK, LiveExact, Nodes

(* What a pick credits each endpoint with. *)
Gain == [i \in Nodes |-> IF i \in Candidates THEN weight[i] ELSE 0]

(* In a round an endpoint's credit is what it is due less what it got, and *)
(* nobody owes a whole pick.                                               *)
RoundInv ==
  fair =>
    /\ SumFunctionOnSet(current, Nodes) = 0
    /\ picks <= total
    /\ \A i \in Nodes : current[i] = picks * Gain[i] - got[i] * total
    /\ \A i \in Candidates : current[i] > -total

Inv == TypeOK /\ LiveExact /\ TotalExact /\ Bounded(current) /\ RoundInv

LEMMA WeightType ==
  ASSUME weight \in [Nodes -> Weights]
  PROVE  /\ W \in Nat
         /\ \A i \in Nodes : weight[i] \in Nat /\ weight[i] <= W
<1>1. 0 \in Nodes
  BY NodesFinite DEF Nodes
<1> QED
  BY <1>1, WeightsBound

(* The total is what all are credited with, and there is somebody to pick  *)
(* if it is positive.                                                      *)
LEMMA TotalIsGains ==
  ASSUME BaseTypeOK, weight \in [Nodes -> Weights], TotalExact
  PROVE  /\ Gain \in [Nodes -> Nat] /\ Candidates \in SUBSET Nodes
         /\ \A i \in Nodes : Gain[i] <= W /\ (i \notin Candidates => Gain[i] = 0)
         /\ total = SumFunctionOnSet(Gain, Nodes) /\ total \in Nat
         /\ total > 0 => Candidates # {}
         /\ \A i \in Candidates : total > 0
<1>1. /\ Candidates \in SUBSET eligible /\ eligible \in SUBSET Nodes
      /\ \A i \in eligible \ Candidates : weight[i] = 0
      /\ \A i \in Candidates : weight[i] > 0
  BY WeightType DEF Candidates, BaseTypeOK
<1>2. /\ Gain \in [Nodes -> Nat]
      /\ \A i \in Nodes : Gain[i] <= W /\ (i \notin Candidates => Gain[i] = 0)
      /\ \A i \in eligible : Gain[i] = weight[i]
  BY <1>1, WeightType DEF Gain
<1>3. PICK g : g = Gain
  OBVIOUS
<1>4. /\ \A i \in Nodes : g[i] \in Nat /\ g[i] \in Int
      /\ \A i \in Nodes \ eligible : g[i] = 0
      /\ \A i \in eligible : g[i] \in Int /\ weight[i] \in Int /\ g[i] = weight[i]
  BY <1>1, <1>2, <1>3
<1>5. SumFunctionOnSet(g, Nodes) = SumFunctionOnSet(weight, eligible)
  <2>1. SumFunctionOnSet(g, Nodes) = SumFunctionOnSet(g, eligible)
    BY ONLY <1>1, <1>4, NodesFinite, SumOff
  <2>2. IsFiniteSet(eligible)
    BY <1>1, NodesFinite
  <2>3. SumFunctionOnSet(g, eligible) = SumFunctionOnSet(weight, eligible)
    BY ONLY <1>4, <2>2, SumAgree
  <2> QED
    BY <2>1, <2>3
<1>6. SumFunctionOnSet(g, Nodes) \in Nat /\ \A i \in Nodes : g[i] <= SumFunctionOnSet(g, Nodes)
  BY ONLY <1>4, NodesFinite, SumNat
<1>7. total = SumFunctionOnSet(g, Nodes) /\ total \in Nat
  BY <1>5, <1>6 DEF TotalExact
<1>8. ASSUME Candidates = {} PROVE total = 0
  <2>1. \A i \in Nodes : g[i] = 0
    BY <1>2, <1>3, <1>8
  <2>2. SumFunctionOnSet(g, Nodes) = 0 * Cardinality(Nodes) /\ Cardinality(Nodes) \in Nat
    BY ONLY <2>1, NodesFinite, SumConst, FS_CardinalityType, 0 \in Int
  <2> QED
    BY <1>7, <2>2
<1>9. ASSUME NEW i \in Candidates PROVE total > 0
  <2>1. i \in Nodes /\ i \in eligible /\ weight[i] > 0 /\ g[i] = weight[i] /\ g[i] \in Nat
    BY <1>1, <1>4
  <2> QED
    BY <1>6, <1>7, <2>1
<1> QED
  BY <1>1, <1>2, <1>3, <1>7, <1>8, <1>9

(* The first candidate with the most credit is one, and has the most.      *)
LEMMA BestHasMost ==
  ASSUME NEW c \in [Nodes -> Int], Candidates \in SUBSET Nodes, Candidates # {}
  PROVE  Best(c) \in Candidates /\ \A j \in Candidates : c[j] <= c[Best(c)]
<1> DEFINE best(i) == \A j \in Candidates : c[j] < c[i] \/ (c[j] = c[i] /\ i <= j)
<1>1. PICK C : C = Candidates
  OBVIOUS
<1>2. IsFiniteSet(C) /\ C # {} /\ \A j \in C : c[j] \in Int
  BY <1>1, NodesFinite
<1>3. PICK m \in C : \A j \in C : c[j] <= c[m]
  BY ONLY <1>2, MostExists
<1>4. PICK T, v : T = {j \in C : c[j] = v} /\ v = c[m]
  OBVIOUS
<1>5. T \in SUBSET Nat /\ T # {}
  <2>1. m \in T /\ T \in SUBSET Nodes
    BY <1>1, <1>4
  <2>2. Nodes \in SUBSET Nat
    BY NodesFinite DEF Nodes
  <2> QED
    BY <2>1, <2>2
<1>6. PICK i \in T : \A j \in T : i <= j
  BY ONLY <1>5, LeastExists
<1>7. i \in Candidates /\ best(i)
  <2>1. i \in Candidates /\ c[i] = v
    BY <1>1, <1>4
  <2>2. ASSUME NEW j \in Candidates PROVE c[j] < c[i] \/ (c[j] = c[i] /\ i <= j)
    <3>1. c[j] <= v /\ c[j] \in Int /\ v \in Int
      BY <1>1, <1>2, <1>3, <1>4
    <3>2. c[j] = v => i <= j
      BY <1>1, <1>4, <1>6
    <3> QED
      BY <2>1, <3>1, <3>2
  <2> QED
    BY <2>1, <2>2
<1>8. PICK b : b = CHOOSE k \in Candidates : best(k)
  OBVIOUS
<1>9. b \in Candidates /\ best(b)
  BY <1>7, <1>8
<1>10. Best(c) = b
  BY <1>8 DEF Best
<1>11. \A j \in Candidates : c[j] \in Int
  OBVIOUS
<1> QED
  BY <1>9, <1>10, <1>11

LEMMA PickCharges ==
  ASSUME Inv, Pick
  PROVE  \E b \in Candidates :
           /\ Charged(Candidates, current, Gain, b, total, current')
           /\ last' = b /\ Count(b)
<1>1. /\ BaseTypeOK /\ weight \in [Nodes -> Weights] /\ TotalExact /\ current \in [Nodes -> Int]
      /\ \A i \in Nodes \ Candidates : current[i] = 0
  BY DEF Inv, TypeOK
<1>2. /\ Gain \in [Nodes -> Nat] /\ Candidates \in SUBSET Nodes /\ Candidates # {}
      /\ \A i \in Nodes : Gain[i] <= W /\ (i \notin Candidates => Gain[i] = 0)
      /\ total = SumFunctionOnSet(Gain, Nodes) /\ total \in Nat
  BY <1>1, TotalIsGains DEF Pick
<1>3. PICK h : h = Credited
  OBVIOUS
<1>4. h \in [Nodes -> Int] /\ \A i \in Nodes : h[i] = current[i] + Gain[i]
  <2>1. \A i \in Nodes : current[i] \in Int /\ Gain[i] \in Int
                         /\ Gain[i] = IF i \in Candidates THEN weight[i] ELSE 0
    BY <1>1, <1>2 DEF Gain
  <2>2. h = [i \in Nodes |-> current[i] + Gain[i]]
    BY <1>3, <2>1 DEF Credited
  <2> QED
    BY <2>1, <2>2
<1>5. PICK b : b = Best(h)
  OBVIOUS
<1>6. b \in Candidates /\ \A j \in Candidates : h[j] <= h[b]
  BY ONLY <1>2, <1>4, <1>5, BestHasMost
<1>7. current' = [h EXCEPT ![b] = @ - total] /\ last' = b /\ Count(b)
  BY <1>3, <1>5 DEF Pick
<1>8. /\ current' \in [Nodes -> Int]
      /\ \A i \in Nodes : current'[i] = (current[i] + Gain[i]) - (IF i = b THEN total ELSE 0)
  BY <1>2, <1>4, <1>6, <1>7
<1>9. \A i \in Candidates : current[i] + Gain[i] <= current[b] + Gain[b]
  BY <1>2, <1>4, <1>6
<1>10. Charged(Candidates, current, Gain, b, total, current')
  BY <1>1, <1>2, <1>6, <1>8, <1>9 DEF Charged
<1> QED
  BY <1>6, <1>7, <1>10

(* When as many picks are made as the total, every candidate's credit is a *)
(* multiple of the total above its negative, so none is negative, and they *)
(* add up to 0.                                                            *)
LEMMA RoundEnds == ASSUME Inv, fair, picks = total PROVE current = Zero
<1>1. /\ BaseTypeOK /\ weight \in [Nodes -> Weights] /\ TotalExact /\ current \in [Nodes -> Int]
      /\ got \in [Nodes -> Nat] /\ picks \in Nat
      /\ \A i \in Nodes \ Candidates : current[i] = 0
      /\ SumFunctionOnSet(current, Nodes) = 0
      /\ \A i \in Nodes : current[i] = picks * Gain[i] - got[i] * total
      /\ \A i \in Candidates : current[i] > -total
  BY DEF Inv, TypeOK, RoundInv
<1>2. /\ Gain \in [Nodes -> Nat] /\ Candidates \in SUBSET Nodes /\ total \in Nat
      /\ \A i \in Candidates : total > 0
  BY <1>1, TotalIsGains
<1>3. ASSUME NEW i \in Nodes PROVE current[i] \in Nat
  <2>1. CASE i \notin Candidates
    BY <1>1, <2>1
  <2>2. CASE i \in Candidates
    <3>1. PICK n \in Nat \ {0}, a \in Nat, g \in Nat : n = total /\ a = Gain[i] /\ g = got[i]
      <4>1. total \in Nat \ {0} /\ Gain[i] \in Nat /\ got[i] \in Nat
        BY <1>1, <1>2, <2>2
      <4> QED
        BY <4>1
    <3>2. current[i] = n * a - g * n /\ current[i] > -n
      BY <1>1, <2>2, <3>1
    <3>3. n * a = a * n /\ (g - 1) * n = g * n - n /\ a * n \in Int /\ g * n \in Int
      OBVIOUS
    <3>4. g <= a
      <4> SUFFICES ASSUME a < g PROVE FALSE
        OBVIOUS
      <4>1. a * n + n <= g * n
        BY MulStrict
      <4> QED
        BY <3>2, <3>3, <4>1
    <3>5. g * n <= a * n
      BY <3>4, MulMono
    <3> QED
      BY <3>2, <3>3, <3>5
  <2> QED
    BY <2>1, <2>2
<1>4. \A i \in Nodes : current[i] = 0
  <2>1. PICK c : c = current
    OBVIOUS
  <2>2. (\A i \in Nodes : c[i] \in Nat) /\ SumFunctionOnSet(c, Nodes) = 0
    BY <1>1, <1>3, <2>1
  <2>3. \A i \in Nodes : c[i] = 0
    BY ONLY <2>2, NodesFinite, SumZero
  <2> QED
    BY <2>1, <2>3
<1> QED
  BY <1>1, <1>4 DEF Zero

(* A round that begins with no credit out begins well. *)
LEMMA NewRoundInv ==
  ASSUME NEW c, NewRound(c), c = current', current' \in [Nodes -> Int],
         BaseTypeOK', (weight \in [Nodes -> Weights])', TotalExact'
  PROVE  /\ RoundInv'
         /\ fair' \in BOOLEAN /\ picks' \in Nat /\ got' \in [Nodes -> Nat] /\ last' = last
<1>1. /\ fair' = (c = Zero) /\ picks' = 0 /\ got' = Zero /\ last' = last
  BY DEF NewRound
<1>2. /\ Gain' \in [Nodes -> Nat] /\ total' \in Nat
      /\ \A i \in Candidates' : total' > 0
      /\ Candidates' \in SUBSET Nodes
  <2>1. (BaseTypeOK /\ weight \in [Nodes -> Weights] /\ TotalExact)'
        => (/\ Gain \in [Nodes -> Nat] /\ total \in Nat
            /\ \A i \in Candidates : total > 0
            /\ Candidates \in SUBSET Nodes)'
    BY TotalIsGains, PTL
  <2> QED
    BY <2>1
<1>3. ASSUME fair'
      PROVE  /\ SumFunctionOnSet(current', Nodes) = 0
             /\ picks' <= total'
             /\ \A i \in Nodes : current'[i] = picks' * Gain'[i] - got'[i] * total'
             /\ \A i \in Candidates' : current'[i] > -total'
  <2>1. current' = Zero
    BY <1>1, <1>3
  <2>2. \A i \in Nodes : current'[i] = 0 /\ got'[i] = 0
    BY <1>1, <2>1 DEF Zero
  <2>3. SumFunctionOnSet(Zero, Nodes) = 0
    BY NodesFinite, SumAllZero DEF Zero, SumFunction
  <2>4. \A i \in Nodes : current'[i] = picks' * Gain'[i] - got'[i] * total'
    BY <1>1, <1>2, <2>2
  <2>5. \A i \in Candidates' : current'[i] > -total'
    BY <1>2, <2>2
  <2> QED
    BY <1>1, <1>2, <2>1, <2>3, <2>4, <2>5
<1>4. /\ fair' \in BOOLEAN /\ picks' \in Nat /\ got' \in [Nodes -> Nat]
  BY <1>1 DEF Zero
<1> QED
  BY <1>1, <1>3, <1>4 DEF RoundInv

LEMMA InitInv == Init => Inv
<1> SUFFICES ASSUME Init PROVE Inv
  OBVIOUS
<1>1. BaseTypeOK /\ LiveExact
  BY BaseInitExact DEF Init
<1>2. /\ weight \in [Nodes -> Weights] /\ TotalExact /\ current = Zero /\ got = Zero
      /\ picks = 0 /\ fair = TRUE /\ last = NONE
  BY DEF Init, TotalExact
<1>3. /\ Gain \in [Nodes -> Nat] /\ total \in Nat
      /\ \A i \in Candidates : total > 0
      /\ Candidates \in SUBSET Nodes
  BY <1>1, <1>2, TotalIsGains
<1>4. Bounded(current)
  BY <1>2, WeightType, ZeroBounded
<1>5. RoundInv
  <2>1. SumFunctionOnSet(Zero, Nodes) = 0
    BY NodesFinite, SumAllZero DEF Zero, SumFunction
  <2>2. \A i \in Nodes : current[i] = 0 /\ got[i] = 0
    BY <1>2 DEF Zero
  <2>3. \A i \in Nodes : current[i] = picks * Gain[i] - got[i] * total
    BY <1>2, <1>3, <2>2
  <2> QED
    BY <1>2, <1>3, <2>1, <2>2, <2>3 DEF RoundInv
<1>6. TypeOK
  BY <1>1, <1>2, <1>3 DEF TypeOK, Zero
<1> QED
  BY <1>1, <1>2, <1>4, <1>5, <1>6 DEF Inv

(* What the total is after a flip. *)
LEMMA FlipTotal ==
  ASSUME Inv, NEW i \in Nodes, NEW up \in BOOLEAN, Flip(i, up), up # (i \in eligible),
         total' = (IF up THEN total + weight[i] ELSE total - weight[i]), weight' = weight
  PROVE  TotalExact'
<1>1. /\ eligible \in SUBSET Nodes /\ total = SumFunctionOnSet(weight, eligible)
      /\ IsFiniteSet(eligible)
  BY NodesFinite DEF Inv, TypeOK, BaseTypeOK, TotalExact
<1>2. \A j \in Nodes : weight[j] \in Int
  BY WeightType DEF Inv, TypeOK
<1>3. \A j \in eligible : weight[j] \in Int
  BY <1>1, <1>2
<1>4. CASE up
  <2>1. i \notin eligible /\ eligible' = eligible \cup {i} /\ total' = total + weight[i]
    BY <1>4 DEF Flip
  <2>2. SumFunctionOnSet(weight, eligible \cup {i}) = SumFunctionOnSet(weight, eligible) + weight[i]
    BY ONLY <1>1, <1>2, <1>3, <2>1, SumAdd, i \in Nodes
  <2> QED
    BY <1>1, <2>1, <2>2 DEF TotalExact
<1>5. CASE ~up
  <2>1. i \in eligible /\ eligible' = eligible \ {i} /\ total' = total - weight[i]
    BY <1>5 DEF Flip
  <2>2. SumFunctionOnSet(weight, eligible) = weight[i] + SumFunctionOnSet(weight, eligible \ {i})
    BY ONLY <1>1, <1>3, <2>1, SumRemove
  <2>3. SumFunctionOnSet(weight, eligible \ {i}) \in Int
    <3>1. IsFiniteSet(eligible \ {i}) /\ \A j \in eligible \ {i} : weight[j] \in Int
      BY <1>1, <1>3, FS_RemoveElement
    <3> QED
      BY ONLY <3>1, SumType
  <2>4. total' = SumFunctionOnSet(weight, eligible \ {i})
    BY <1>1, <1>2, <2>1, <2>2, <2>3
  <2> QED
    BY <2>1, <2>4 DEF TotalExact
<1> QED
  BY <1>4, <1>5

LEMMA FlipInv ==
  ASSUME Inv, NEW i \in Nodes, NEW up \in BOOLEAN, SetEligible(i, up)
  PROVE  Inv'
<1>1. BaseTypeOK' /\ LiveExact'
  BY FlipKeepsExact DEF SetEligible, Inv, TypeOK
<1>2. CASE up = (i \in eligible)
  <2>1. /\ UNCHANGED <<eligible, live, weight, total, current, last, fair, picks, got>>
    BY <1>2 DEF SetEligible, Flip, round
  <2> QED
    BY <1>1, <2>1 DEF Inv, TypeOK, TotalExact, Bounded, RoundInv, Gain, Candidates
<1>3. CASE up # (i \in eligible)
  <2>1. /\ Flip(i, up) /\ weight' = weight
        /\ total' = IF up THEN total + weight[i] ELSE total - weight[i]
        /\ current' = [current EXCEPT ![i] = 0] /\ NewRound(current')
    BY <1>3 DEF SetEligible
  <2>2. TotalExact'
    BY <1>3, <2>1, FlipTotal
  <2>3. /\ weight \in [Nodes -> Weights] /\ current \in [Nodes -> Int]
        /\ Bounded(current) /\ last \in Nodes \cup {NONE}
        /\ \A j \in Nodes \ Candidates : current[j] = 0
    BY DEF Inv, TypeOK
  <2>4. current' \in [Nodes -> Int] /\ Bounded(current')
    <3>1. PICK d : d = current'
      OBVIOUS
    <3>2. d = [current EXCEPT ![i] = 0] /\ W \in Nat
      BY <2>1, <2>3, <3>1, WeightType
    <3>3. d \in [Nodes -> Int] /\ Bounded(d)
      BY <2>3, <3>2, DropBounded
    <3> QED
      BY <3>1, <3>3
  <2>5. /\ RoundInv' /\ total' \in Nat
        /\ fair' \in BOOLEAN /\ picks' \in Nat /\ got' \in [Nodes -> Nat] /\ last' = last
    <3>1. (weight \in [Nodes -> Weights])'
      BY <2>1, <2>3
    <3>2. (BaseTypeOK /\ weight \in [Nodes -> Weights] /\ TotalExact)' => (total \in Nat)'
      BY TotalIsGains, PTL
    <3> QED
      BY <1>1, <2>1, <2>2, <2>4, <3>1, <3>2, NewRoundInv
  <2>6. \A j \in Nodes \ Candidates' : current'[j] = 0
    BY <2>1, <2>3 DEF Candidates, Flip
  <2>7. Bounded(current)'
    BY <2>4 DEF Bounded
  <2> QED
    BY <1>1, <2>1, <2>2, <2>3, <2>4, <2>5, <2>6, <2>7 DEF Inv, TypeOK
<1> QED
  BY <1>2, <1>3

LEMMA SetWeightInv ==
  ASSUME Inv, NEW i \in Nodes, NEW w \in Weights, SetWeight(i, w)
  PROVE  Inv'
<1>1. /\ BaseTypeOK /\ LiveExact /\ weight \in [Nodes -> Weights] /\ current \in [Nodes -> Int]
      /\ Bounded(current) /\ last \in Nodes \cup {NONE} /\ total \in Nat
      /\ fair \in BOOLEAN /\ picks \in Nat /\ got \in [Nodes -> Nat]
      /\ \A j \in Nodes \ Candidates : current[j] = 0
      /\ total = SumFunctionOnSet(weight, eligible)
  BY DEF Inv, TypeOK, TotalExact
<1>2. /\ weight' = [weight EXCEPT ![i] = w] /\ current' = [current EXCEPT ![i] = 0]
      /\ eligible' = eligible /\ live' = live
  BY DEF SetWeight, baseVars
<1>3. BaseTypeOK' /\ LiveExact' /\ weight' \in [Nodes -> Weights]
  BY <1>1, <1>2 DEF BaseTypeOK, LiveExact
<1>4. current' \in [Nodes -> Int] /\ Bounded(current')
  <2>1. PICK d : d = current'
    OBVIOUS
  <2>2. d = [current EXCEPT ![i] = 0] /\ W \in Nat
    BY <1>1, <1>2, <2>1, WeightType
  <2>3. d \in [Nodes -> Int] /\ Bounded(d)
    BY <1>1, <2>2, DropBounded
  <2> QED
    BY <2>1, <2>3
<1>5. Bounded(current)'
  BY <1>4 DEF Bounded
<1>6. \A j \in Nodes \ Candidates' : current'[j] = 0
  BY <1>1, <1>2 DEF Candidates
<1>7. PICK v \in [Nodes -> Weights] : v = weight'
  BY <1>3
<1>8. /\ IsFiniteSet(eligible) /\ eligible \in SUBSET Nodes
      /\ \A j \in eligible : weight[j] \in Int /\ v[j] \in Int
      /\ \A j \in eligible \ {i} : weight[j] = v[j]
      /\ w \in Int /\ v[i] = w
  <2>1. \A u \in Weights : u \in Int
    BY WeightsAssumption
  <2> QED
    BY <1>1, <1>2, <1>7, <2>1, NodesFinite DEF BaseTypeOK
<1>9. CASE i \in eligible
  <2>1. total' = total + w - weight[i] /\ NewRound(current')
    BY <1>9 DEF SetWeight
  <2>2. SumFunctionOnSet(v, eligible) = SumFunctionOnSet(weight, eligible) + (v[i] - weight[i])
    <3>1. PICK u, E, x, z : u = weight /\ E = eligible /\ x = i /\ z = v
      OBVIOUS
    <3>2. /\ IsFiniteSet(E) /\ x \in E
          /\ \A j \in E : u[j] \in Int /\ z[j] \in Int
          /\ \A j \in E \ {x} : u[j] = z[j]
      BY <1>8, <1>9, <3>1
    <3>3. SumFunctionOnSet(z, E) = SumFunctionOnSet(u, E) + (z[x] - u[x])
      BY ONLY <3>2, SumChange
    <3> QED
      BY <3>1, <3>3
  <2>3. TotalExact'
    <3>1. weight[i] \in Int
      BY <1>8, <1>9
    <3>2. total' = SumFunctionOnSet(v, eligible)
      BY <1>1, <1>8, <2>1, <2>2, <3>1
    <3> QED
      BY <1>2, <1>7, <3>2 DEF TotalExact
  <2>4. /\ RoundInv' /\ total' \in Nat
        /\ fair' \in BOOLEAN /\ picks' \in Nat /\ got' \in [Nodes -> Nat] /\ last' = last
    <3>1. (weight \in [Nodes -> Weights])'
      BY <1>3
    <3>2. (BaseTypeOK /\ weight \in [Nodes -> Weights] /\ TotalExact)' => (total \in Nat)'
      BY TotalIsGains, PTL
    <3> QED
      BY <1>3, <1>4, <2>1, <2>3, <3>1, <3>2, NewRoundInv
  <2> QED
    BY <1>1, <1>3, <1>4, <1>5, <1>6, <2>3, <2>4 DEF Inv, TypeOK
<1>10. CASE i \notin eligible
  <2>1. UNCHANGED <<total, last, fair, picks, got>>
    BY <1>10 DEF SetWeight, round
  <2>2. Candidates' = Candidates
    BY <1>2, <1>10, <1>1 DEF Candidates, BaseTypeOK
  <2>3. Gain' = Gain
    <3>1. \A j \in Candidates : weight'[j] = weight[j]
      BY <1>1, <1>2, <1>10 DEF Candidates
    <3> QED
      BY <2>2, <3>1 DEF Gain
  <2>4. current' = current
    <3>1. current[i] = 0
      BY <1>1, <1>10 DEF Candidates
    <3> QED
      BY <1>1, <1>2, <3>1
  <2>5. TotalExact'
    <3>1. \A j \in eligible : v[j] \in Int /\ v[j] = weight[j]
      BY <1>8, <1>10
    <3>2. SumFunctionOnSet(v, eligible) = SumFunctionOnSet(weight, eligible)
      BY ONLY <1>8, <3>1, SumAgree
    <3> QED
      BY <1>1, <1>2, <1>7, <2>1, <3>2 DEF TotalExact
  <2>6. RoundInv'
    BY <2>1, <2>2, <2>3, <2>4 DEF Inv, RoundInv
  <2> QED
    BY <1>1, <1>3, <1>4, <1>5, <1>6, <2>1, <2>5, <2>6 DEF Inv, TypeOK
<1> QED
  BY <1>9, <1>10

(* In a round some candidate has credit once all are credited, so the one  *)
(* picked has, and it owes less than a whole pick afterwards.              *)
LEMMA PickedHadCredit ==
  ASSUME W \in Nat, NEW C, NEW c, NEW g, NEW b, NEW t, NEW d, Charged(C, c, g, b, t, d),
         SumFunctionOnSet(c, Nodes) = 0, t > 0, \A i \in C : c[i] > -t
  PROVE  SumFunctionOnSet(d, Nodes) = 0 /\ \A i \in C : d[i] > -t
<1>1. /\ C \in SUBSET Nodes /\ b \in C /\ b \in Nodes
      /\ c \in [Nodes -> Int] /\ g \in [Nodes -> Nat] /\ d \in [Nodes -> Int]
      /\ \A i \in Nodes : i \notin C => c[i] = 0 /\ g[i] = 0
      /\ t = SumFunctionOnSet(g, Nodes)
      /\ \A i \in C : c[i] + g[i] <= c[b] + g[b]
      /\ \A i \in Nodes : d[i] = (c[i] + g[i]) - (IF i = b THEN t ELSE 0)
  BY DEF Charged
<1>2. t \in Nat
  BY ChargedSums
<1>3. SumFunctionOnSet(d, Nodes) = 0
  <2>1. SumFunctionOnSet(d, Nodes) = (SumFunctionOnSet(c, Nodes) + SumFunctionOnSet(g, Nodes)) - t
    BY <1>1, ChargedSums
  <2> QED
    BY <1>1, <1>2, <2>1
<1>4. c[b] + g[b] > 0
  <2> SUFFICES ASSUME ~(c[b] + g[b] > 0) PROVE FALSE
    OBVIOUS
  <2>1. PICK h : h = [i \in Nodes |-> c[i] + g[i]]
    OBVIOUS
  <2>2. \A i \in Nodes : c[i] \in Int /\ g[i] \in Int /\ h[i] \in Int /\ h[i] = c[i] + g[i]
    BY <1>1, <2>1
  <2>3. SumFunctionOnSet(h, Nodes) = SumFunctionOnSet(c, Nodes) + SumFunctionOnSet(g, Nodes)
    BY ONLY <2>2, NodesFinite, SumPlus
  <2>4. \A i \in Nodes : h[i] \in Int /\ h[i] <= 0
    <3> SUFFICES ASSUME NEW i \in Nodes PROVE h[i] <= 0
      BY <2>2
    <3>1. CASE i \in C
      BY <1>1, <2>2, <3>1
    <3>2. CASE i \notin C
      BY <1>1, <2>2, <3>2
    <3> QED
      BY <3>1, <3>2
  <2>5. SumFunctionOnSet(h, Nodes) <= 0 * Cardinality(Nodes) /\ Cardinality(Nodes) \in Nat
    BY ONLY <2>4, NodesFinite, SumBelow, FS_CardinalityType, 0 \in Int
  <2> QED
    BY <1>1, <1>2, <2>3, <2>5
<1>5. ASSUME NEW i \in C PROVE d[i] > -t
  <2>1. i \in Nodes /\ c[i] \in Int /\ g[i] \in Nat /\ c[i] > -t /\ c[b] \in Int /\ g[b] \in Nat
    BY <1>1
  <2>2. d[i] = (c[i] + g[i]) - (IF i = b THEN t ELSE 0)
    BY <1>1, <2>1
  <2>3. CASE i = b
    BY <1>2, <1>4, <2>1, <2>2, <2>3
  <2>4. CASE i # b
    BY <1>2, <2>1, <2>2, <2>4
  <2> QED
    BY <2>3, <2>4
<1> QED
  BY <1>3, <1>5

LEMMA PickInv == ASSUME Inv, Pick PROVE Inv'
<1>1. /\ BaseTypeOK /\ LiveExact /\ weight \in [Nodes -> Weights] /\ current \in [Nodes -> Int]
      /\ Bounded(current) /\ total \in Nat /\ TotalExact
      /\ fair \in BOOLEAN /\ picks \in Nat /\ got \in [Nodes -> Nat]
  BY DEF Inv, TypeOK
<1>2. PICK b \in Candidates : /\ Charged(Candidates, current, Gain, b, total, current')
                              /\ last' = b /\ Count(b)
  BY PickCharges
<1>3. UNCHANGED <<eligible, live, weight, total>> /\ total > 0
  BY DEF Pick, baseVars
<1>4. Candidates' = Candidates /\ Gain' = Gain
  BY <1>3 DEF Candidates, Gain
<1>5. /\ Candidates \in SUBSET Nodes /\ b \in Nodes /\ current' \in [Nodes -> Int]
      /\ Gain \in [Nodes -> Nat] /\ W \in Nat
      /\ \A i \in Nodes \ Candidates : current'[i] = 0
      /\ \A i \in Nodes : current'[i] = (current[i] + Gain[i]) - (IF i = b THEN total ELSE 0)
  BY <1>1, <1>2, WeightType DEF Charged
<1>6. Bounded(current)'
  <2>1. PICK d : d = current'
    OBVIOUS
  <2>2. Charged(Candidates, current, Gain, b, total, d)
    BY <1>2, <2>1
  <2>3. Bounded(d)
    BY <1>1, <1>5, <2>2, ChargedBounded
  <2> QED
    BY <2>1, <2>3 DEF Bounded
<1>7. ASSUME SumFunctionOnSet(current, Nodes) = 0, \A i \in Candidates : current[i] > -total
      PROVE  /\ SumFunctionOnSet(current', Nodes) = 0
             /\ \A i \in Candidates : current'[i] > -total
  <2>1. PICK d : d = current'
    OBVIOUS
  <2>2. Charged(Candidates, current, Gain, b, total, d)
    BY <1>2, <2>1
  <2>3. SumFunctionOnSet(d, Nodes) = 0 /\ \A i \in Candidates : d[i] > -total
    BY <1>3, <1>5, <1>7, <2>2, PickedHadCredit
  <2> QED
    BY <2>1, <2>3
<1>8. CASE current = Zero
  <2>1. fair' = TRUE /\ picks' = 1 /\ got' = [Zero EXCEPT ![b] = 1]
    BY <1>2, <1>8 DEF Count
  <2>2. SumFunctionOnSet(current, Nodes) = 0 /\ \A i \in Candidates : current[i] > -total
    <3>1. SumFunctionOnSet(Zero, Nodes) = 0
      BY NodesFinite, SumAllZero DEF Zero, SumFunction
    <3>2. \A i \in Candidates : current[i] = 0
      BY <1>5, <1>8 DEF Zero
    <3> QED
      BY <1>1, <1>3, <1>8, <3>1, <3>2
  <2>3. got' \in [Nodes -> Nat] /\ \A i \in Nodes : got'[i] = IF i = b THEN 1 ELSE 0
    BY <1>5, <2>1 DEF Zero
  <2>4. \A i \in Nodes : current'[i] = picks' * Gain[i] - got'[i] * total
    <3> SUFFICES ASSUME NEW i \in Nodes PROVE current'[i] = picks' * Gain[i] - got'[i] * total
      OBVIOUS
    <3>1. current[i] = 0 /\ Gain[i] \in Nat
      BY <1>5, <1>8 DEF Zero
    <3>2. current'[i] = (current[i] + Gain[i]) - (IF i = b THEN total ELSE 0)
      BY <1>5
    <3> QED
      BY <1>1, <2>1, <2>3, <3>1, <3>2
  <2>5. RoundInv'
    BY <1>1, <1>3, <1>4, <1>7, <2>1, <2>2, <2>4 DEF RoundInv
  <2> QED
    BY <1>1, <1>2, <1>3, <1>4, <1>5, <1>6, <2>1, <2>3, <2>5
    DEF Inv, TypeOK, BaseTypeOK, LiveExact, TotalExact
<1>9. CASE current # Zero /\ fair
  <2>1. fair' = fair /\ picks' = picks + 1 /\ got' = [got EXCEPT ![b] = @ + 1]
    BY <1>2, <1>9 DEF Count
  <2>2. /\ SumFunctionOnSet(current, Nodes) = 0 /\ \A i \in Candidates : current[i] > -total
        /\ picks <= total
        /\ \A i \in Nodes : current[i] = picks * Gain[i] - got[i] * total
    BY <1>9 DEF Inv, RoundInv
  <2>3. picks + 1 <= total
    BY <1>1, <1>9, <2>2, RoundEnds
  <2>4. /\ got' \in [Nodes -> Nat]
        /\ \A i \in Nodes : got'[i] = got[i] + IF i = b THEN 1 ELSE 0
    BY <1>1, <1>5, <2>1
  <2>5. \A i \in Nodes : current'[i] = picks' * Gain[i] - got'[i] * total
    <3> SUFFICES ASSUME NEW i \in Nodes PROVE current'[i] = picks' * Gain[i] - got'[i] * total
      OBVIOUS
    <3>1. PICK p \in Nat, a \in Nat, n \in Nat, k \in Nat :
            p = picks /\ a = Gain[i] /\ n = got[i] /\ k = total
      BY <1>1, <1>5
    <3>2. (p + 1) * a = p * a + a /\ (n + 1) * k = n * k + k /\ p * a \in Nat /\ n * k \in Nat
      OBVIOUS
    <3>3. current[i] = p * a - n * k
      BY <2>2, <3>1
    <3>4. current'[i] = (current[i] + a) - (IF i = b THEN k ELSE 0)
      BY <1>5, <3>1
    <3>5. picks' = p + 1 /\ got'[i] = n + IF i = b THEN 1 ELSE 0
      BY <2>1, <2>4, <3>1
    <3>6. CASE i = b
      <4>1. current'[i] = (p + 1) * a - (n + 1) * k
        BY <3>2, <3>3, <3>4, <3>6
      <4> QED
        BY <3>1, <3>5, <3>6, <4>1
    <3>7. CASE i # b
      <4>1. current'[i] = (p + 1) * a - n * k
        BY <3>2, <3>3, <3>4, <3>7
      <4>2. got'[i] = n
        BY <3>5, <3>7
      <4> QED
        BY <3>1, <3>5, <4>1, <4>2
    <3> QED
      BY <3>6, <3>7
  <2>6. RoundInv'
    BY <1>3, <1>4, <1>7, <2>1, <2>2, <2>3, <2>5 DEF RoundInv
  <2> QED
    BY <1>1, <1>2, <1>3, <1>4, <1>5, <1>6, <2>1, <2>4, <2>6
    DEF Inv, TypeOK, BaseTypeOK, LiveExact, TotalExact
<1>10. CASE current # Zero /\ ~fair
  <2>1. UNCHANGED <<fair, picks, got>>
    BY <1>2, <1>10 DEF Count, round
  <2> QED
    BY <1>1, <1>2, <1>3, <1>4, <1>5, <1>6, <1>10, <2>1
    DEF Inv, TypeOK, BaseTypeOK, LiveExact, TotalExact, RoundInv
<1> QED
  BY <1>8, <1>9, <1>10

LEMMA NextInv == Inv /\ [Next]_vars => Inv'
<1> SUFFICES ASSUME Inv, [Next]_vars PROVE Inv'
  OBVIOUS
<1>1. CASE Pick
  BY <1>1, PickInv
<1>2. CASE \E i \in Nodes, up \in BOOLEAN : SetEligible(i, up)
  BY <1>2, FlipInv
<1>3. CASE \E i \in Nodes, w \in Weights : SetWeight(i, w)
  BY <1>3, SetWeightInv
<1>4. CASE UNCHANGED vars
  BY <1>4 DEF vars, baseVars, ownVars, round, Inv, TypeOK, BaseTypeOK, LiveExact,
              TotalExact, Bounded, RoundInv, Gain, Candidates
<1> QED
  BY <1>1, <1>2, <1>3, <1>4 DEF Next

LEMMA InvAlways == Spec => []Inv
  BY InitInv, NextInv, PTL DEF Spec

(* One endpoint's credit is a sum, too. *)
LEMMA OneBounded == ASSUME Inv PROVE CreditBounded
<1> SUFFICES ASSUME NEW i \in Nodes
             PROVE  /\ current[i] <= 2 * (N-1) * MaxWeight
                    /\ -current[i] <= 2 * (N-1) * MaxWeight
  BY DEF CreditBounded
<1>1. PICK c \in [Nodes -> Int] : c = current
  BY DEF Inv, TypeOK
<1>2. /\ SumFunctionOnSet(c, {i}) <= Cap(Cardinality({i}))
      /\ -SumFunctionOnSet(c, {i}) <= Cap(Cardinality({i}))
  BY <1>1 DEF Inv, Bounded
<1>3. SumFunctionOnSet(c, {i}) = c[i]
  <2>1. /\ IsFiniteSet({}) /\ i \notin {} /\ c[i] \in Int /\ \A y \in {} : c[y] \in Int
        /\ {} \cup {i} = {i}
    BY FS_EmptySet
  <2>2. SumFunctionOnSet(c, {} \cup {i}) = SumFunctionOnSet(c, {}) + c[i]
    BY ONLY <2>1, SumAdd
  <2> QED
    BY <2>1, <2>2, SumEmpty
<1>4. Cap(1) = 2 * (N-1) * MaxWeight
  <2>1. N \in Nat /\ W \in Nat
    BY NodesFinite, WeightType DEF Inv, TypeOK
  <2>2. 1 * ((2*N - 1) - 1) = 2 * (N-1)
    BY <2>1
  <2> QED
    BY <2>2 DEF Cap, W
<1> QED
  BY <1>1, <1>2, <1>3, <1>4, FS_Singleton

LEMMA ConsistentOK == ASSUME Inv PROVE Consistent
  BY OneBounded DEF Inv, Consistent

LEMMA ExactShareOK == ASSUME Inv PROVE ExactShare
<1> SUFFICES ASSUME fair
             PROVE  /\ picks <= total
                    /\ picks = total => current = Zero
                    /\ current = Zero => \A i \in Candidates : got[i] * total = picks * weight[i]
                    /\ \A i \in Candidates : got[i] * total < picks * weight[i] + total
  BY DEF ExactShare, NeverAhead
<1>1. /\ picks <= total
      /\ \A i \in Nodes : current[i] = picks * Gain[i] - got[i] * total
      /\ \A i \in Candidates : current[i] > -total
      /\ total \in Nat /\ picks \in Nat /\ got \in [Nodes -> Nat]
      /\ weight \in [Nodes -> Weights]
  BY DEF Inv, RoundInv, TypeOK
<1>2. Candidates \in SUBSET Nodes
  BY DEF Inv, TypeOK, BaseTypeOK, Candidates
<1>3. ASSUME NEW i \in Candidates
      PROVE  /\ current = Zero => got[i] * total = picks * weight[i]
             /\ got[i] * total < picks * weight[i] + total
  <2>1. i \in Nodes /\ weight[i] \in Nat /\ got[i] \in Nat /\ Gain[i] = weight[i]
    BY <1>1, <1>2, WeightType DEF Gain
  <2>2. PICK x \in Nat, y \in Nat : x = got[i] * total /\ y = picks * weight[i]
    <3>1. got[i] * total \in Nat /\ picks * weight[i] \in Nat
      BY <1>1, <2>1
    <3> QED
      BY <3>1
  <2>3. current[i] = y - x /\ current[i] > -total
    BY <1>1, <2>1, <2>2
  <2>4. current = Zero => current[i] = 0
    BY <2>1 DEF Zero
  <2> QED
    BY <1>1, <2>2, <2>3, <2>4
<1> QED
  BY <1>1, <1>3, RoundEnds

------------------------------------------------------------------------------
(* The theorems *)

(* The live count and the total stay exact, and churn piles up no credit:  *)
(* for every pool, every set of weights and every sequence of picks, flips *)
(* and reweights, no endpoint is owed or owes more than 2 (N-1) times the  *)
(* largest weight (SmoothWRRBalancer.setEligible, setWeight, pick,         *)
(* assertConsistent).                                                      *)
THEOREM ConsistentAlways == Spec => []Consistent
  BY InvAlways, ConsistentOK, PTL

(* A round of picks hands out exact shares, smoothly, whatever the weights *)
(* and the pool (SmoothWRRBalancer.pick).                                  *)
THEOREM ExactShareAlways == Spec => []ExactShare
  BY InvAlways, ExactShareOK, PTL

------------------------------------------------------------------------------
(* The traffic engine of Pool Scope *)

LEMMA MinOfTwo ==
  ASSUME NEW a \in Int, NEW b \in Int
  PROVE  Min({a, b}) = IF a <= b THEN a ELSE b
<1> DEFINE m == IF a <= b THEN a ELSE b
<1>1. m \in {a, b} /\ \A y \in {a, b} : m <= y
  OBVIOUS
<1>2. ASSUME NEW x \in {a, b}, \A y \in {a, b} : x <= y PROVE x = m
  BY <1>2
<1> QED
  BY <1>1, <1>2 DEF Min

LEMMA MaxOfTwo ==
  ASSUME NEW a \in Int, NEW b \in Int
  PROVE  Max({a, b}) = IF a >= b THEN a ELSE b
<1> DEFINE m == IF a >= b THEN a ELSE b
<1>1. m \in {a, b} /\ \A y \in {a, b} : m >= y
  OBVIOUS
<1>2. ASSUME NEW x \in {a, b}, \A y \in {a, b} : x >= y PROVE x = m
  BY <1>2
<1> QED
  BY <1>1, <1>2 DEF Max

LEMMA DriverConstants ==
  /\ N \in Nat \ {0} /\ Nodes = 0 .. N-1 /\ NONE = -1 /\ NONE \notin Nodes
  /\ IsFiniteSet(Nodes) /\ IsFiniteSet(Slots)
  /\ MaxService \in Nat \ {0} /\ Targets \subseteq Nat \ {0}
  /\ Weights0 \in [Nodes -> Nat] /\ Ramp \in [Nodes -> Nat]
  /\ Pin \in Nat \ {0} /\ High \in Nat \ {0} /\ Low \in Nat \ {0}
<1>1. N \in Nat \ {0} /\ Nodes = 0 .. N-1 /\ NONE = -1
  BY CapacityAssumption DEF Nodes, NONE
<1>2. NONE \notin Nodes /\ IsFiniteSet(Nodes)
  BY <1>1, BelowFinite
<1>3. IsFiniteSet(Slots)
  BY DriverAssumption
<1>4. /\ MaxService \in Nat \ {0} /\ Targets \subseteq Nat \ {0}
      /\ Weights0 \in [Nodes -> Nat] /\ Ramp \in [Nodes -> Nat]
      /\ Pin \in Nat \ {0} /\ High \in Nat \ {0} /\ Low \in Nat \ {0}
  BY DriverAssumption
<1> QED
  BY <1>1, <1>2, <1>3, <1>4

------------------------------------------------------------------------------
(* The invariant *)

(* Types, as far as they are needed. *)
Slot == [at : Nodes \cup {NONE}, left : Nat]
DriverTypes ==
  /\ eligible \in SUBSET Nodes
  /\ weights \in [Nodes -> Nat] /\ built \in [Nodes -> Nat]
  /\ inflight \in [Nodes -> Nat]
  /\ slots \in [Slots -> Slot]
  /\ free \in [Slots -> Nat]
  /\ pin \in [Nodes -> Nat] /\ ceil \in [Nodes -> Nat \cup {NONE}]
  /\ flapping \in Nodes \cup {NONE}
  /\ swinging = <<>> \/ swinging \in Nodes \X Nodes

(* What bends a count is remembered: a worker that is not bent has neither *)
(* pin nor ceiling and does not swing, and a ceiling comes with a pin, so  *)
(* that a switch, which forgets the workers without pin, forgets none that *)
(* has a ceiling.                                                          *)
BentRemembered ==
  /\ \A i \in Nodes : i \notin bent => pin[i] = 0 /\ i \notin Range(swinging)
  /\ \A i \in Nodes : ceil[i] # NONE => pin[i] > 0

DInv ==
  /\ DriverTypes
  /\ BentRemembered
  /\ SlotsConserved
  /\ CountsHonest
  /\ NotedTracksCounts
  /\ WeightsReachBalancer

(* No request and no count: what a switch leaves. *)
LEMMA EmptyLoad ==
  ASSUME DriverTypes', BentRemembered',
         inflight' = Nothing, noted' = 0,
         slots' = [s \in Slots |-> Idle], free' = AllFree,
         WeightsReachBalancer'
  PROVE  DInv'
<1>1. (SlotsConserved)'
  BY DEF SlotsConserved, Idle, AllFree
<1>2. \A i \in Nodes : Cardinality((PendingOf(i))') = 0
  <2> SUFFICES ASSUME NEW i \in Nodes PROVE Cardinality((PendingOf(i))') = 0
    OBVIOUS
  <2>1. (PendingOf(i))' = {}
    BY DriverConstants DEF PendingOf, Idle
  <2> QED
    BY <2>1, FS_EmptySet
<1>3. (CountsHonest)'
  BY <1>2 DEF CountsHonest, Nothing
<1>4. (NotedTracksCounts)'
  BY DriverConstants, SumAllZero DEF NotedTracksCounts, Nothing
<1> QED
  BY <1>1, <1>3, <1>4 DEF DInv

------------------------------------------------------------------------------
(* A tick *)

LEMMA SwingRange ==
  ASSUME DriverTypes
  PROVE  /\ swinging = <<>> => Range(swinging) = {}
         /\ swinging # <<>> => /\ swinging[1] \in Nodes /\ swinging[2] \in Nodes
                              /\ Range(swinging) = {swinging[1], swinging[2]}
<1>1. CASE swinging = <<>>
  BY <1>1 DEF Range
<1>2. CASE swinging \in Nodes \X Nodes
  <2>1. PICK a \in Nodes, b \in Nodes : swinging = <<a, b>>
    BY <1>2
  <2>2. DOMAIN <<a, b>> = 1 .. 2 /\ <<a, b>>[1] = a /\ <<a, b>>[2] = b /\ 1 .. 2 = {1, 2}
    OBVIOUS
  <2>3. Range(<<a, b>>) = {a, b}
    BY <2>2 DEF Range
  <2> QED
    BY <2>1, <2>2, <2>3
<1> QED
  BY <1>1, <1>2 DEF DriverTypes

(* The flap and the swing bend none but the workers they are about. *)
LEMMA FlapTypes ==
  ASSUME DriverTypes, FlapTick
  PROVE  eligible' \in SUBSET Nodes
  BY DriverConstants DEF DriverTypes, FlapTick, Flip, baseVars

LEMMA SwingBends ==
  ASSUME DriverTypes, BentRemembered, Swing
  PROVE  /\ pin' \in [Nodes -> Nat] /\ ceil' \in [Nodes -> Nat \cup {NONE}]
         /\ \A i \in Nodes \ Range(swinging) : pin'[i] = pin[i] /\ ceil'[i] = ceil[i]
         /\ \A i \in Range(swinging) : pin'[i] > 0 /\ ceil'[i] # NONE
<1>1. CASE swinging = <<>>
  BY <1>1, SwingRange DEF Swing, DriverTypes
<1>2. CASE swinging # <<>>
  <2>1. PICK a \in Nodes, b \in Nodes :
          a = swinging[1] /\ b = swinging[2] /\ Range(swinging) = {a, b}
    BY <1>2, SwingRange
  <2>2. PICK x \in Nat \ {0}, y \in Nat \ {0} :
          /\ x = IF (clock \div Half) % 2 = 0 THEN High ELSE Low
          /\ y = IF (clock \div Half) % 2 = 0 THEN Low ELSE High
    BY DriverConstants
  <2>3. /\ pin' = [[pin EXCEPT ![a] = x] EXCEPT ![b] = y]
        /\ ceil' = [[ceil EXCEPT ![a] = x] EXCEPT ![b] = y]
    BY <1>2, <2>1, <2>2 DEF Swing
  <2>4. x # NONE /\ y # NONE
    BY <2>2, DriverConstants
  <2>5. pin \in [Nodes -> Nat] /\ ceil \in [Nodes -> Nat \cup {NONE}]
    BY DEF DriverTypes
  <2>6. pin' \in [Nodes -> Nat] /\ ceil' \in [Nodes -> Nat \cup {NONE}]
    BY <2>2, <2>3, <2>5
  <2>7. /\ \A i \in Nodes \ {a, b} : pin'[i] = pin[i] /\ ceil'[i] = ceil[i]
        /\ \A i \in {a, b} : pin'[i] \in {x, y} /\ ceil'[i] \in {x, y}
    BY <2>3, <2>5
  <2> QED
    BY <2>1, <2>2, <2>4, <2>6, <2>7
<1> QED
  BY <1>1, <1>2

(* Of what is pending at a worker, no more is settled than its count is.   *)
LEMMA SettledRange ==
  ASSUME DInv, NEW i \in Nodes
  PROVE  /\ IsFiniteSet(PendingOf(i)) /\ PendingOf(i) \in SUBSET Slots
         /\ Cardinality(PendingOf(i)) = Cardinality(Due \cap PendingOf(i))
                                          + Cardinality(PendingOf(i) \ Due)
         /\ Cardinality(Due \cap PendingOf(i)) \in Nat
         /\ Cardinality(PendingOf(i) \ Due) \in Nat
         /\ inflight[i] \in Nat
         /\ Settled(i) \in 0 .. inflight[i]
         /\ inflight[i] >= Cardinality(PendingOf(i)) =>
              Settled(i) = Cardinality(Due \cap PendingOf(i))
<1>1. PendingOf(i) \in SUBSET Slots /\ IsFiniteSet(PendingOf(i))
  BY DriverConstants, FS_Subset DEF PendingOf
<1> DEFINE A == Due \cap PendingOf(i)
           B == PendingOf(i) \ Due
<1>2. IsFiniteSet(A) /\ IsFiniteSet(B) /\ A \cup B = PendingOf(i) /\ A \cap B = {}
  BY <1>1, FS_Subset
<1> HIDE DEF A, B
<1>3. Cardinality(A) \in Nat /\ Cardinality(B) \in Nat /\ Cardinality(A \cap B) = 0
  BY <1>2, FS_CardinalityType, FS_EmptySet
<1>4. Cardinality(PendingOf(i)) = Cardinality(A) + Cardinality(B)
  <2>1. Cardinality(A \cup B) = Cardinality(A) + Cardinality(B) - Cardinality(A \cap B)
    BY <1>2, FS_Union
  <2>2. Cardinality(A \cup B) = Cardinality(PendingOf(i))
    BY <1>2
  <2> QED
    BY <1>3, <2>1, <2>2
<1>5. inflight[i] \in Nat
  BY DEF DInv, DriverTypes
<1>6. Settled(i) = Min({inflight[i], Cardinality(A)})
  BY DEF Settled, A
<1>7. Settled(i) = IF inflight[i] <= Cardinality(A) THEN inflight[i] ELSE Cardinality(A)
  BY <1>3, <1>5, <1>6, MinOfTwo
<1> QED
  BY <1>1, <1>3, <1>4, <1>5, <1>7 DEF A, B

(* A slot is open exactly if nothing is pending in it after the settles.   *)
LEMMA OpenSlots ==
  ASSUME DInv, NEW s \in Slots
  PROVE  /\ free[s] \in Nat /\ slots[s] \in Slot
         /\ free[s] = IF slots[s].at = NONE THEN 1 ELSE 0
         /\ s \in Due <=> (slots[s].at # NONE /\ slots[s].left = 0)
         /\ s \in Active(slots) <=> slots[s].at # NONE
  BY DEF DInv, DriverTypes, SlotsConserved, Due, Active

(* What a tick does to slots and counts, once the slots to fill, their     *)
(* workers and their services are chosen.                                  *)
Filled(new, to, service) ==
  LET settled == [i \in Nodes |-> inflight[i] - Settled(i)]
      picked == [i \in Nodes |-> settled[i] + Cardinality({s \in new : to[s] = i})]
  IN  /\ inflight' = [i \in Nodes |-> Clamped(i, picked[i])]
      /\ noted' = Note(noted, (Cardinality(new)
                                   - (SumFunction(inflight) - SumFunction(settled)))
                                + (SumFunction(inflight') - SumFunction(picked)))
      /\ slots' = [s \in Slots |->
                     IF s \in new THEN [at |-> to[s], left |-> service[s] - 1]
                     ELSE IF s \in Active(slots) \ Due THEN [slots[s] EXCEPT !.left = @ - 1]
                     ELSE Idle]
      /\ free' = [s \in Slots |-> (free[s] + IF s \in Due THEN 1 ELSE 0)
                                   - IF s \in new THEN 1 ELSE 0]

LEMMA TickFills ==
  ASSUME DInv, Tick
  PROVE  \E new \in SUBSET {s \in Slots : slots[s].at = NONE \/ s \in Due} :
         \E to \in [new -> eligible'], service \in [new -> 1 .. MaxService] :
            Filled(new, to, service)
<1> DEFINE freed == [s \in Slots |-> free[s] + IF s \in Due THEN 1 ELSE 0]
           open == {s \in Slots : freed[s] > 0}
           pending == Active(slots) \ Due
           settled == [i \in Nodes |-> inflight[i] - Settled(i)]
           picked(new, to) ==
             [i \in Nodes |-> settled[i] + Cardinality({s \in new : to[s] = i})]
           TickOn(new, to, service) ==
             /\ inflight' = [i \in Nodes |-> Clamped(i, picked(new, to)[i])]
             /\ noted' = Note(noted,
                          Told(SumFunction(inflight) - SumFunction(settled),
                                 Cardinality(new),
                                 SumFunction(inflight') - SumFunction(picked(new, to))))
             /\ slots' = [s \in Slots |->
                            IF s \in new THEN [at |-> to[s], left |-> service[s] - 1]
                            ELSE IF s \in pending THEN [slots[s] EXCEPT !.left = @ - 1]
                            ELSE Idle]
             /\ free' = [s \in Slots |-> freed[s] - IF s \in new THEN 1 ELSE 0]
           fillable(target) ==
             kSubset(FillSize(target, Cardinality(pending), SumFunction(freed)), open)
<1>1. PICK target \in Targets :
        \E new \in fillable(target) :
          \E to \in [new -> Pickable], service \in [new -> 1 .. MaxService] :
            TickOn(new, to, service)
  BY DEF Tick
<1>2. PICK new \in fillable(target) :
          \E to \in [new -> Pickable], service \in [new -> 1 .. MaxService] :
            TickOn(new, to, service)
  BY <1>1
<1>3. PICK to \in [new -> Pickable], service \in [new -> 1 .. MaxService] :
        TickOn(new, to, service)
  BY <1>2
<1>4. new \in SUBSET open
  BY <1>2 DEF kSubset
<1>5. open \subseteq {s \in Slots : slots[s].at = NONE \/ s \in Due}
  BY OpenSlots
<1>6. to \in [new -> eligible']
  BY <1>3 DEF Pickable
<1>7. Filled(new, to, service)
  <2>1. picked(new, to) =
          [i \in Nodes |-> settled[i] + Cardinality({s \in new : to[s] = i})]
    OBVIOUS
  <2>2. noted' = Note(noted, (Cardinality(new)
                                 - (SumFunction(inflight) - SumFunction(settled)))
                              + (SumFunction(inflight') - SumFunction(picked(new, to))))
    BY <1>3 DEF Told
  <2>3. free' = [s \in Slots |-> (free[s] + IF s \in Due THEN 1 ELSE 0)
                                 - IF s \in new THEN 1 ELSE 0]
    BY <1>3, <1>4
  <2> QED
    BY <1>3, <2>1, <2>2, <2>3 DEF Filled
<1> QED
  BY <1>4, <1>5, <1>6, <1>7

(* The slots after a tick, one by one. *)
LEMMA FilledSlots ==
  ASSUME DInv, Tick,
         NEW new \in SUBSET {s \in Slots : slots[s].at = NONE \/ s \in Due},
         NEW to \in [new -> eligible'], NEW service \in [new -> 1 .. MaxService],
         Filled(new, to, service)
  PROVE  /\ slots' \in [Slots -> Slot]
         /\ \A s \in Slots :
              slots'[s].at = IF s \in new THEN to[s]
                             ELSE IF s \in Due THEN NONE ELSE slots[s].at
         /\ free' \in [Slots -> Nat]
         /\ (SlotsConserved)'
<1>1. eligible' \in SUBSET Nodes
  BY FlapTypes DEF DInv, Tick
<1>2. ASSUME NEW s \in Slots
      PROVE  /\ slots'[s] \in Slot
             /\ slots'[s].at = IF s \in new THEN to[s]
                               ELSE IF s \in Due THEN NONE ELSE slots[s].at
  <2>1. CASE s \in new
    <3>1. slots'[s] = [at |-> to[s], left |-> service[s] - 1]
      BY <2>1 DEF Filled
    <3>2. to[s] \in Nodes /\ service[s] \in 1 .. MaxService
      BY <1>1, <2>1
    <3>3. service[s] - 1 \in Nat
      BY <3>2, DriverConstants
    <3> QED
      BY <2>1, <3>1, <3>2, <3>3 DEF Slot
  <2>2. CASE s \notin new /\ s \in Active(slots) \ Due
    <3>1. slots'[s] = [slots[s] EXCEPT !.left = @ - 1]
      BY <2>2 DEF Filled
    <3>2. slots[s] \in Slot /\ slots[s].left # 0
      BY <2>2, OpenSlots
    <3>3. slots[s].left - 1 \in Nat
      BY <3>2 DEF Slot
    <3> QED
      BY <2>2, <3>1, <3>2, <3>3 DEF Slot
  <2>3. CASE s \notin new /\ s \notin Active(slots) \ Due
    <3>1. slots'[s] = Idle
      BY <2>3 DEF Filled
    <3>2. s \in Due \/ slots[s].at = NONE
      BY <2>3, OpenSlots
    <3> QED
      BY <2>3, <3>1, <3>2 DEF Slot, Idle
  <2> QED
    BY <2>1, <2>2, <2>3
<1>3. slots' \in [Slots -> Slot]
  <2>1. slots' = [s \in Slots |-> slots'[s]]
    BY DEF Filled
  <2> QED
    BY <1>2, <2>1
<1>4. ASSUME NEW s \in Slots
      PROVE  free'[s] = IF slots'[s].at = NONE THEN 1 ELSE 0
  <2>1. free'[s] = (free[s] + IF s \in Due THEN 1 ELSE 0) - IF s \in new THEN 1 ELSE 0
    BY DEF Filled
  <2>2. s \in new => to[s] \in Nodes /\ to[s] # NONE
    BY <1>1, DriverConstants
  <2>3. slots'[s].at = IF s \in new THEN to[s] ELSE IF s \in Due THEN NONE ELSE slots[s].at
    BY <1>2
  <2>4. /\ free[s] = IF slots[s].at = NONE THEN 1 ELSE 0
        /\ s \in Due => slots[s].at # NONE
    BY OpenSlots
  <2>5. CASE s \in new
    BY <2>1, <2>2, <2>3, <2>4, <2>5
  <2>6. CASE s \notin new
    BY <2>1, <2>3, <2>4, <2>6
  <2> QED
    BY <2>5, <2>6
<1>5. (SlotsConserved)'
  BY <1>4 DEF SlotsConserved
<1>6. free' \in [Slots -> Nat]
  <2>1. free' = [s \in Slots |-> free'[s]]
    BY DEF Filled
  <2> QED
    BY <1>4, <2>1
<1> QED
  BY <1>2, <1>3, <1>5, <1>6

(* What is pending at a worker after a tick: what was and is not over, and *)
(* what was sent there.                                                    *)
LEMMA FilledPending ==
  ASSUME DInv, Tick,
         NEW new \in SUBSET {s \in Slots : slots[s].at = NONE \/ s \in Due},
         NEW to \in [new -> eligible'], NEW service \in [new -> 1 .. MaxService],
         Filled(new, to, service), NEW i \in Nodes
  PROVE  /\ Cardinality((PendingOf(i))') = Cardinality(PendingOf(i) \ Due)
                                             + Cardinality({s \in new : to[s] = i})
         /\ Cardinality({s \in new : to[s] = i}) \in Nat
<1> DEFINE A == PendingOf(i) \ Due
           B == {s \in new : to[s] = i}
<1>1. (PendingOf(i))' = A \cup B
  <2>1. (PendingOf(i))' = {s \in Slots : slots'[s].at = i}
    BY DEF PendingOf
  <2>2. i # NONE
    BY DriverConstants
  <2>3. ASSUME NEW s \in Slots PROVE slots'[s].at = i <=> s \in A \cup B
    <3>1. CASE s \in new
      <4>1. slots'[s].at = to[s]
        BY <3>1, FilledSlots
      <4>2. s \notin A
        BY <2>2, <3>1 DEF PendingOf
      <4> QED
        BY <3>1, <4>1, <4>2
    <3>2. CASE s \notin new
      <4>1. slots'[s].at = IF s \in Due THEN NONE ELSE slots[s].at
        BY <3>2, FilledSlots
      <4> QED
        BY <2>2, <3>2, <4>1 DEF PendingOf
    <3> QED
      BY <3>1, <3>2
  <2>4. A \cup B \in SUBSET Slots
    BY DEF PendingOf
  <2> QED
    BY <2>1, <2>3, <2>4
<1>2. A \cap B = {}
  BY DriverConstants DEF PendingOf
<1>3. IsFiniteSet(A) /\ IsFiniteSet(B)
  <2>1. A \in SUBSET Slots /\ B \in SUBSET Slots
    BY DEF PendingOf
  <2> QED
    BY <2>1, DriverConstants, FS_Subset
<1> HIDE DEF A, B
<1>4. /\ Cardinality(A) \in Nat /\ Cardinality(B) \in Nat
      /\ Cardinality(A \cup B) = Cardinality(A) + Cardinality(B) - Cardinality(A \cap B)
      /\ Cardinality(A \cap B) = 0
  BY <1>2, <1>3, FS_CardinalityType, FS_Union, FS_EmptySet
<1> QED
  BY <1>1, <1>4 DEF A, B

(* The counts after a tick: what was, less the settles, with the new       *)
(* requests, clamped; and what the balancer was told is the difference.    *)
LEMMA FilledCounts ==
  ASSUME DInv, Tick,
         NEW new \in SUBSET {s \in Slots : slots[s].at = NONE \/ s \in Due},
         NEW to \in [new -> eligible'], NEW service \in [new -> 1 .. MaxService],
         Filled(new, to, service)
  PROVE  /\ inflight' \in [Nodes -> Nat]
         /\ \A i \in Nodes :
              /\ i \notin bent => inflight'[i] = Cardinality((PendingOf(i))')
              /\ ceil'[i] = NONE => inflight'[i] >= Cardinality((PendingOf(i))')
         /\ strategy \in Noting => noted' = SumFunction(inflight')
<1> DEFINE sent == [i \in Nodes |-> Cardinality({s \in new : to[s] = i})]
           settled == [i \in Nodes |-> inflight[i] - Settled(i)]
           picked == [i \in Nodes |-> settled[i] + Cardinality({s \in new : to[s] = i})]
<1>1. IsFiniteSet(Nodes) /\ IsFiniteSet(new) /\ to \in [new -> Nodes]
  <2>1. new \in SUBSET Slots /\ eligible' \in SUBSET Nodes
    BY FlapTypes DEF DInv, Tick
  <2> QED
    BY <2>1, DriverConstants, FS_Subset
<1>2. ASSUME NEW i \in Nodes
      PROVE  inflight[i] \in Nat /\ settled[i] \in Nat /\ sent[i] \in Nat /\ picked[i] \in Nat
                               /\ picked[i] = settled[i] + sent[i]
  <2>1. inflight[i] \in Nat /\ Settled(i) \in 0 .. inflight[i]
    BY SettledRange
  <2>2. Cardinality({s \in new : to[s] = i}) \in Nat
    BY FilledPending
  <2> QED
    BY <2>1, <2>2
<1>3. ASSUME NEW i \in Nodes
      PROVE  /\ inflight'[i] = Clamped(i, picked[i])
             /\ inflight'[i] \in Nat
             /\ ceil'[i] = NONE => inflight'[i] >= picked[i]
             /\ pin'[i] = 0 /\ ceil'[i] = NONE => inflight'[i] = picked[i]
  <2>1. inflight'[i] = Clamped(i, picked[i])
    BY DEF Filled
  <2>2. pin'[i] \in Nat /\ ceil'[i] \in Nat \cup {NONE}
    BY SwingBends DEF Tick, DInv
  <2>3. picked[i] \in Nat
    BY <1>2
  <2> HIDE DEF picked
  <2> QED
    BY <2>1, <2>2, <2>3 DEF Clamped
<1>4. inflight' \in [Nodes -> Nat]
  <2>1. inflight' = [i \in Nodes |-> inflight'[i]]
    BY DEF Filled
  <2> QED
    BY <1>3, <2>1
<1>5. ASSUME NEW i \in Nodes, inflight[i] >= Cardinality(PendingOf(i))
      PROVE  /\ picked[i] >= Cardinality((PendingOf(i))')
             /\ inflight[i] = Cardinality(PendingOf(i)) =>
                  picked[i] = Cardinality((PendingOf(i))')
  <2>1. Cardinality((PendingOf(i))') = Cardinality(PendingOf(i) \ Due) + sent[i]
    BY FilledPending
  <2>2. /\ settled[i] = inflight[i] - Cardinality(Due \cap PendingOf(i))
        /\ Cardinality(PendingOf(i)) = Cardinality(Due \cap PendingOf(i))
                                         + Cardinality(PendingOf(i) \ Due)
        /\ Cardinality(Due \cap PendingOf(i)) \in Nat
        /\ Cardinality(PendingOf(i) \ Due) \in Nat
    BY <1>5, SettledRange
  <2>3. picked[i] = settled[i] + sent[i] /\ sent[i] \in Nat /\ inflight[i] \in Nat
    BY <1>2
  <2> HIDE DEF picked, settled, sent
  <2> QED
    BY <1>5, <2>1, <2>2, <2>3
<1>6. ASSUME NEW i \in Nodes
      PROVE  /\ i \notin bent => inflight'[i] = Cardinality((PendingOf(i))')
             /\ ceil'[i] = NONE => inflight'[i] >= Cardinality((PendingOf(i))')
  <2>1. /\ i \notin bent => inflight[i] = Cardinality(PendingOf(i))
        /\ ceil[i] = NONE => inflight[i] >= Cardinality(PendingOf(i))
        /\ inflight[i] \in Nat
    BY <1>2 DEF DInv, CountsHonest
  <2>2. ceil'[i] = NONE => ceil[i] = NONE
    BY SwingBends, DriverConstants DEF Tick, DInv
  <2>3. i \notin bent => pin'[i] = 0 /\ ceil'[i] = NONE
    <3>1. i \notin bent => pin[i] = 0 /\ i \notin Range(swinging) /\ ceil[i] = NONE
      BY DEF DInv, BentRemembered
    <3> QED
      BY <3>1, SwingBends DEF Tick, DInv
  <2>4. Cardinality((PendingOf(i))') \in Nat
    <3>1. /\ Cardinality((PendingOf(i))') = Cardinality(PendingOf(i) \ Due)
                                             + Cardinality({s \in new : to[s] = i})
          /\ Cardinality({s \in new : to[s] = i}) \in Nat
          /\ Cardinality(PendingOf(i) \ Due) \in Nat
      BY FilledPending, SettledRange
    <3> QED
      BY <3>1
  <2>5. picked[i] \in Nat
    BY <1>2
  <2> HIDE DEF picked, settled, sent
  <2>6. ceil'[i] = NONE => inflight'[i] >= Cardinality((PendingOf(i))')
    BY <1>3, <1>5, <2>1, <2>2, <2>4, <2>5
  <2>7. i \notin bent => inflight'[i] = Cardinality((PendingOf(i))')
    BY <1>3, <1>5, <2>1, <2>2, <2>3, <2>4, <2>5
  <2> QED
    BY <2>6, <2>7
<1>7. /\ SumFunction(inflight) \in Nat /\ SumFunction(inflight') \in Nat
      /\ SumFunction(settled) \in Nat /\ SumFunction(picked) \in Nat
      /\ Cardinality(new) \in Nat
      /\ SumFunction(picked) = SumFunction(settled) + Cardinality(new)
  <2>1. /\ inflight \in [Nodes -> Nat] /\ settled \in [Nodes -> Nat]
        /\ picked \in [Nodes -> Nat] /\ sent \in [Nodes -> Nat]
    BY <1>2 DEF DInv, DriverTypes
  <2>2. SumFunctionOnSet(sent, Nodes) = Cardinality(new)
    BY <1>1, SumFibres
  <2>3. \A i \in Nodes : settled[i] \in Int /\ sent[i] \in Int
                           /\ picked[i] = settled[i] + sent[i]
    <3> HIDE DEF picked, settled, sent
    <3> QED
      BY <1>2
  <2> HIDE DEF picked, settled, sent
  <2>4. SumFunctionOnSet(picked, Nodes)
          = SumFunctionOnSet(settled, Nodes) + SumFunctionOnSet(sent, Nodes)
    BY <1>1, <2>3, SumPlus
  <2>5. DOMAIN picked = Nodes /\ DOMAIN settled = Nodes
    BY <2>1
  <2> QED
    BY <1>1, <1>4, <2>1, <2>2, <2>4, <2>5, SumAllNat, FS_CardinalityType DEF SumFunction
<1>8. ASSUME strategy \in Noting PROVE noted' = SumFunction(inflight')
  <2>1. noted = SumFunction(inflight)
    BY <1>8 DEF DInv, NotedTracksCounts
  <2>2. noted' = Note(noted, (Cardinality(new)
                                  - (SumFunction(inflight) - SumFunction(settled)))
                               + (SumFunction(inflight') - SumFunction(picked)))
    BY DEF Filled
  <2> HIDE DEF picked, settled, sent
  <2>3. PICK d \in Int : d = (Cardinality(new)
                              - (SumFunction(inflight) - SumFunction(settled)))
                           + (SumFunction(inflight') - SumFunction(picked))
    BY <1>7
  <2>4. noted + d = SumFunction(inflight')
    BY <1>7, <2>1, <2>3
  <2>5. Max({noted + d, 0}) = noted + d
    BY <1>7, <2>4, MaxOfTwo
  <2> QED
    BY <1>8, <2>2, <2>3, <2>4, <2>5 DEF Note
<1> QED
  BY <1>4, <1>6, <1>8

LEMMA TickKeeps == ASSUME DInv, Tick PROVE DInv'
<1>1. PICK new \in SUBSET {s \in Slots : slots[s].at = NONE \/ s \in Due} :
        \E to \in [new -> eligible'], service \in [new -> 1 .. MaxService] :
           Filled(new, to, service)
  BY TickFills
<1>2. PICK to \in [new -> eligible'], service \in [new -> 1 .. MaxService] :
        Filled(new, to, service)
  BY <1>1
<1>3. /\ slots' \in [Slots -> Slot] /\ free' \in [Slots -> Nat] /\ (SlotsConserved)'
  BY <1>2, FilledSlots
<1>4. /\ inflight' \in [Nodes -> Nat]
      /\ \A i \in Nodes :
           /\ i \notin bent => inflight'[i] = Cardinality((PendingOf(i))')
           /\ ceil'[i] = NONE => inflight'[i] >= Cardinality((PendingOf(i))')
      /\ strategy \in Noting => noted' = SumFunction(inflight')
  BY <1>2, FilledCounts
<1>5. /\ UNCHANGED <<strategy, weights, built, flapping, swinging, bent>>
      /\ eligible' \in SUBSET Nodes
  BY FlapTypes DEF Tick, DInv
<1>6. /\ pin' \in [Nodes -> Nat] /\ ceil' \in [Nodes -> Nat \cup {NONE}]
      /\ \A i \in Nodes \ Range(swinging) : pin'[i] = pin[i] /\ ceil'[i] = ceil[i]
      /\ \A i \in Range(swinging) : pin'[i] > 0 /\ ceil'[i] # NONE
  BY SwingBends DEF Tick, DInv
<1>7. DriverTypes'
  BY <1>3, <1>4, <1>5, <1>6 DEF DInv, DriverTypes
<1>8. BentRemembered'
  BY <1>5, <1>6 DEF DInv, BentRemembered
<1>9. (CountsHonest)'
  BY <1>4, <1>5 DEF CountsHonest
<1>10. (NotedTracksCounts)'
  BY <1>4, <1>5 DEF NotedTracksCounts
<1>11. (WeightsReachBalancer)'
  BY <1>5 DEF DInv, WeightsReachBalancer
<1> QED
  BY <1>3, <1>7, <1>8, <1>9, <1>10, <1>11 DEF DInv

------------------------------------------------------------------------------
(* The keys *)

LEMMA NewBalancerKeeps ==
  ASSUME DInv, NEW name, NEW w \in [Nodes -> Nat], NewBalancer(name, w),
         weights' = w, eligible' \in SUBSET Nodes, BentRemembered',
         pin' \in [Nodes -> Nat], ceil' \in [Nodes -> Nat \cup {NONE}],
         flapping' \in Nodes \cup {NONE},
         swinging' = <<>> \/ swinging' \in Nodes \X Nodes
  PROVE  DInv'
<1>1. /\ inflight' = Nothing /\ noted' = 0 /\ built' = w
      /\ slots' = [s \in Slots |-> Idle] /\ free' = AllFree
  BY DEF NewBalancer
<1>2. /\ inflight' \in [Nodes -> Nat] /\ slots' \in [Slots -> Slot]
      /\ free' \in [Slots -> Nat]
  BY <1>1 DEF Nothing, Idle, AllFree, Slot
<1>3. DriverTypes'
  BY <1>1, <1>2 DEF DriverTypes
<1>4. (WeightsReachBalancer)'
  BY <1>1 DEF WeightsReachBalancer
<1> QED
  BY <1>1, <1>3, <1>4, EmptyLoad

(* A key that moves no request leaves the load's invariants alone.         *)
LEMMA LoadStays ==
  ASSUME DInv, UNCHANGED <<strategy, load>>,
         \A i \in Nodes : ceil'[i] = ceil[i] /\ (i \notin bent' => i \notin bent),
         DriverTypes', BentRemembered', (WeightsReachBalancer)'
  PROVE  DInv'
<1>1. UNCHANGED <<strategy, noted, inflight, slots, free>>
  BY DEF load
<1>2. (SlotsConserved)' /\ (NotedTracksCounts)'
  BY <1>1 DEF DInv, SlotsConserved, NotedTracksCounts
<1>3. ASSUME NEW i \in Nodes PROVE (PendingOf(i))' = PendingOf(i)
  BY <1>1 DEF PendingOf
<1>4. (CountsHonest)'
  BY <1>1, <1>3 DEF DInv, CountsHonest
<1> QED
  BY <1>2, <1>4 DEF DInv

LEMMA RebuiltTypes ==
  ASSUME DriverTypes, WeightsReachBalancer, NEW i \in Nodes, NEW w \in Nat
  PROVE  /\ Rebuilt(weights, i, w) \in [Nodes -> Nat]
         /\ strategy \in Aliasing \cup Copying =>
              Rebuilt(weights, i, w) = [weights EXCEPT ![i] = w]
<1>1. /\ built \in [Nodes -> Nat] /\ weights \in [Nodes -> Nat]
      /\ [built EXCEPT ![i] = w] \in [Nodes -> Nat]
  BY DEF DriverTypes
<1>2. strategy \in Aliasing \cup Copying => built = weights
  BY DEF WeightsReachBalancer
<1>3. weights[i] = w => weights = [weights EXCEPT ![i] = w]
  BY <1>1
<1>4. strategy = "smoothwrr" => strategy \in Aliasing \cup Copying
  BY DEF Aliasing
<1> QED
  BY <1>1, <1>2, <1>3, <1>4 DEF Rebuilt

LEMMA DriverInitOK == ASSUME DriverInit PROVE DInv
<1>1. DriverTypes
  BY DriverConstants DEF DriverInit, DriverTypes, Nothing, Idle, AllFree, Slot
<1>2. BentRemembered
  <2>1. Range(<<>>) = {}
    BY DEF Range
  <2> QED
    BY <2>1 DEF DriverInit, BentRemembered, Nothing
<1>3. SlotsConserved /\ WeightsReachBalancer
  BY DEF DriverInit, SlotsConserved, WeightsReachBalancer, Idle, AllFree
<1>4. ASSUME NEW i \in Nodes PROVE Cardinality(PendingOf(i)) = 0
  <2>1. PendingOf(i) = {}
    BY DriverConstants DEF DriverInit, PendingOf, Idle
  <2> QED
    BY <2>1, FS_EmptySet
<1>5. CountsHonest
  BY <1>4 DEF DriverInit, CountsHonest, Nothing
<1>6. NotedTracksCounts
  BY DriverConstants, SumAllZero DEF DriverInit, NotedTracksCounts, Nothing
<1> QED
  BY <1>1, <1>2, <1>3, <1>5, <1>6 DEF DInv

LEMMA DriverNextOK == ASSUME DInv, [DriverNext]_driverVars PROVE DInv'
<1>1. /\ DriverTypes /\ BentRemembered /\ WeightsReachBalancer
  BY DEF DInv
<1>2. CASE Tick
  BY <1>2, TickKeeps
<1>3. ASSUME NEW name \in Strategies, SetStrategy(name) PROVE DInv'
  <2>1. /\ NewBalancer(name, weights)
        /\ bent' = {i \in bent : pin[i] > 0 \/ i \in Range(swinging)}
        /\ UNCHANGED <<eligible, weights, pin, ceil, flapping, swinging>>
    BY <1>3 DEF SetStrategy, scene, baseVars
  <2>2. BentRemembered'
    BY <1>1, <2>1 DEF BentRemembered, DriverTypes
  <2>3. weights \in [Nodes -> Nat]
    BY <1>1 DEF DriverTypes
  <2> QED
    BY <1>1, <2>1, <2>2, <2>3, NewBalancerKeeps DEF DriverTypes
<1>4. CASE ResetAll
  <2>1. /\ NewBalancer(strategy, Weights0) /\ weights' = Weights0
        /\ eligible' = Nodes /\ pin' = Nothing /\ ceil' = [i \in Nodes |-> NONE]
        /\ flapping' = NONE /\ swinging' = <<>> /\ bent' = {}
    BY <1>4 DEF ResetAll
  <2>2. BentRemembered'
    <3>1. Range(<<>>) = {}
      BY DEF Range
    <3> QED
      BY <2>1, <3>1 DEF BentRemembered, Nothing
  <2>3. pin' \in [Nodes -> Nat] /\ ceil' \in [Nodes -> Nat \cup {NONE}]
    BY <2>1 DEF Nothing
  <2> QED
    BY <2>1, <2>2, <2>3, NewBalancerKeeps, DriverConstants
<1>5. ASSUME NEW i \in Nodes, NEW on \in BOOLEAN, SetUp(i, on) PROVE DInv'
  <2>1. /\ UNCHANGED <<strategy, weights, built, load, pin, ceil, flapping, swinging, bent>>
        /\ eligible' \in SUBSET Nodes
    BY <1>1, <1>5 DEF SetUp, Flip, scene, DriverTypes
  <2>2. UNCHANGED <<inflight, slots, free>>
    BY <2>1 DEF load
  <2>3. DriverTypes'
    BY <1>1, <2>1, <2>2 DEF DriverTypes
  <2>4. BentRemembered' /\ (WeightsReachBalancer)'
    BY <1>1, <2>1 DEF BentRemembered, WeightsReachBalancer
  <2> QED
    BY <2>1, <2>3, <2>4, LoadStays
<1>6. ASSUME NEW i \in Nodes, OverloadSpike(i) PROVE DInv'
  <2>1. /\ UNCHANGED <<strategy, weights, built, load, ceil, flapping, swinging, eligible>>
        /\ pin' = [pin EXCEPT ![i] = Pin] /\ bent' = bent \cup {i}
    BY <1>6 DEF OverloadSpike, baseVars
  <2>2. UNCHANGED <<inflight, slots, free>>
    BY <2>1 DEF load
  <2>3. DriverTypes'
    BY <1>1, <2>1, <2>2, DriverConstants DEF DriverTypes
  <2>4. BentRemembered'
    <3>1. /\ \A j \in Nodes \ {i} : pin'[j] = pin[j]
          /\ pin'[i] = Pin /\ Pin > 0 /\ i \in bent'
      BY <1>1, <2>1, DriverConstants DEF DriverTypes
    <3>2. /\ \A j \in Nodes : j \notin bent' => j \notin bent /\ j # i
          /\ UNCHANGED <<ceil, swinging>>
      BY <2>1
    <3> QED
      BY <1>1, <3>1, <3>2 DEF BentRemembered
  <2>5. (WeightsReachBalancer)'
    BY <1>1, <2>1 DEF WeightsReachBalancer
  <2> QED
    BY <2>1, <2>3, <2>4, <2>5, LoadStays
<1>7. ASSUME NEW i \in Nodes, FlapStorm(i) PROVE DInv'
  <2>1. /\ UNCHANGED <<strategy, weights, built, load, pin, ceil, swinging, eligible, bent>>
        /\ flapping' = i
    BY <1>7 DEF FlapStorm, baseVars
  <2>2. UNCHANGED <<inflight, slots, free>>
    BY <2>1 DEF load
  <2>3. DriverTypes'
    BY <1>1, <2>1, <2>2 DEF DriverTypes
  <2>4. BentRemembered' /\ (WeightsReachBalancer)'
    BY <1>1, <2>1 DEF BentRemembered, WeightsReachBalancer
  <2> QED
    BY <2>1, <2>3, <2>4, LoadStays
<1>8. ASSUME NEW a \in Nodes, NEW b \in Nodes, ForcePingPong(a, b) PROVE DInv'
  <2>1. /\ UNCHANGED <<strategy, weights, built, load, pin, ceil, flapping, eligible>>
        /\ swinging' = <<a, b>> /\ bent' = bent \cup {a, b}
    BY <1>8 DEF ForcePingPong, baseVars
  <2>2. UNCHANGED <<inflight, slots, free>>
    BY <2>1 DEF load
  <2>3. DriverTypes'
    BY <1>1, <2>1, <2>2 DEF DriverTypes
  <2>4. Range(swinging') = {a, b}
    <3>1. DOMAIN <<a, b>> = {1, 2} /\ <<a, b>>[1] = a /\ <<a, b>>[2] = b
      OBVIOUS
    <3> QED
      BY <2>1, <3>1 DEF Range
  <2>5. BentRemembered'
    BY <1>1, <2>1, <2>4 DEF BentRemembered
  <2>6. (WeightsReachBalancer)'
    BY <1>1, <2>1 DEF WeightsReachBalancer
  <2> QED
    BY <2>1, <2>3, <2>5, <2>6, LoadStays
<1>9. ASSUME UNCHANGED <<strategy, load, pin, ceil, flapping, swinging, eligible, bent>>,
             weights' \in [Nodes -> Nat], built' \in [Nodes -> Nat],
             strategy \in Aliasing \cup Copying => built' = weights'
      PROVE  DInv'
  <2>1. UNCHANGED <<inflight, slots, free>>
    BY <1>9 DEF load
  <2>2. DriverTypes'
    BY <1>1, <1>9, <2>1 DEF DriverTypes
  <2>3. BentRemembered' /\ (WeightsReachBalancer)'
    BY <1>1, <1>9 DEF BentRemembered, WeightsReachBalancer
  <2> QED
    BY <1>9, <2>2, <2>3, LoadStays
<1>10. ASSUME NEW i \in Nodes, MakeStarve(i) PROVE DInv'
  <2>1. /\ UNCHANGED <<strategy, load, pin, ceil, flapping, swinging, eligible, bent>>
        /\ built' = Rebuilt(weights, i, 0) /\ weights' = [weights EXCEPT ![i] = 0]
    BY <1>10 DEF MakeStarve, baseVars, scene
  <2>2. weights' \in [Nodes -> Nat]
    BY <1>1, <2>1 DEF DriverTypes
  <2> QED
    BY <1>1, <1>9, <2>1, <2>2, RebuiltTypes
<1>11. CASE MakeUnfair
  <2>1. /\ UNCHANGED <<strategy, load, pin, ceil, flapping, swinging, eligible, bent>>
        /\ built' = [i \in Nodes |-> Rebuilt(weights, i, Ramp[i])[i]] /\ weights' = Ramp
    BY <1>11 DEF MakeUnfair, baseVars, scene
  <2>2. Ramp \in [Nodes -> Nat]
    BY DriverConstants
  <2>3. ASSUME NEW i \in Nodes
        PROVE  /\ Rebuilt(weights, i, Ramp[i])[i] \in Nat
               /\ strategy \in Aliasing \cup Copying =>
                    Rebuilt(weights, i, Ramp[i])[i] = Ramp[i]
    <3>1. /\ Rebuilt(weights, i, Ramp[i]) \in [Nodes -> Nat]
          /\ strategy \in Aliasing \cup Copying =>
               Rebuilt(weights, i, Ramp[i]) = [weights EXCEPT ![i] = Ramp[i]]
      BY <1>1, <2>2, RebuiltTypes
    <3>2. [weights EXCEPT ![i] = Ramp[i]][i] = Ramp[i]
      BY <1>1 DEF DriverTypes
    <3> QED
      BY <3>1, <3>2
  <2>4. built' \in [Nodes -> Nat]
    BY <2>1, <2>3
  <2>5. strategy \in Aliasing \cup Copying => built' = Ramp
    BY <2>1, <2>2, <2>3
  <2> QED
    BY <1>9, <2>1, <2>2, <2>4, <2>5
<1>12. CASE UNCHANGED driverVars
  <2>1. UNCHANGED <<strategy, weights, built, load, pin, ceil, flapping, swinging,
                    eligible, bent>>
    BY <1>12 DEF driverVars, scene, baseVars
  <2> QED
    BY <1>1, <1>9, <2>1 DEF DriverTypes, WeightsReachBalancer
<1> QED
  BY <1>2, <1>3, <1>4, <1>5, <1>6, <1>7, <1>8, <1>10, <1>11, <1>12 DEF DriverNext

LEMMA DriverAlways == DriverSpec => []DInv
<1>1. DriverInit => DInv
  BY DriverInitOK
<1>2. DInv /\ [DriverNext]_driverVars => DInv'
  BY DriverNextOK
<1> QED
  BY <1>1, <1>2, PTL DEF DriverSpec

(* The total BoundedLoad takes its cap from is the sum of the counts after *)
(* every tick and key, for any number of workers and slots: what a settle, *)
(* a dispatch and a clamp tell it is what they change (driver.mjs tick).   *)
THEOREM NotedTracksAlways == DriverSpec => []NotedTracksCounts
<1>1. DInv => NotedTracksCounts
  BY DEF DInv
<1> QED
  BY <1>1, DriverAlways, PTL

(* A slot is pending or on the free stack, and there once, through         *)
(* switches and resets under load (driver.mjs tick, _resetSim).            *)
THEOREM SlotsConservedAlways == DriverSpec => []SlotsConserved
<1>1. DInv => SlotsConserved
  BY DEF DInv
<1> QED
  BY <1>1, DriverAlways, PTL

(* The count of a worker that no fault has bent is what is pending there,  *)
(* and of one without ceiling no less (driver.mjs tick, the injectors).    *)
THEOREM CountsHonestAlways == DriverSpec => []CountsHonest
<1>1. DInv => CountsHonest
  BY DEF DInv
<1> QED
  BY <1>1, DriverAlways, PTL

(* The strategies that build on weights pick by those in the driver's      *)
(* array, shared or not (driver.mjs makeStarve, makeUnfair, setStrategy).  *)
THEOREM WeightsReachAlways == DriverSpec => []WeightsReachBalancer
<1>1. DInv => WeightsReachBalancer
  BY DEF DInv
<1> QED
  BY <1>1, DriverAlways, PTL
===============================================================================
