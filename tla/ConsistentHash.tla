----------------------------- MODULE ConsistentHash ----------------------------
(***************************************************************************)
(* ConsistentHashBalancer of Pick.js: a Maglev lookup table from slots to  *)
(* endpoints, built from the weights alone, and the walk along it that     *)
(* finds an endpoint for a key.  A pick changes nothing, so it is an       *)
(* operator, PlainRoute; a key counts for its slot only.  BoundedLoad      *)
(* extends this module as its class extends this one, and has the          *)
(* next-state relation of both.                                            *)
(***************************************************************************)
EXTENDS Balancer, Functions

CONSTANTS
  M,            \* the table size, a prime
  ProbeLimit,   \* CH_PROBE_LIMIT
  Weights,      \* the weights setWeight may set
  Batches,      \* what setWeights may set
  Mixes         \* what hashing the indices may give: each endpoint's offset and skip

Slots == 0 .. M-1
Mix == [offset : Slots, skip : 1 .. M-1]

IsPrime(n) == n >= 2 /\ \A d \in 2 .. n-1 : n % d # 0

ASSUME TableAssumption ==
  /\ M \in Nat /\ M >= N
  /\ IsPrime(M)
  /\ ProbeLimit \in Nat
  /\ Weights \subseteq Nat
  /\ Batches \subseteq [Nodes -> Weights]
  /\ Mixes \subseteq [Nodes -> Mix]

VARIABLES
  mix,          \* the hash of each index, fixed by the seed
  weight,       \* _weights, the balancer's own copy
  lookup,       \* _lookup: the endpoint of each slot
  wmask         \* _wmask # 0: is any weight positive?

tableVars == <<mix, weight, lookup, wmask>>

------------------------------------------------------------------------------
(* _build *)

(* The slots an endpoint is due: its weight's share, rounded down, and one *)
(* of the slots that leaves over, dealt in index order.                    *)
Bug_Quota(w) ==
  LET total == SumFunction(w)
      floor == [b \in Nodes |-> (w[b] * M) \div total]
      left == M - SumFunction(floor)
  IN  [b \in Nodes |-> floor[b] + IF b < left THEN 1 ELSE 0]
Quota(w) ==
  LET total == SumFunction(w)
      floor == [b \in Nodes |-> (w[b] * M) \div total]
      left == M - SumFunction(floor)
      before(b) == Cardinality({c \in Nodes : c < b /\ w[c] > 0})
  IN  [b \in Nodes |-> floor[b] + IF w[b] > 0 /\ before(b) < left THEN 1 ELSE 0]

Owned(table, b) == {s \in Slots : table[s] = b}

(* The endpoint's next free slot along its permutation of the table. *)
Free(table, b) ==
  LET slot(j) == (mix[b].offset + j * mix[b].skip) % M
      first == CHOOSE j \in 0 .. M-1 :
                 table[slot(j)] = NONE /\ \A k \in 0 .. j-1 : table[slot(k)] # NONE
  IN  slot(first)

(* One endpoint's turn: it takes a slot unless it has its quota. *)
Take(table, b, quota) ==
  IF Cardinality(Owned(table, b)) >= quota[b] THEN table
  ELSE [table EXCEPT ![Free(table, b)] = b]

(* The endpoints take turns until the table is full; a slot left empty     *)
(* would go to endpoint 0.                                                 *)
Table(w) ==
  LET quota == Quota(w)
      after[t \in 0 .. M * N] ==
        IF t = 0 THEN [s \in Slots |-> NONE] ELSE Take(after[t-1], (t-1) % N, quota)
      filled == after[M * N]
  IN  [s \in Slots |-> IF filled[s] = NONE THEN 0 ELSE filled[s]]

Build(w) ==
  /\ wmask' = (\E b \in Nodes : w[b] > 0)
  /\ lookup' = IF wmask' THEN Table(w) ELSE [s \in Slots |-> 0]

------------------------------------------------------------------------------
(* The steps *)

TableInit ==
  /\ BaseInit
  /\ mix \in Mixes
  /\ weight \in [Nodes -> Weights]
  /\ wmask = (\E b \in Nodes : weight[b] > 0)
  /\ lookup = IF wmask THEN Table(weight) ELSE [s \in Slots |-> 0]

(* A flap never rebuilds. *)
SetEligible(i, up) == Flip(i, up) /\ UNCHANGED tableVars

SetWeight(i, w) ==
  /\ w # weight[i]
  /\ weight' = [weight EXCEPT ![i] = w]
  /\ Build(weight')
  /\ UNCHANGED <<baseVars, mix>>

(* The batch form: one build, and none for weights that are all the same. *)
Bug_SetWeights(w) ==
  /\ weight' = w
  /\ IF w[0] = weight[0] THEN UNCHANGED <<lookup, wmask>> ELSE Build(w)
  /\ UNCHANGED <<baseVars, mix>>
SetWeights(w) ==
  /\ w # weight
  /\ weight' = w
  /\ Build(w)
  /\ UNCHANGED <<baseVars, mix>>

Rebuild == Build(weight) /\ UNCHANGED <<baseVars, mix, weight>>

Reconfigure ==
  \/ \E i \in Nodes, up \in BOOLEAN : SetEligible(i, up)
  \/ \E i \in Nodes, w \in Weights : SetWeight(i, w)
  \/ \E w \in Batches : SetWeights(w)
  \/ Rebuild

------------------------------------------------------------------------------
(* pick(key) *)

(* The slots at the distances from .. to after a slot whose endpoint is up. *)
Up(slot, from, to) == {d \in from .. to : lookup[(slot + d) % M] \in eligible}

NearestUp(slot, from, to) ==
  LET d == CHOOSE d \in Up(slot, from, to) : \A e \in Up(slot, from, to) : d <= e
  IN  lookup[(slot + d) % M]

(* The sweep of the whole table, past the last slot of the probe. *)
Bug_Sweep(slot) ==
  LET nth == CHOOSE i \in eligible : Cardinality({j \in eligible : j < i}) = slot % live
  IN  IF Up(slot, ProbeLimit + 1, ProbeLimit + M) = {} THEN NONE ELSE nth
Sweep(slot) ==
  IF Up(slot, ProbeLimit + 1, ProbeLimit + M) = {} THEN NONE
  ELSE NearestUp(slot, ProbeLimit + 1, ProbeLimit + M)

(* The key's home if it is up, else the first in the probe window that is, *)
(* else the first in the sweep.                                            *)
Bug_PlainRoute(slot) ==
  IF live = 0 \/ ~wmask THEN NONE
  ELSE IF Up(slot, 0, ProbeLimit) # {} THEN NearestUp(slot, 0, ProbeLimit)
  ELSE NONE
PlainRoute(slot) ==
  IF live = 0 \/ ~wmask THEN NONE
  ELSE IF Up(slot, 0, ProbeLimit) # {} THEN NearestUp(slot, 0, ProbeLimit)
  ELSE Sweep(slot)

------------------------------------------------------------------------------
(* Properties *)

(* Every variable has its type. *)
TableTypeOK ==
  /\ BaseTypeOK
  /\ mix \in Mixes
  /\ weight \in [Nodes -> Weights]
  /\ lookup \in [Slots -> Nodes]
  /\ wmask \in BOOLEAN

MaskExact == wmask = (SumFunction(weight) > 0)

(* The table is well formed and never stale: after any mix of reweights,   *)
(* skipped rebuilds and flaps each endpoint owns its weight's share of it  *)
(* to within one slot, and a removed endpoint owns none                    *)
(* (ConsistentHashBalancer._build; assertConsistent checks the mask only). *)
SharesExact ==
  LET total == SumFunction(weight)
      owned == [b \in Nodes |-> Cardinality(Owned(lookup, b))]
  IN  /\ TableTypeOK
      /\ MaskExact
      /\ wmask => \A b \in Nodes :
           /\ weight[b] = 0 => owned[b] = 0
           /\ owned[b] * total <= weight[b] * M + total
           /\ weight[b] * M <= owned[b] * total + total

(* What a pick must find: an endpoint that is up and has weight whenever   *)
(* one that is up owns a slot, however far that is, and none otherwise.    *)
Finds(i) ==
  IF wmask /\ \E t \in Slots : lookup[t] \in eligible
  THEN i \in eligible /\ weight[i] > 0
  ELSE i = NONE

(* Minimal disruption: a health flip of one endpoint moves only the keys   *)
(* it had or gets, and no other key changes its endpoint.                  *)
MinimalDisruption ==
  [][\A i \in Nodes, up \in BOOLEAN : SetEligible(i, up) =>
       \A s \in Slots : PlainRoute(s)' # PlainRoute(s) => i \in {PlainRoute(s), PlainRoute(s)'}]_<<baseVars, tableVars>>
===============================================================================
