----------------------------- MODULE WeightedRandom ----------------------------
(***************************************************************************)
(* WeightedRandomBalancer of Pick.js: an alias table built from the        *)
(* caller's weights, rejection of the draws that are down, and a fallback  *)
(* scan over the cached sum of the eligible weights.  A pick leaves no     *)
(* trace but the generator's, so it is an operator, the set of what it may *)
(* return.  Probabilities are exact, in units of 1/total.                  *)
(***************************************************************************)
EXTENDS Balancer, Functions, SequencesExt

CONSTANTS
  Weights,      \* the weights an endpoint may be given
  MaxEdited     \* bounds the indices edited in place at a time

ASSUME WeightAssumption == Weights \subseteq Nat /\ MaxEdited \in Nat

VARIABLES
  weights,      \* the caller's array, which the caller may also edit in place
  built,        \* _built: the weights the table was built on
  prob, alias,  \* _prob and _alias: a column's own chance, and its alternate
  psum,         \* _psum: the sum of the built weights
  ew,           \* _ew: the sum of the built weights of the endpoints that are up
  edited        \* history: the indices edited in place and not set or built since

tableVars == <<built, prob, alias, psum, ew>>
weightedVars == <<baseVars, weights, tableVars, edited>>

SumOver(w, S) == SumFunctionOnSet(w, S)

------------------------------------------------------------------------------
(* _build *)

(* Each column holds its weight times N and is to hold the total.  Those   *)
(* short of it are small, the rest large; rounding puts the columns in low *)
(* that hold just the total among the small.                               *)
Bug_Vose(w, low) ==
  LET total == SumFunction(w)
      largest == CHOOSE j \in Nodes : \A k \in Nodes : w[j] >= w[k]
      full(i) == w[i] * N >= total
  IN  [prob |-> [i \in Nodes |-> IF full(i) THEN total ELSE w[i] * N],
       alias |-> [i \in Nodes |-> IF full(i) THEN i ELSE largest]]
Vose(w, low) ==
  LET total == SumFunction(w)
      Small(v, i) == v < total \/ (v = total /\ i \in low)
      (* The columns on either stack, the first k of them. *)
      sides[k \in 0 .. N] ==
        IF k = 0 THEN [small |-> <<>>, large |-> <<>>]
        ELSE IF Small(w[k-1] * N, k-1) THEN [sides[k-1] EXCEPT !.small = Append(@, k-1)]
        ELSE [sides[k-1] EXCEPT !.large = Append(@, k-1)]
      start ==
        [scaled |-> [i \in Nodes |-> w[i] * N],
         small |-> sides[N].small,
         large |-> sides[N].large,
         prob |-> [i \in Nodes |-> total],   \* what the columns left over get
         alias |-> [i \in Nodes |-> i]]
      (* The last small column is filled up from the last large one.       *)
      Pair(v) ==
        LET s == Last(v.small)
            l == Last(v.large)
            rem == v.scaled[l] + v.scaled[s] - total
        IN  [scaled |-> [v.scaled EXCEPT ![l] = rem],
             small |-> Front(v.small) \o IF Small(rem, l) THEN <<l>> ELSE <<>>,
             large |-> Front(v.large) \o IF Small(rem, l) THEN <<>> ELSE <<l>>,
             prob |-> [v.prob EXCEPT ![s] = v.scaled[s]],
             alias |-> [v.alias EXCEPT ![s] = l]]
      after[t \in 0 .. N] ==
        IF t = 0 THEN start
        ELSE LET v == after[t-1]
             IN  IF v.small = <<>> \/ v.large = <<>> THEN v ELSE Pair(v)
      done == after[N]
  IN  [prob |-> done.prob, alias |-> done.alias]

(* The tables a build may leave, whichever way rounding went; with no      *)
(* weight at all no column holds anything.                                 *)
Tables(w) ==
  IF SumFunction(w) = 0
  THEN {[prob |-> [i \in Nodes |-> 0], alias |-> [i \in Nodes |-> i]]}
  ELSE {Vose(w, low) : low \in SUBSET Nodes}

Build(w) ==
  /\ built' = w
  /\ psum' = SumFunction(w)
  /\ ew' = SumOver(w, eligible)
  /\ \E table \in Tables(w) : prob' = table.prob /\ alias' = table.alias
  /\ edited' = {}

------------------------------------------------------------------------------
(* The steps *)

WeightedInit ==
  /\ BaseInit
  /\ weights \in [Nodes -> Weights]
  /\ built = weights
  /\ psum = SumFunction(weights)
  /\ ew = SumOver(weights, eligible)
  /\ \E table \in Tables(weights) : prob = table.prob /\ alias = table.alias
  /\ edited = {}

(* A flip that changes something moves the built weight in or out of the   *)
(* cached sum.                                                             *)
Bug_SetEligible(i, up) ==
  /\ Flip(i, up)
  /\ ew' = IF live' = live THEN ew ELSE IF live' > live THEN ew + weights[i] ELSE ew - weights[i]
  /\ UNCHANGED <<weights, built, prob, alias, psum, edited>>
SetEligible(i, up) ==
  /\ Flip(i, up)
  /\ ew' = IF live' = live THEN ew ELSE IF live' > live THEN ew + built[i] ELSE ew - built[i]
  /\ UNCHANGED <<weights, built, prob, alias, psum, edited>>

(* The build is skipped if the table was built on this very weight.        *)
Bug_SetWeight(i, w) ==
  /\ weights' = [weights EXCEPT ![i] = w]
  /\ IF w = weights[i] THEN UNCHANGED tableVars /\ edited' = edited \ {i}
     ELSE Build(weights')
  /\ UNCHANGED baseVars
SetWeight(i, w) ==
  /\ weights' = [weights EXCEPT ![i] = w]
  /\ IF w = built[i] THEN UNCHANGED tableVars /\ edited' = edited \ {i}
     ELSE Build(weights')
  /\ UNCHANGED baseVars

Bug_SetWeights(w) ==
  /\ weights' = w
  /\ IF w = weights THEN UNCHANGED tableVars /\ edited' = {} ELSE Build(w)
  /\ UNCHANGED baseVars
SetWeights(w) ==
  /\ weights' = w
  /\ IF w = built THEN UNCHANGED tableVars /\ edited' = {} ELSE Build(w)
  /\ UNCHANGED baseVars

Rebuild == Build(weights) /\ UNCHANGED <<baseVars, weights>>

(* The caller writes to its array, telling no one.                         *)
EditInPlace(i, w) ==
  /\ w # weights[i]
  /\ weights' = [weights EXCEPT ![i] = w]
  /\ edited' = edited \cup {i}
  /\ Cardinality(edited') <= MaxEdited
  /\ UNCHANGED <<baseVars, built, prob, alias, psum, ew>>

WeightedNext ==
  \/ \E i \in Nodes, up \in BOOLEAN : SetEligible(i, up)
  \/ \E i \in Nodes, w \in Weights : SetWeight(i, w) \/ EditInPlace(i, w)
  \/ \E w \in [Nodes -> Weights] : SetWeights(w)
  \/ Rebuild

WeightedSpec == WeightedInit /\ [][WeightedNext]_weightedVars

------------------------------------------------------------------------------
(* pick() *)

(* What one draw may give: a column, or its alternate.                     *)
Candidates ==
  {c \in Nodes : prob[c] > 0} \cup {alias[c] : c \in {d \in Nodes : prob[d] < psum}}

(* The fallback scan, from u uniform in 0 .. ew-1: the endpoint at u along *)
(* the weights of those that are up.                                       *)
Scanned == {i \in eligible : built[i] > 0}
SparsePick(u) ==
  LET upTo(i) == SumOver(built, {j \in Scanned : j <= i})
      hit == {i \in Scanned : u < upTo(i)}
  IN  CHOOSE i \in Scanned :
        IF hit = {} THEN \A j \in Scanned : i >= j
        ELSE i \in hit /\ \A j \in hit : i <= j

Fallback ==
  IF ew = 0 \/ Scanned = {} THEN {NONE} ELSE {SparsePick(u) : u \in 0 .. ew-1}

(* A draw that is up; after 64 that are not, the fallback.                 *)
Bug_Pick ==
  IF live = 0 \/ psum = 0 THEN {NONE}
  ELSE (Candidates \cap eligible)
         \cup (IF Candidates \subseteq eligible THEN {} ELSE {NONE})
Pick ==
  IF live = 0 \/ psum = 0 THEN {NONE}
  ELSE (Candidates \cap eligible)
         \cup (IF Candidates \subseteq eligible THEN {} ELSE Fallback)

------------------------------------------------------------------------------
(* Properties *)

(* Every variable has its type. *)
TypeOK ==
  /\ BaseTypeOK
  /\ weights \in [Nodes -> Weights]
  /\ built \in [Nodes -> Weights]
  /\ prob \in [Nodes -> 0 .. psum]
  /\ alias \in [Nodes -> Nodes]
  /\ psum \in Nat
  /\ ew \in 0 .. psum
  /\ edited \in SUBSET Nodes

(* Over the columns of the alias table each endpoint's own chances and its *)
(* chances as an alternate add up to its share of the built weights,       *)
(* whatever the order the columns were paired in and whichever side        *)
(* rounding put the full ones (_build).                                    *)
TableExact ==
  psum > 0 =>
    \A i \in Nodes :
      LET others == [c \in Nodes |-> IF alias[c] = i THEN psum - prob[c] ELSE 0]
      IN  prob[i] + SumFunction(others) = built[i] * N

(* The fallback gives every endpoint that is up exactly its built weight   *)
(* of the cached sum (_sparsePick; setEligible's _ew).                     *)
FallbackProportional ==
  Scanned # {} =>
    \A i \in Nodes :
      Cardinality({u \in 0 .. ew-1 : SparsePick(u) = i})
        = IF i \in eligible THEN built[i] ELSE 0

(* A pick never returns an endpoint that is down or has no weight in the   *)
(* table, and returns none exactly when there is no other (pick).          *)
FailsClosed ==
  /\ Pick \ {NONE} \subseteq Scanned
  /\ (NONE \in Pick) = (Scanned = {})

(* The two ways of picking agree: through any flips, reweights and edits   *)
(* in place the table and the fallback both give the exact shares of the   *)
(* built weights, so a long run of rejections does not change them, and    *)
(* neither picks what it must not (WeightedRandomBalancer).                *)
SharesExact == TypeOK /\ TableExact /\ FallbackProportional /\ FailsClosed

(* What assertConsistent accepts. *)
AssertConsistent == LiveExact /\ weights = built /\ ew = SumOver(built, eligible)

(* A weight set through the balancer is what the table is built on from    *)
(* then on, even where the caller had written it to the shared array       *)
(* first: only an index edited in place, and not set since, can be stale,  *)
(* and a balancer whose weights were not edited so passes its own check    *)
(* (WeightedRandomBalancer.setWeight, setWeights and their skips).         *)
ReweightTakesEffect ==
  /\ \A i \in Nodes : weights[i] # built[i] => i \in edited
  /\ edited = {} => AssertConsistent
===============================================================================
