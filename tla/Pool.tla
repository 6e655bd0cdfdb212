--------------------------------- MODULE Pool ---------------------------------
(***************************************************************************)
(* Pool.run of Pool.js: the asynchronous request wrapper around a          *)
(* balancer.  Several calls run at once and share the balancer, its        *)
(* eligibility view and the in-flight view.                                *)
(*                                                                         *)
(* JavaScript runs one call at a time between two awaits, and run has one  *)
(* await: the caller's fn.  So a step of this module is everything a call  *)
(* does from one await to the next: from the call of run to its first      *)
(* await (Call), and from the settling of fn to the next await or to the   *)
(* end of the run, the finally block included (SettleOk, SettleErr).       *)
(***************************************************************************)
EXTENDS Integers, Sequences, FiniteSets, Functions

CONSTANTS
  N,          \* the balancer's capacity
  Runs,       \* the slots in which calls of run execute
  MaxTries,   \* bound on opts.tries
  Weights,    \* the values weightOf may return (1 everywhere when it is absent)
  HashRange,  \* the failover hash takes the values 0 .. HashRange-1 (2^32 in the code)
  Faults,     \* which of the caller's hooks may throw, see Fault
  MaxLeak     \* bound on the number of note(-1) that throw

Nodes == 0 .. N-1
NONE == -1                       \* PICK_NONE
Hashes == 0 .. HashRange-1

(* "clock": the reading before a dispatch is not finite.  "hook": pick,    *)
(* weightOf or isEligible throws.  "note": note(+1) throws.  "release":    *)
(* note(-1) throws.  "feedback": the clock or recordRtt throws on settle.  *)
Fault == {"clock", "hook", "note", "release", "feedback"}

ASSUME PoolAssumption ==
  /\ N \in Nat \ {0}
  /\ IsFiniteSet(Runs)
  /\ MaxTries \in Nat \ {0}
  /\ Weights \subseteq Nat
  /\ HashRange \in Nat \ {0}
  /\ Faults \subseteq Fault
  /\ MaxLeak \in Nat

VARIABLES
  eligible,   \* the set of endpoints whose eligible[] byte is 1
  weight,     \* weight[i]: what weightOf(i) returns
  inflight,   \* the shared in-flight view
  total,      \* the occupancy the balancer is told by note(), BoundedLoad's _total
  held,       \* held[r]: the endpoints run r has dispatched to, in order
  tries,      \* tries[r]: the attempts run r may make
  aborted,    \* aborted[r]: the run's signal has aborted
  pc,         \* pc[r]: "idle", or "await" while fn is outstanding
  outcome,    \* outcome[r]: how the slot's last run ended, "new" while one is on
  leaked      \* history: how many note(-1) have thrown

vars == <<eligible, weight, inflight, total, held, tries, aborted, pc, outcome, leaked>>
runVars == <<inflight, total, held, tries, aborted, pc, outcome, leaked>>

Outcomes == {"new", "ok", "none", "exhausted", "spent", "aborted", "clock", "hook",
             "feedback", "fnError"}

Init ==
  /\ eligible \in SUBSET Nodes
  /\ weight \in [Nodes -> Weights]
  /\ inflight = [i \in Nodes |-> 0]
  /\ total = 0
  /\ held = [r \in Runs |-> <<>>]
  /\ tries = [r \in Runs |-> 1]
  /\ aborted = [r \in Runs |-> FALSE]
  /\ pc = [r \in Runs |-> "idle"]
  /\ outcome = [r \in Runs |-> "new"]
  /\ leaked = 0

------------------------------------------------------------------------------
(* Choosing an endpoint *)

(* What a strategy's pick may return: an eligible endpoint of positive     *)
(* weight.  Which one is the strategy's business.                          *)
Pickable == {i \in eligible : weight[i] > 0}

(* The endpoints the failover fallback considers. *)
Bug_CandidatesWeightless(tried) == {i \in eligible : i \notin tried}
Candidates(tried) == {i \in eligible : i \notin tried /\ weight[i] > 0}

WeightOf(S) == SumFunctionOnSet(weight, S)

(* Does the running sum up to i exceed the target t = h / HashRange * W? *)
Bug_Exceeds(C, h, i) == h * WeightOf(C) <= HashRange * WeightOf({j \in C : j <= i})
Exceeds(C, h, i) == h * WeightOf(C) < HashRange * WeightOf({j \in C : j <= i})

(* The candidate at which the running sum first exceeds the target. *)
Crosses(C, h, i) == Exceeds(C, h, i) /\ \A j \in C : j < i => ~Exceeds(C, h, j)

(* One weighted choice among the candidates, by the hash h.  The last      *)
(* candidate backs up a sum that never exceeds the target.                 *)
ChooseUntried(tried, h) ==
  LET C == Candidates(tried)
  IN  IF C = {} THEN NONE
      ELSE IF \E i \in C : Crosses(C, h, i) THEN CHOOSE i \in C : Crosses(C, h, i)
      ELSE CHOOSE i \in C : \A j \in C : j <= i

(* What one attempt may select, given the endpoints its run has tried.     *)
(* The first attempt takes the pick.  A later one picks again while the    *)
(* result repeats a tried endpoint, up to REPICK_LIMIT times, then makes   *)
(* the weighted choice; so does it when the pick finds nothing.            *)
Bug_SelectionsNoFallback(tried) ==
  IF tried = {} THEN (IF Pickable = {} THEN {NONE} ELSE Pickable)
  ELSE (Pickable \ tried) \cup (IF Pickable \cap tried # {} \/ Pickable = {} THEN {NONE} ELSE {})
Selections(tried) ==
  IF tried = {} THEN (IF Pickable = {} THEN {NONE} ELSE Pickable)
  ELSE (Pickable \ tried)
       \cup (IF Pickable \cap tried # {} \/ Pickable = {}
             THEN {ChooseUntried(tried, h) : h \in Hashes} ELSE {})

------------------------------------------------------------------------------
(* The end of a run: the finally block *)

Monus(a, b) == IF a > b THEN a - b ELSE 0

(* Every count the run raised goes down again, each clamped at zero. *)
Bug_Released(inf, h) ==
  [i \in Nodes |-> Monus(inf[i], Cardinality({k \in DOMAIN h : k > 1 /\ h[k] = i}))]
Released(inf, h) ==
  [i \in Nodes |-> Monus(inf[i], Cardinality({k \in DOMAIN h : h[k] = i}))]

(* note(-1) for each of the n dispatches whose note(+1) landed; one that   *)
(* throws is swallowed and leaves the balancer's total too high.           *)
Unnote(tot, n) ==
  \E bad \in (IF "release" \in Faults THEN 0 .. n ELSE {0}) :
    /\ leaked + bad <= MaxLeak
    /\ leaked' = leaked + bad
    /\ total' = Monus(tot, n - bad)

(* Run r ends as why, having raised inf by its dispatches h, of which n    *)
(* were noted.                                                             *)
Finish(r, why, inf, h, tot, n) ==
  /\ inflight' = Released(inf, h)
  /\ Unnote(tot, n)
  /\ held' = [held EXCEPT ![r] = <<>>]
  /\ tries' = [tries EXCEPT ![r] = 1]
  /\ aborted' = [aborted EXCEPT ![r] = FALSE]
  /\ pc' = [pc EXCEPT ![r] = "idle"]
  /\ outcome' = [outcome EXCEPT ![r] = why]

(* A run that stops between two dispatches. *)
Stop(r, why) == Finish(r, why, inflight, held[r], total, Len(held[r]))

------------------------------------------------------------------------------
(* One attempt, from the top of the loop to the await *)

(* Raise the count, note it, and call fn. *)
Bug_DispatchForgets(r, i, n, sig) ==
  /\ inflight' = [Released(inflight, held[r]) EXCEPT ![i] = @ + 1]
  /\ total' = IF held[r] = <<>> THEN total + 1 ELSE total
  /\ held' = [held EXCEPT ![r] = <<i>>]
  /\ tries' = [tries EXCEPT ![r] = n]
  /\ aborted' = [aborted EXCEPT ![r] = sig]
  /\ pc' = [pc EXCEPT ![r] = "await"]
  /\ outcome' = [outcome EXCEPT ![r] = "new"]
  /\ UNCHANGED leaked
Dispatch(r, i, n, sig) ==
  /\ inflight' = [inflight EXCEPT ![i] = @ + 1]
  /\ total' = total + 1
  /\ held' = [held EXCEPT ![r] = Append(@, i)]
  /\ tries' = [tries EXCEPT ![r] = n]
  /\ aborted' = [aborted EXCEPT ![r] = sig]
  /\ pc' = [pc EXCEPT ![r] = "await"]
  /\ outcome' = [outcome EXCEPT ![r] = "new"]
  /\ UNCHANGED leaked

(* note(+1) throws after the count went up: the run ends, and the finally  *)
(* block sends no note(-1) for this dispatch.                              *)
Bug_DispatchThrows(r, i) ==
  /\ "note" \in Faults
  /\ Finish(r, "hook", [inflight EXCEPT ![i] = @ + 1], Append(held[r], i), total,
            Len(held[r]) + 1)
DispatchThrows(r, i) ==
  /\ "note" \in Faults
  /\ Finish(r, "hook", [inflight EXCEPT ![i] = @ + 1], Append(held[r], i), total,
            Len(held[r]))

(* The body of the loop, in a run of n attempts, with the signal's state   *)
(* sig at its top.                                                         *)
Bug_Attempt(r, n, sig) ==
  \/ \E i \in Selections(Range(held[r])) \ {NONE} :
       Dispatch(r, i, n, sig) \/ DispatchThrows(r, i)
  \/ /\ NONE \in Selections(Range(held[r]))
     /\ Stop(r, IF held[r] = <<>> THEN "none" ELSE "spent")
Attempt(r, n, sig) ==
  \/ sig /\ Stop(r, "aborted")
  \/ ~sig /\ "clock" \in Faults /\ Stop(r, "clock")
  \/ ~sig /\ "hook" \in Faults /\ Stop(r, "hook")
  \/ /\ ~sig
     /\ \E i \in Selections(Range(held[r])) \ {NONE} :
          Dispatch(r, i, n, sig) \/ DispatchThrows(r, i)
  \/ /\ ~sig
     /\ NONE \in Selections(Range(held[r]))
     /\ Stop(r, IF held[r] = <<>> THEN "none" ELSE "spent")

------------------------------------------------------------------------------
(* The steps of a call *)

(* run(fn, opts) is called, with a signal that may have aborted already. *)
Call(r) ==
  /\ pc[r] = "idle"
  /\ \E n \in 1 .. MaxTries, sig \in BOOLEAN : Attempt(r, n, sig)
  /\ UNCHANGED <<eligible, weight>>

(* fn resolves: feed the latency back, release, return. *)
SettleOk(r) ==
  /\ pc[r] = "await"
  /\ \/ Stop(r, "ok")
     \/ "feedback" \in Faults /\ Stop(r, "feedback")
  /\ UNCHANGED <<eligible, weight>>

(* fn throws: an abort ends the run; otherwise the penalty is fed back and *)
(* the next attempt begins, if one is left.                                *)
SettleErr(r) ==
  /\ pc[r] = "await"
  /\ \/ aborted[r] /\ Stop(r, "aborted")
     \/ ~aborted[r] /\ "feedback" \in Faults /\ Stop(r, "fnError")
     \/ ~aborted[r] /\ Len(held[r]) >= tries[r] /\ Stop(r, "exhausted")
     \/ ~aborted[r] /\ Len(held[r]) < tries[r] /\ Attempt(r, tries[r], FALSE)
  /\ UNCHANGED <<eligible, weight>>

------------------------------------------------------------------------------
(* The surroundings: health probes, operators, callers *)

SetEligible(i, up) ==
  /\ eligible' = IF up THEN eligible \cup {i} ELSE eligible \ {i}
  /\ UNCHANGED <<weight, runVars>>

SetWeight(i, w) ==
  /\ weight' = [weight EXCEPT ![i] = w]
  /\ UNCHANGED <<eligible, runVars>>

Abort(r) ==
  /\ pc[r] = "await"
  /\ aborted' = [aborted EXCEPT ![r] = TRUE]
  /\ UNCHANGED <<eligible, weight, inflight, total, held, tries, pc, outcome, leaked>>

Settle(r) == SettleOk(r) \/ SettleErr(r)

Next ==
  \/ \E r \in Runs : Call(r) \/ Settle(r) \/ Abort(r)
  \/ \E i \in Nodes, up \in BOOLEAN : SetEligible(i, up)
  \/ \E i \in Nodes, w \in Weights : SetWeight(i, w)

Spec == Init /\ [][Next]_vars

(* The caller's fn settles: the one thing Pool.run waits for. *)
FnSettles == \A r \in Runs : WF_vars(Settle(r))
FairSpec == Spec /\ FnSettles

------------------------------------------------------------------------------
(* Properties *)

(* Every variable has its type; a run that waits has dispatched at least   *)
(* once and at most as often as its caller allowed (Pool.js run, the loop  *)
(* over tries), and an idle slot holds nothing.                            *)
TypeOK ==
  /\ eligible \in SUBSET Nodes
  /\ weight \in [Nodes -> Weights]
  /\ inflight \in [Nodes -> Nat]
  /\ total \in Nat
  /\ held \in [Runs -> Seq(Nodes)]
  /\ tries \in [Runs -> 1 .. MaxTries]
  /\ aborted \in [Runs -> BOOLEAN]
  /\ pc \in [Runs -> {"idle", "await"}]
  /\ outcome \in [Runs -> Outcomes]
  /\ leaked \in Nat
  /\ \A r \in Runs : Len(held[r]) \in IF pc[r] = "idle" THEN {0} ELSE 1 .. tries[r]

(* The endpoints run r holds, and the runs that hold endpoint i. *)
Holding(r) == Range(held[r])
Holders(i) == {r \in Runs : i \in Holding(r)}

(* Net zero (Pool.js run, finally): between any two steps an endpoint's    *)
(* in-flight count is exactly the number of runs that hold it, however     *)
(* runs interleave, fail over, abort or fail in a hook.                    *)
NetZero == \A i \in Nodes : inflight[i] = Cardinality(Holders(i))

(* Distinct failover (M2): a run never dispatches twice to an endpoint. *)
DistinctFailover ==
  \A r \in Runs : \A j, k \in DOMAIN held[r] : held[r][j] = held[r][k] => j = k

(* The balancer's noted total, which BoundedLoad's cap is computed from,   *)
(* is the sum of the in-flight counts, plus the note(-1) that threw: no    *)
(* note is ever sent unpaired (BoundedLoad.assertConsistent).              *)
NotedLockstep == total = SumFunction(inflight) + leaked

(* A dispatch acts on the state of the step that makes it, never on what   *)
(* was read before the last await: the run's signal has not aborted, and   *)
(* the endpoint is up and has weight, the failover fallback no exception   *)
(* (Pool.js run, the checks at the top of the loop; _chooseUntried).       *)
DispatchesOnFreshState ==
  [][\A r \in Runs : Len(held'[r]) > Len(held[r]) =>
       LET i == held'[r][Len(held'[r])]
       IN  ~aborted'[r] /\ i \in eligible /\ weight[i] > 0]_vars

(* A run surfaces its last error only when its attempts are used up or     *)
(* every endpoint that is up and has weight has been tried, and reports no *)
(* endpoint only when there is none (Pool.js run, LITE_PICK_NONE and the   *)
(* break).                                                                 *)
GivesUpOnlyWhenSpent ==
  [][\A r \in Runs : outcome'[r] # outcome[r] =>
       CASE outcome'[r] = "exhausted" -> Len(held[r]) = tries[r]
         [] outcome'[r] = "spent" -> Pickable \subseteq Holding(r)
         [] outcome'[r] = "none" -> Pickable = {}
         [] OTHER -> TRUE]_vars

(* The fallback spills in proportion to weight: of the HashRange hashes,   *)
(* candidate i gets its weight's share, to within one hash (Pool.js        *)
(* _chooseUntried, K10).                                                   *)
SpillProportional ==
  \A r \in Runs :
    LET C == Candidates(Holding(r))
        W == WeightOf(C)
        hits(i) == Cardinality({h \in Hashes : ChooseUntried(Holding(r), h) = i})
    IN  \A i \in C : /\ hits(i) * W - weight[i] * HashRange < W
                     /\ weight[i] * HashRange - hits(i) * W < W

(* Every run ends: failover is bounded, so when each fn settles each call  *)
(* of run returns or throws.                                               *)
EverySettles == \A r \in Runs : pc[r] = "await" ~> pc[r] = "idle"

(* The counter ergonomics implement the lease: endpoints are taken one at  *)
(* a time, never twice, and all given back in one step.                    *)
L == INSTANCE Lease WITH Clients <- Runs, Endpoints <- Nodes,
                         leases <- [r \in Runs |-> Range(held[r])], load <- inflight
LeaseSpec == L!Spec
===============================================================================
