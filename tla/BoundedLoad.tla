------------------------------ MODULE BoundedLoad -----------------------------
(***************************************************************************)
(* BoundedLoadBalancer of Pick.js: the table of ConsistentHash, inherited  *)
(* unchanged, and an occupancy cap a pick honours on its walk.  The caller *)
(* dispatches where the pick says and settles later, mirroring each change *)
(* of inflight[] with note(), as Pool does.                                *)
(***************************************************************************)
EXTENDS ConsistentHash

CONSTANTS
  EpsNum, EpsDen,                   \* eps, the slack over the mean, as a fraction
  MinCaps,                          \* the values minCap may have
  MaxJobs                           \* bounds the jobs in flight

ASSUME CapAssumption ==
  /\ EpsNum \in Nat \ {0}
  /\ EpsDen \in Nat \ {0}
  /\ MinCaps \subseteq Nat
  /\ MaxJobs \in Nat

VARIABLES
  minCap,                       \* _minCap
  inflight,                     \* the caller's inflight[]
  noted                         \* _total, the balancer's own running sum

loadVars == <<inflight, noted>>
vars == <<baseVars, tableVars, minCap, loadVars>>

------------------------------------------------------------------------------
(* pick(key) *)

(* The cap is the mean with the incoming job counted, and the slack over   *)
(* it, or minCap if that is more; with nothing in flight there is no cap.  *)
Bug_UnderCap(i) ==
  \/ noted = 0
  \/ inflight[i] * live * EpsDen < (EpsDen + EpsNum) * (noted + 1)
UnderCap(i) ==
  \/ noted = 0
  \/ inflight[i] * live * EpsDen < (EpsDen + EpsNum) * (noted + 1)
  \/ inflight[i] < minCap

Window(slot) == Up(slot, 0, ProbeLimit)
At(slot, d) == lookup[(slot + d) % M]
Nearest(slot, ds) == At(slot, CHOOSE d \in ds : \A e \in ds : d <= e)

(* The first endpoint of the window that is up and under the cap, else the *)
(* first that is up, else the first in the sweep, which ignores the cap.   *)
Bug_Route(slot) ==
  LET under == {d \in Window(slot) : UnderCap(At(slot, d))}
  IN  IF live = 0 \/ ~wmask THEN NONE
      ELSE IF under # {} THEN Nearest(slot, under)
      ELSE IF noted > 0 THEN NONE
      ELSE Sweep(slot)
Route(slot) ==
  LET under == {d \in Window(slot) : UnderCap(At(slot, d))}
  IN  IF live = 0 \/ ~wmask THEN NONE
      ELSE IF under # {} THEN Nearest(slot, under)
      ELSE IF Window(slot) # {} THEN Nearest(slot, Window(slot))
      ELSE Sweep(slot)

------------------------------------------------------------------------------
(* The steps *)

Init ==
  /\ TableInit
  /\ minCap \in MinCaps
  /\ inflight = [i \in Nodes |-> 0]
  /\ noted = 0

(* note(i, delta) clamps the sum at 0. *)
Note(delta) == noted' = IF noted + delta > 0 THEN noted + delta ELSE 0

(* A job with a key of this slot starts. *)
Dispatch(slot) ==
  /\ SumFunction(inflight) < MaxJobs
  /\ Route(slot) # NONE
  /\ inflight' = [inflight EXCEPT ![Route(slot)] = @ + 1]
  /\ Note(1)
  /\ UNCHANGED <<baseVars, tableVars, minCap>>

(* A job of endpoint i is done, whether i is still up or not. *)
Bug_Settle(i) ==
  /\ inflight[i] > 0
  /\ inflight' = [inflight EXCEPT ![i] = @ - 1]
  /\ IF i \in eligible THEN Note(-1) ELSE UNCHANGED noted
  /\ UNCHANGED <<baseVars, tableVars, minCap>>
Settle(i) ==
  /\ inflight[i] > 0
  /\ inflight' = [inflight EXCEPT ![i] = @ - 1]
  /\ Note(-1)
  /\ UNCHANGED <<baseVars, tableVars, minCap>>

Next ==
  \/ \E slot \in Slots : Dispatch(slot)
  \/ \E i \in Nodes : Settle(i)
  \/ Reconfigure /\ UNCHANGED <<minCap, loadVars>>

Spec == Init /\ [][Next]_vars

------------------------------------------------------------------------------
(* Properties *)

(* Every variable has its type. *)
TypeOK ==
  /\ TableTypeOK
  /\ minCap \in MinCaps
  /\ inflight \in [Nodes -> 0 .. MaxJobs]
  /\ noted \in 0 .. MaxJobs

NotedExact == noted = SumFunction(inflight)

(* The state is well formed, and the sum the cap is taken from is the      *)
(* number of jobs in flight, the ones on endpoints that went down          *)
(* meanwhile included (BoundedLoadBalancer.note, assertConsistent).        *)
Consistent == TypeOK /\ NotedExact

(* The hotspot protection: however hot a key, a job never goes to an       *)
(* endpoint that already holds (1 + eps) times the mean of the live pool,  *)
(* the new job counted, nor to one with minCap jobs, whichever is more.    *)
(* Promised when the probe window reaches every endpoint that is up: one   *)
(* of them is then under the cap, even with jobs left on dead endpoints.   *)
HotspotBounded ==
  \A s \in Slots :
    LET i == Route(s)
        jobs == SumFunction(inflight)
    IN  wmask /\ live > 0 /\ eligible = {At(s, d) : d \in Window(s)} =>
          \/ inflight[i] < minCap
          \/ inflight[i] * Cardinality(eligible) * EpsDen < (EpsDen + EpsNum) * (jobs + 1)

(* Stickiness: a key whose home is up stays there as long as the home has  *)
(* no more than the mean of the live pool, or less than minCap.            *)
Sticky ==
  \A s \in Slots :
    lookup[s] \in eligible /\ wmask
      /\ (inflight[lookup[s]] * live <= noted \/ inflight[lookup[s]] < minCap)
    => Route(s) = lookup[s]

(* The cap only ever chooses among endpoints: a pick, with the cap or      *)
(* without, fails closed only when it must, never merely because the       *)
(* nearest endpoint is far (the sweep, L3) or because all are over the cap *)
(* (pick of both classes).                                                 *)
FindsWhatThereIs == \A s \in Slots : Finds(Route(s)) /\ Finds(PlainRoute(s))
===============================================================================
