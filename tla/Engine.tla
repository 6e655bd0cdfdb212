-------------------------------- MODULE Engine --------------------------------
(***************************************************************************)
(* Engine of pickEcosystem/live/engine.js with the Balancers slot it       *)
(* dispatches through: admission, engine A (a table of request slots and   *)
(* synchronous settles), engine B (Pool.run, a promise per request), live  *)
(* switches of strategy and engine, draining and halt.                     *)
(*                                                                         *)
(* The worker set is an external library: a worker accepts a job if it is  *)
(* READY and not full, and settles each job it accepted once.  Which       *)
(* eligible worker a strategy picks is its own business.  Of the fleet's   *)
(* work (see Fleet) the engine sees which workers are eligible.            *)
(***************************************************************************)
EXTENDS Integers, Sequences, FiniteSets, Functions

CONSTANTS
  N,            \* the workers
  SlotCap,      \* a worker's slots and queue
  R,            \* maxRequests: the slots of engine A's table
  RunsB,        \* engine B's runs that may be pending at a time
  Tries,        \* the attempts per request
  MaxArrivals   \* bounds the arrivals

ASSUME EngineAssumption ==
  /\ N \in Nat \ {0}
  /\ SlotCap \in Nat \ {0}
  /\ R \in Nat \ {0}
  /\ IsFiniteSet(RunsB)
  /\ Tries \in {1, 2}
  /\ MaxArrivals \in Nat

Nodes == 0 .. N-1
Slots == 1 .. R
NONE == -1

VARIABLES
  ready,        \* the worker set: the READY workers
  disposed,     \* has halt() disposed of it?
  up,           \* shared.up, and the balancer's copy of it
  hasNote,      \* does the strategy in use keep a noted total (BoundedLoad)?
  noted,        \* that total
  mode,         \* which engine takes the arrivals, "A" or "B"
  draining,
  free,         \* the stack of free slots
  req,          \* the request in each slot of engine A
  run,          \* the requests of engine B
  inflight,
  c,            \* the stats' counts
  last          \* history: how the last request ended, and what it had met

outside == <<ready, disposed, up, mode, draining>>
vars == <<outside, hasNote, noted, free, req, run, inflight, c, last>>

(* A request of engine A: rTries, rFirst, rRan, rCap, and the worker it    *)
(* is at.  met (history): the obstacles it has met.                        *)
Obstacles == {"full", "notReady", "none", "failed"}
Request ==
  [tries : 0 .. Tries, first : Nodes \cup {NONE}, ran : BOOLEAN, cap : BOOLEAN,
   at : Nodes \cup {NONE}, met : SUBSET Obstacles]
Fresh == [tries |-> 0, first |-> NONE, ran |-> FALSE, cap |-> TRUE, at |-> NONE, met |-> {}]

(* A run of engine B: the endpoints Pool holds for it, and whether its fn  *)
(* is at the last of them or has been refused, as a promise will tell.     *)
Run ==
  [st : {"idle", "out", "full", "notReady", "none"}, held : Seq(Nodes), ran : BOOLEAN,
   met : SUBSET Obstacles]
Idle == [st |-> "idle", held |-> <<>>, ran |-> FALSE, met |-> {}]

Init ==
  /\ ready = Nodes
  /\ disposed = FALSE
  /\ up \in SUBSET Nodes
  /\ hasNote \in BOOLEAN
  /\ noted = 0
  /\ mode = "A"
  /\ draining = FALSE
  /\ free = [k \in 1 .. R |-> R + 1 - k]
  /\ req = [r \in Slots |-> Fresh]
  /\ run = [b \in RunsB |-> Idle]
  /\ inflight = [i \in Nodes |-> 0]
  /\ c = [arrived |-> 0, ok |-> 0, failed |-> 0, shed |-> 0, drained |-> 0]
  /\ last = [outcome |-> "ok", met |-> {}]

------------------------------------------------------------------------------
(* The worker set and the counts *)

Out(b) == run[b].st = "out"
LastOf(s) == s[Len(s)]

(* The jobs at a worker, besides the one of slot r that has just settled.  *)
Load(i, r) ==
  Cardinality({s \in Slots \ {r} : req[s].at = i})
    + Cardinality({b \in RunsB : Out(b) /\ LastOf(run[b].held) = i})
Accepts(i, r) == i \in ready /\ Load(i, r) < SlotCap
Refusal(i) == IF i \in ready THEN "full" ELSE "notReady"

Pending == (R - Len(free)) + Cardinality({b \in RunsB : run[b].st # "idle"})

(* note(), if the strategy in use has one. *)
Note(delta) ==
  noted' = IF ~hasNote THEN noted ELSE IF noted + delta > 0 THEN noted + delta ELSE 0

Count(arrived, outcome) ==
  c' = [k \in DOMAIN c |-> c[k] + (IF k = "arrived" THEN arrived ELSE 0)
                                + (IF k = outcome THEN 1 ELSE 0)]

(* fleet.onDispatch: a probe takes its worker out of the balancer. *)
OnDispatch(i) == up' \in {up, up \ {i}}

Picks == IF up = {} THEN {NONE} ELSE up

------------------------------------------------------------------------------
(* Engine A *)

(* _other: the next eligible worker after the one to avoid that has room.  *)
Other(avoid, r) ==
  LET roomy == {k \in 1 .. N-1 : LET j == (avoid + k) % N IN j \in up /\ Load(j, r) < SlotCap}
  IN  IF roomy = {} THEN NONE
      ELSE (avoid + (CHOOSE k \in roomy : \A l \in roomy : k <= l)) % N

(* One post.  Only a full queue leaves cap as it was. *)
Bug_Try(r, q, i) ==
  LET p == [q EXCEPT !.tries = @ + 1, !.first = IF @ = NONE THEN i ELSE @]
  IN  IF Accepts(i, r) THEN [p EXCEPT !.at = i, !.ran = TRUE]
      ELSE [p EXCEPT !.met = @ \cup {Refusal(i)}]
Try(r, q, i) ==
  LET p == [q EXCEPT !.tries = @ + 1, !.first = IF @ = NONE THEN i ELSE @]
  IN  IF Accepts(i, r) THEN [p EXCEPT !.at = i, !.ran = TRUE]
      ELSE [p EXCEPT !.cap = (@ /\ i \in ready), !.met = @ \cup {Refusal(i)}]

(* _postA: a refusal is rerouted once. *)
Post(r, q, i) ==
  LET p == Try(r, q, i)
  IN  IF p.at = NONE /\ p.tries < Tries /\ Other(i, r) # NONE THEN Try(r, p, Other(i, r)) ELSE p

(* _dispatchA, for the worker picked: a failover goes to another one. *)
Bug_Place(r, q, i) ==
  IF i = NONE THEN [q EXCEPT !.cap = (@ /\ q.tries > 0), !.met = @ \cup {"none"}]
  ELSE Post(r, q, i)
Place(r, q, i) ==
  IF i = NONE THEN [q EXCEPT !.cap = (@ /\ q.tries > 0), !.met = @ \cup {"none"}]
  ELSE IF q.tries > 0 /\ i = q.first
  THEN IF Other(i, r) = NONE THEN q ELSE Post(r, q, Other(i, r))
  ELSE Post(r, q, i)

(* _finishA: the slot is free again.  stack: the free slots before. *)
Bug_Finish(r, q, ok, arrived, stack) ==
  LET outcome == IF ok THEN "ok" ELSE IF ~q.ran /\ q.cap THEN "shed" ELSE "failed"
  IN  /\ Count(arrived, outcome)
      /\ last' = [outcome |-> outcome, met |-> q.met]
      /\ free' = IF ok THEN Append(stack, r) ELSE stack
      /\ req' = [req EXCEPT ![r] = Fresh]
Finish(r, q, ok, arrived, stack) ==
  LET outcome == IF ok THEN "ok" ELSE IF ~q.ran /\ q.cap THEN "shed" ELSE "failed"
  IN  /\ Count(arrived, outcome)
      /\ last' = [outcome |-> outcome, met |-> q.met]
      /\ free' = Append(stack, r)
      /\ req' = [req EXCEPT ![r] = Fresh]

(* The request is at a worker or has nowhere to go.  inf and delta: the    *)
(* counts, and the change of the noted total, that this step made before.  *)
Placed(r, q, arrived, stack, inf, delta) ==
  IF q.at # NONE
  THEN /\ req' = [req EXCEPT ![r] = q]
       /\ free' = stack
       /\ inflight' = [inf EXCEPT ![q.at] = @ + 1]
       /\ Note(delta + 1)
       /\ OnDispatch(q.at)
       /\ Count(arrived, "none")
       /\ UNCHANGED last
  ELSE /\ Finish(r, q, FALSE, arrived, stack)
       /\ inflight' = inf
       /\ Note(delta)
       /\ UNCHANGED up

AcceptA ==
  LET r == LastOf(free)
      stack == SubSeq(free, 1, Len(free) - 1)
  IN  /\ mode = "A" /\ free # <<>>
      /\ \E i \in Picks : Placed(r, Place(r, Fresh, i), 1, stack, inflight, 0)
      /\ UNCHANGED <<ready, disposed, mode, draining, hasNote, run>>

(* _settleA: the worker's answer, or what the set says for a worker that   *)
(* is gone.  A failure is tried again unless the set is disposed of.       *)
SettleA(r, ok) ==
  LET i == req[r].at
      q == [req[r] EXCEPT !.at = NONE, !.met = IF ok THEN @ ELSE @ \cup {"failed"}]
      inf == [inflight EXCEPT ![i] = @ - 1]
  IN  /\ i # NONE
      /\ ok => i \in ready
      /\ IF ~ok /\ ~disposed /\ q.tries < Tries
         THEN \E j \in Picks : Placed(r, Place(r, q, j), 0, free, inf, -1)
         ELSE /\ Finish(r, q, ok, 0, free)
              /\ inflight' = inf
              /\ Note(-1)
              /\ UNCHANGED up
      /\ UNCHANGED <<ready, disposed, mode, draining, hasNote, run>>

------------------------------------------------------------------------------
(* Engine B: Pool.run *)

(* Pool raises the count of the worker and calls fn, which submits. *)
Attempt(b, q, i) ==
  IF i = NONE
  THEN /\ run' = [run EXCEPT ![b] = [q EXCEPT !.st = "none", !.met = @ \cup {"none"}]]
       /\ UNCHANGED <<inflight, noted, up>>
  ELSE /\ run' = [run EXCEPT ![b] =
                    [q EXCEPT !.held = Append(@, i),
                              !.st = IF Accepts(i, NONE) THEN "out" ELSE Refusal(i),
                              !.met = IF Accepts(i, NONE) THEN @ ELSE @ \cup {Refusal(i)}]]
       /\ inflight' = [inflight EXCEPT ![i] = @ + 1]
       /\ Note(1)
       /\ OnDispatch(i)

AcceptB ==
  /\ mode = "B"
  /\ \E b \in RunsB :
       /\ run[b].st = "idle"
       /\ \A d \in RunsB : run[d].st = "idle" => b <= d
       /\ \E i \in Picks : Attempt(b, Idle, i)
  /\ Count(1, "none")
  /\ UNCHANGED <<ready, disposed, mode, draining, hasNote, free, req, last>>

(* The end of a run: Pool gives back all it held, one note each. *)
EndB(b, q, outcome) ==
  /\ run' = [run EXCEPT ![b] = Idle]
  /\ inflight' = [i \in Nodes |-> inflight[i] - Cardinality({k \in DOMAIN q.held : q.held[k] = i})]
  /\ Note(-Len(q.held))
  /\ Count(0, outcome)
  /\ last' = [outcome |-> outcome, met |-> q.met]
  /\ UNCHANGED up

(* fn has failed with an error of this code.  The next attempt goes to an  *)
(* eligible worker not tried yet; without one the error is the run's.      *)
Bug_FailB(b, code) ==
  LET q == [run[b] EXCEPT !.met = IF code = "failed" THEN @ \cup {code} ELSE @]
      untried == up \ Range(q.held)
  IN  IF code # "none" /\ Len(q.held) < Tries /\ untried # {}
      THEN (\E i \in untried : Attempt(b, q, i)) /\ UNCHANGED <<c, last>>
      ELSE EndB(b, q, IF code = "full" THEN "shed" ELSE "failed")
FailB(b, code) ==
  LET q == [run[b] EXCEPT !.ran = (@ \/ code # "full"),
                          !.met = IF code = "failed" THEN @ \cup {code} ELSE @]
      untried == up \ Range(q.held)
  IN  IF code # "none" /\ Len(q.held) < Tries /\ untried # {}
      THEN (\E i \in untried : Attempt(b, q, i)) /\ UNCHANGED <<c, last>>
      ELSE EndB(b, q, IF ~q.ran /\ code = "full" THEN "shed" ELSE "failed")

SettleB(b, ok) ==
  /\ IF Out(b) THEN IF ok THEN LastOf(run[b].held) \in ready /\ EndB(b, run[b], "ok")
                    ELSE FailB(b, "failed")
     ELSE ~ok /\ run[b].st # "idle" /\ FailB(b, run[b].st)
  /\ UNCHANGED <<ready, disposed, mode, draining, hasNote, free, req>>

------------------------------------------------------------------------------
(* request(key) *)

(* Admission.  With no worker eligible the request goes on, to fail. *)
AtCapacity == up # {} /\ Pending >= Cardinality(up) * SlotCap

TurnAway(outcome) ==
  /\ Count(1, outcome)
  /\ UNCHANGED <<outside, hasNote, noted, free, req, run, inflight, last>>

Arrive ==
  /\ c.arrived < MaxArrivals
  /\ \/ draining /\ TurnAway("drained")
     \/ ~draining /\ (AtCapacity \/ (mode = "A" /\ free = <<>>)) /\ TurnAway("shed")
     \/ ~draining /\ ~AtCapacity /\ (AcceptA \/ AcceptB)

------------------------------------------------------------------------------
(* The surroundings: the fleet, the visitor, the kernel *)

untouched == <<free, req, run, inflight, c, last>>

Eligible(i) ==
  /\ \/ up' = up \cup {i}
     \/ up' = up \ {i}
  /\ UNCHANGED <<ready, disposed, mode, draining, hasNote, noted, untouched>>

(* A worker dies, which settles its jobs as failed, or is back. *)
Die(i) ==
  /\ ready' = ready \ {i}
  /\ UNCHANGED <<disposed, up, mode, draining, hasNote, noted, untouched>>
Respawn(i) ==
  /\ ~disposed /\ {r \in Slots : req[r].at = i} = {}
  /\ {b \in RunsB : Out(b) /\ LastOf(run[b].held) = i} = {}
  /\ ready' = ready \cup {i}
  /\ UNCHANGED <<disposed, up, mode, draining, hasNote, noted, untouched>>

(* A new balancer; a total of its own is synced from inflight. *)
Bug_SetStrategy(keeps) ==
  /\ hasNote' = keeps
  /\ noted' = 0
  /\ UNCHANGED <<outside, untouched>>
SetStrategy(keeps) ==
  /\ hasNote' = keeps
  /\ noted' = IF keeps THEN SumFunction(inflight) ELSE 0
  /\ UNCHANGED <<outside, untouched>>

SetMode(m) ==
  /\ mode' = m
  /\ UNCHANGED <<ready, disposed, up, draining, hasNote, noted, untouched>>

Drain ==
  /\ draining' = TRUE
  /\ UNCHANGED <<ready, disposed, up, mode, hasNote, noted, untouched>>

(* halt: the set is disposed of, and its jobs settle as LWP_DISPOSED. *)
Halt ==
  /\ draining' = TRUE
  /\ disposed' = TRUE
  /\ ready' = {}
  /\ UNCHANGED <<up, mode, hasNote, noted, untouched>>

Next ==
  \/ Arrive
  \/ \E r \in Slots, ok \in BOOLEAN : SettleA(r, ok)
  \/ \E b \in RunsB, ok \in BOOLEAN : SettleB(b, ok)
  \/ \E i \in Nodes : Eligible(i) \/ Die(i) \/ Respawn(i)
  \/ \E keeps \in BOOLEAN : SetStrategy(keeps)
  \/ \E m \in {"A", "B"} : SetMode(m)
  \/ Drain \/ Halt

Spec == Init /\ [][Next]_vars

(* The worker set settles what it accepted, and promises are told. *)
Fairness ==
  /\ \A r \in Slots : WF_vars(\E ok \in BOOLEAN : SettleA(r, ok))
  /\ \A b \in RunsB : WF_vars(\E ok \in BOOLEAN : SettleB(b, ok))
FairSpec == Spec /\ Fairness

------------------------------------------------------------------------------
(* Properties *)

(* Every variable has its type. *)
TypeOK ==
  /\ ready \in SUBSET Nodes
  /\ up \in SUBSET Nodes
  /\ disposed \in BOOLEAN /\ hasNote \in BOOLEAN /\ draining \in BOOLEAN
  /\ noted \in Nat
  /\ mode \in {"A", "B"}
  /\ free \in Seq(Slots)
  /\ req \in [Slots -> Request]
  /\ run \in [RunsB -> Run]
  /\ inflight \in [Nodes -> Nat]
  /\ c \in [{"arrived", "ok", "failed", "shed", "drained"} -> Nat]

(* Every arrival is accounted for exactly once: it is ok, failed, shed or  *)
(* drained, or it is pending in one slot or one run, and a slot is free or *)
(* has a request at a worker, never both (stats.js; heartbeat.mjs,         *)
(* "accounted").                                                           *)
Accounted ==
  /\ TypeOK
  /\ c.arrived = c.ok + c.failed + c.shed + c.drained + Pending
  /\ Range(free) = {r \in Slots : req[r].at = NONE}
  /\ Cardinality(Range(free)) = Len(free)

(* A failover goes to a different worker, in either engine. *)
FailoverElsewhere ==
  /\ \A r \in Slots : req[r].at # NONE /\ req[r].tries > 1 => req[r].at # req[r].first
  /\ \A b \in RunsB : \A j, k \in DOMAIN run[b].held :
       run[b].held[j] = run[b].held[k] => j = k

(* The counts every strategy decides on are exact through failovers,       *)
(* refusals, deaths and switches of strategy or engine in mid-request:     *)
(* inflight counts engine A's requests at a worker and engine B's runs     *)
(* that hold it, each once, and the noted total is their sum (engine.js    *)
(* header; Balancers.set).                                                 *)
InflightExact ==
  /\ FailoverElsewhere
  /\ \A i \in Nodes :
       inflight[i] = Cardinality({r \in Slots : req[r].at = i})
                       + Cardinality({b \in RunsB : i \in Range(run[b].held)})
  /\ hasNote => noted = SumFunction(inflight)

(* A request is counted as shed if and only if a full queue is all it ever *)
(* met: never one that ran, found no eligible worker or was refused by one *)
(* that was not READY, in either engine (engine.js header, S_SHED).        *)
ShedIffOnlyFull == (last.outcome = "shed") = (last.outcome # "ok" /\ last.met = {"full"})

(* Draining quiesces: once arrivals are turned away, the pending requests  *)
(* come to 0 and the shutdown can go on (kernel.js, step quiesce).         *)
Quiesces == draining ~> Pending = 0
===============================================================================
