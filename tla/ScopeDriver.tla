------------------------------ MODULE ScopeDriver -----------------------------
(***************************************************************************)
(* The traffic engine of Pool Scope (demo/pool-scope/driver.mjs): it owns  *)
(* the arrays a balancer reads, dispatches requests into a fixed pool of   *)
(* slots, settles them when their service time is over, and bends the      *)
(* counts of workers to show faults.  tick() is one step.  A key press may *)
(* come between any two ticks: it kills, revives, flaps or pins a worker,  *)
(* changes weights, switches the strategy or resets the scene (tui.mjs).   *)
(*                                                                         *)
(* The pick is any worker the strategy may choose.  Times are relative:    *)
(* a slot holds the ticks it has left, and the clock counts modulo Cycle,  *)
(* a common multiple of the injectors' periods.                            *)
(***************************************************************************)
EXTENDS Balancer, Functions, FiniteSetsExt

CONSTANTS
  Strategies,   \* the strategies the keys switch between
  Slots,        \* 1 .. PEND, the slots of pending requests
  MaxService,   \* the longest service time, in ticks
  Targets,      \* the numbers of requests a tick may fill up to
  Weights0,     \* the default weights
  Ramp,         \* the weights of makeUnfair
  Pin,          \* OVERLOAD_PIN
  High, Low,    \* PP_HI and PP_LO
  Half,         \* PP_HALF
  FlapPeriod,   \* FLAP_PERIOD
  Cycle         \* a common multiple of FlapPeriod and 2 * Half

\* What the driver knows of a strategy.
Noting == {"boundedload"}                       \* has note()
Aliasing == {"smoothwrr", "weightedrandom"}     \* its weights are the driver's array
Copying == {"consistenthash", "boundedload"}    \* it has weights of its own
Live == {"sed", "nq"}                           \* it reads the driver's array at each pick
Blind == {"roundrobin", "p2c", "leastconn", "peakewma"}

ASSUME DriverAssumption ==
  /\ Strategies \subseteq Noting \cup Aliasing \cup Copying \cup Live \cup Blind
  /\ IsFiniteSet(Slots)
  /\ MaxService \in Nat \ {0}
  /\ Targets \subseteq Nat \ {0}
  /\ Weights0 \in [Nodes -> Nat] /\ Ramp \in [Nodes -> Nat]
  /\ {Pin, High, Low} \subseteq Nat \ {0}
  /\ Half \in Nat \ {0} /\ FlapPeriod \in Nat \ {0}
  /\ Cycle \in Nat \ {0} /\ Cycle % FlapPeriod = 0 /\ Cycle % (2 * Half) = 0

VARIABLES
  strategy,     \* strategyName
  weights,      \* weights[], the driver's array
  built,        \* what the balancer's tables and sums were built from
  noted,        \* the noted total of BoundedLoad
  inflight,     \* inflight[]
  slots,        \* the pending requests: a slot's worker and the ticks it has left
  free,         \* freeStack: how often each slot is on it
  pin, ceil,    \* pin[] and ceil[], 0 and NONE where there is none
  flapping,     \* flapWorker while flapEnabled, else NONE
  swinging,     \* <<ppA, ppB>> while ppEnabled, else <<>>
  clock,        \* tickCount, modulo Cycle
  bent          \* history: the workers that were pinned since the last reset

scene == <<pin, ceil, flapping, swinging>>
load == <<noted, inflight, slots, free>>
driverVars == <<baseVars, strategy, weights, built, load, scene, clock, bent>>

Idle == [at |-> NONE, left |-> 0]
Active(ss) == {s \in Slots : ss[s].at # NONE}
PendingOf(i) == {s \in Slots : slots[s].at = i}
Nothing == [i \in Nodes |-> 0]
AllFree == [s \in Slots |-> 1]

------------------------------------------------------------------------------
(* setStrategy, with _resetSim: a new balancer over the driver's arrays,   *)
(* and no request pending.                                                 *)
Bug_NewBalancer(name, w) ==
  /\ strategy' = name
  /\ built' = w
  /\ inflight' = Nothing
  /\ noted' = 0
  /\ slots' = [s \in Slots |-> Idle]
  /\ UNCHANGED free
Bug_NewBalancerOnly(name, w) ==
  /\ strategy' = name
  /\ built' = w
  /\ inflight' = Nothing
  /\ noted' = 0
  /\ UNCHANGED <<slots, free>>
NewBalancer(name, w) ==
  /\ strategy' = name
  /\ built' = w
  /\ inflight' = Nothing
  /\ noted' = 0
  /\ slots' = [s \in Slots |-> Idle]
  /\ free' = AllFree

DriverInit ==
  /\ eligible = Nodes
  /\ live = N
  /\ strategy \in Strategies
  /\ weights = Weights0
  /\ built = Weights0
  /\ inflight = Nothing
  /\ noted = 0
  /\ slots = [s \in Slots |-> Idle]
  /\ free = AllFree
  /\ pin = Nothing
  /\ ceil = [i \in Nodes |-> NONE]
  /\ flapping = NONE
  /\ swinging = <<>>
  /\ clock = 0
  /\ bent = {}

(* A switch keeps the injectors and what is up.  The key of the strategy   *)
(* in use builds it anew.                                                  *)
SetStrategy(name) ==
  /\ NewBalancer(name, weights)
  /\ bent' = {i \in bent : pin[i] > 0 \/ i \in Range(swinging)}
  /\ UNCHANGED <<baseVars, weights, scene, clock>>

(* resetAll: a fresh scene, the same strategy. *)
ResetAll ==
  /\ eligible' = Nodes
  /\ live' = N
  /\ weights' = Weights0
  /\ NewBalancer(strategy, Weights0)
  /\ pin' = Nothing
  /\ ceil' = [i \in Nodes |-> NONE]
  /\ flapping' = NONE
  /\ swinging' = <<>>
  /\ bent' = {}
  /\ UNCHANGED clock

------------------------------------------------------------------------------
(* The injectors *)

(* killWorker, reviveWorker *)
SetUp(i, up) ==
  /\ Flip(i, up)
  /\ UNCHANGED <<strategy, weights, built, load, scene, clock, bent>>

OverloadSpike(i) ==
  /\ pin' = [pin EXCEPT ![i] = Pin]
  /\ bent' = bent \cup {i}
  /\ UNCHANGED <<baseVars, strategy, weights, built, load, ceil, flapping, swinging, clock>>

FlapStorm(i) ==
  /\ flapping' = i
  /\ UNCHANGED <<baseVars, strategy, weights, built, load, pin, ceil, swinging, clock, bent>>

ForcePingPong(a, b) ==
  /\ swinging' = <<a, b>>
  /\ bent' = bent \cup {a, b}
  /\ UNCHANGED <<baseVars, strategy, weights, built, load, pin, ceil, flapping, clock>>

(* What setWeight(i, w) leaves built, when the driver's array is shared:   *)
(* SmoothWRR tells a change by the shared array, the others by what they   *)
(* built.                                                                  *)
Rebuilt(shared, i, w) ==
  IF strategy = "smoothwrr" /\ shared[i] = w THEN built
  ELSE IF strategy \in Aliasing \cup Copying THEN [built EXCEPT ![i] = w]
  ELSE built

(* makeStarve: the balancer is told first, then the array is written. *)
Bug_MakeStarve(i) ==
  LET w == [weights EXCEPT ![i] = 0]
  IN  /\ weights' = w
      /\ built' = Rebuilt(w, i, 0)
      /\ UNCHANGED <<baseVars, strategy, load, scene, clock, bent>>
MakeStarve(i) ==
  /\ built' = Rebuilt(weights, i, 0)
  /\ weights' = [weights EXCEPT ![i] = 0]
  /\ UNCHANGED <<baseVars, strategy, load, scene, clock, bent>>

(* makeUnfair: the same for every worker in turn. *)
MakeUnfair ==
  /\ built' = [i \in Nodes |-> Rebuilt(weights, i, Ramp[i])[i]]
  /\ weights' = Ramp
  /\ UNCHANGED <<baseVars, strategy, load, scene, clock, bent>>

------------------------------------------------------------------------------
(* tick() *)

(* The flapping worker changes sides every FlapPeriod ticks. *)
FlapTick ==
  IF flapping # NONE /\ clock % FlapPeriod = 0
  THEN Flip(flapping, flapping \notin eligible)
  ELSE UNCHANGED baseVars

(* The two ping-pong workers are held high and low in turns. *)
Swing ==
  LET aHigh == (clock \div Half) % 2 = 0
      held(f) ==
        IF swinging = <<>> THEN f
        ELSE LET a == swinging[1]
                 b == swinging[2]
                 ofA == [f EXCEPT ![a] = IF aHigh THEN High ELSE Low]
             IN  [ofA EXCEPT ![b] = IF aHigh THEN Low ELSE High]
  IN  pin' = held(pin) /\ ceil' = held(ceil)

Due == {s \in Slots : slots[s].at # NONE /\ slots[s].left = 0}

(* The requests that are over.  A count is lowered, and the balancer told, *)
(* only as far as it is above 0.                                           *)
Settled(i) == Min({inflight[i], Cardinality(Due \cap PendingOf(i))})

\* note(i, delta) of BoundedLoad clamps its total at 0.
Note(total, delta) == IF strategy \in Noting THEN Max({total + delta, 0}) ELSE total

(* The workers the strategy may pick, once the flap has been seen to. *)
Pickable ==
  {i \in eligible' :
     CASE strategy \in Blind -> TRUE
       [] strategy \in Live -> weights[i] > 0
       [] OTHER -> built[i] > 0}

(* The fill: new requests up to a target while a slot is free and a pick   *)
(* finds a worker.                                                         *)
FillSize(target, pending, spare) ==
  IF Pickable = {} THEN 0 ELSE Min({Max({target - pending, 0}), spare})

(* A count is raised to the pin, then cut to the ceiling. *)
Clamped(i, count) ==
  LET raised == IF pin'[i] > count THEN pin'[i] ELSE count
  IN  IF ceil'[i] # NONE /\ raised > ceil'[i] THEN ceil'[i] ELSE raised

(* The totals the balancer is told: what was settled, what was picked, and *)
(* what the clamps changed.                                                *)
Bug_Told(settled, picked, clamped) == - Cardinality(Due) + picked + clamped
Bug_ToldNoClamps(settled, picked, clamped) == picked - settled
Told(settled, picked, clamped) == picked - settled + clamped

Tick ==
  /\ FlapTick
  /\ Swing
  /\ LET freed == [s \in Slots |-> free[s] + IF s \in Due THEN 1 ELSE 0]
         open == {s \in Slots : freed[s] > 0}
         pending == Active(slots) \ Due
         settled == [i \in Nodes |-> inflight[i] - Settled(i)]
     IN  \E target \in Targets :
         \E new \in kSubset(FillSize(target, Cardinality(pending), SumFunction(freed)), open) :
         \E to \in [new -> Pickable], service \in [new -> 1 .. MaxService] :
           LET picked == [i \in Nodes |-> settled[i] + Cardinality({s \in new : to[s] = i})]
           IN  /\ inflight' = [i \in Nodes |-> Clamped(i, picked[i])]
               /\ noted' = Note(noted, Told(SumFunction(inflight) - SumFunction(settled),
                                            Cardinality(new),
                                            SumFunction(inflight') - SumFunction(picked)))
               /\ slots' = [s \in Slots |->
                              IF s \in new THEN [at |-> to[s], left |-> service[s] - 1]
                              ELSE IF s \in pending THEN [slots[s] EXCEPT !.left = @ - 1]
                              ELSE Idle]
               /\ free' = [s \in Slots |-> freed[s] - IF s \in new THEN 1 ELSE 0]
  /\ clock' = (clock + 1) % Cycle
  /\ UNCHANGED <<strategy, weights, built, flapping, swinging, bent>>

------------------------------------------------------------------------------
DriverNext ==
  \/ Tick
  \/ \E name \in Strategies : SetStrategy(name)
  \/ ResetAll
  \/ \E i \in Nodes, up \in BOOLEAN : SetUp(i, up)
  \/ \E i \in Nodes : OverloadSpike(i) \/ FlapStorm(i) \/ MakeStarve(i)
  \/ \E a, b \in Nodes : a < b /\ ForcePingPong(a, b)
  \/ MakeUnfair

DriverSpec == DriverInit /\ [][DriverNext]_driverVars

------------------------------------------------------------------------------

(* The total BoundedLoad takes its cap from is the sum of the counts, at   *)
(* the end of every step: settles at 0, pins, ceilings, flaps and switches *)
(* tell it exactly what they changed (the M-D3 comments of tick).          *)
NotedTracksCounts == strategy \in Noting => noted = SumFunction(inflight)

(* A slot is either pending or on the free stack, and there once: a switch *)
(* under load neither loses slots nor hands one out twice (_resetSim,      *)
(* tick).                                                                  *)
SlotsConserved == \A s \in Slots : free[s] = IF slots[s].at = NONE THEN 1 ELSE 0

(* The counts show what is really pending: exactly for a worker no fault   *)
(* has bent, and for none that has only been pinned up too little.         *)
CountsHonest ==
  \A i \in Nodes :
    /\ i \notin bent => inflight[i] = Cardinality(PendingOf(i))
    /\ ceil[i] = NONE => inflight[i] >= Cardinality(PendingOf(i))

(* The weights on the screen are the weights the strategy picks by, though *)
(* the array is shared with some strategies and not with others            *)
(* (makeUnfair and makeStarve: setWeight comes before the write).          *)
WeightsReachBalancer == strategy \in Aliasing \cup Copying => built = weights
===============================================================================
