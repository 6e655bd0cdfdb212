# TLA+ models of lite-pick

lite-pick is a load balancer in a library: ten strategies that choose an endpoint
(`Pick.js`), an asynchronous request wrapper with failover and in-flight accounting
(`Pool.js`), and a live system built from both (`pickEcosystem/live`), in which
requests run on worker threads behind circuit breakers and supervisors.  This
directory holds TLA+ models of that code, TLC configurations that check them on
small instances, and TLAPS proofs of the properties that matter most.

## 1. Inventory

Paths are relative to the repository.  JavaScript runs one thing at a time: code
between two `await`s is atomic, and everything that is hard comes from what may
happen at an `await`, between two callbacks, or over a long sequence of calls.

| component | state | operations | interacts with |
|---|---|---|---|
| `Pool` (`Pool.js`) | per run: what it has dispatched to, which notes landed; shared: `inflight[]` | `run`: pick, dispatch, await the caller's fn, fail over, release | any balancer (`pick`, `note`, `recordRtt`, `isEligible`, `weightOf`), the caller's fn, signal and clock |
| `BalancerBase` | `eligible[]`, `_live` | `setEligible`, `isEligible` | health probes and operators write, `pick` reads |
| `SmoothWRRBalancer` | credit `_current[]`, `_totalEligibleWeight` | `pick`, `setEligible`, `setWeight` | |
| `RoundRobin`, `LeastConn`, `Sed`, `Nq` | a cursor | `pick` | read the caller's `inflight[]`, `weights[]` |
| `P2cBalancer`, `Prng` | generator state | two draws, the less loaded | reads `inflight[]` |
| `PeakEwmaBalancer` | per endpoint an EWMA and its time; the pool's decaying sum and count | `pick(now)`, `recordRtt` | fed by `Pool` or an engine |
| `ConsistentHashBalancer` | the Maglev table, owned weights | `pick(key)`, `setWeight(s)`, `rebuild` | |
| `BoundedLoadBalancer` | the noted total | `note`, cap-aware `pick` | reads `inflight[]` |
| `WeightedRandomBalancer` | alias table, weight snapshot, eligible-weight sum | `pick`, `setWeight(s)`, `rebuild`, `setEligible` | |
| `Fleet` (`live/fleet.js`) | per worker: breaker, failures, probe flag, supervisor, restart flags | `onDispatch`, `onResult`, `tick`, `_bringUp`, `reset` | the worker set, the supervisor, the balancers' eligibility |
| `Engine` (`live/engine.js`) | request table, free list, counters, `pendingB` | admission, dispatch, settle, failover; engine B over `Pool` | worker set, fleet, balancers, stats |
| `Balancers` (`live/balancers.js`) | the balancer in use, `shared.up` | `set` (switch under load), `setEligible` | engine, fleet |
| `Kernel` (`live/kernel.js`) | `halted`, `halting`, the orchestrator's step | boot, shutdown and its deadline, `halt` | all of them; the cron runs traffic and fleet |
| virtual workers and clock (`live/vworker.js`, `virtual.js`) | a ring of jobs and the time of the next event per worker | `send`, `deliverAt`, `terminate`; `run(ms)` | the worker set, the kernel's cron |
| the page (`live/page.js`) | the kernel in use, `stopping`, `savedRate`, the reboot button | boot, pause and resume, shutdown, reboot | kernel, the tab's visibility |
| Pool Scope's driver (`demo/pool-scope/driver.mjs`) | counts, weights, slots and a free stack, injectors | `tick`, kill, pin, flap, ping-pong, reweights, switch, reset | any strategy; `note` of BoundedLoad |

What makes each correct is said property by property in section 4.

### What is hard here

- **Interleavings at awaits.** Runs of `Pool.run` overlap at one await; engine
  B's refusals come back as rejected promises; `Fleet.reset` awaits twice, may
  begin at any time, even during another, and may reject;
  strategies and engines are switched while requests of both are outstanding.
- **Partial failure.** Any hook the caller supplies may throw at any point of
  `Pool.run`; a post may be refused, rerouted and refused again; a probe may be
  lost to a crash, a full queue or a refusal.
- **Stale state.** Health, weights, the shared weight array and the noted total
  change between the calls that cache them and the calls that use them.
- **Long sequences.** Credits, cursors, cached sums and tables follow any
  sequence of flips, reweights, picks and settles.
- **Clocks.** Estimates decay by differences of readings that may go backwards;
  events share a virtual clock with timers; a deadline races the steps it bounds.
- **Liveness.** No endpoint may starve while others flap, no worker may stay out
  of the balancer for ever, every run ends, a draining engine empties, and a
  shutdown ends even if one of its steps hangs.

The file PROJECT.json lists every hazard at the line where it bites.

## 2. Modules

| module | models | how it is composed |
|---|---|---|
| `Lease` | what the in-flight counts promise: clients take endpoints and give them back | abstract specification of `Pool` |
| `Pool` | `Pool.run` with its callers, signals, health probes and operators | implements `Lease` (`L == INSTANCE Lease`, property `LeaseSpec`) |
| `Balancer` | `BalancerBase`: eligibility, live count | extended by each strategy, as its class extends the base class |
| `SmoothWRR` | `SmoothWRRBalancer` | extends `Balancer` |
| `Rotation` | `RoundRobin`, `LeastConn`, `Sed`, `Nq` with rotating and random ties, and callers that raise and lower the counts | extends `Balancer` |
| `ConsistentHash` | the Maglev build, lookup, probe, sweep | extends `Balancer` |
| `BoundedLoad` | the occupancy cap and `note`, with every step it inherits | extends `ConsistentHash`, as its class does |
| `Prng` | the xorshift generator at 32 bits | used by `TwoChoices` |
| `TwoChoices` | `P2cBalancer`, `PeakEwmaBalancer` | extends `Balancer` and `Prng` |
| `WeightedRandom` | Vose's alias table, rejection, sparse fallback | extends `Balancer` |
| `Fleet` | breaker, health check, supervisor, tick, reset of a worker | external: worker thread, supervisor library |
| `Engine` | admission, engines A and B, settle, failover, switches, draining, halt | the worker set is external; the strategy is any choice among eligible workers |
| `Lifecycle` | what a kernel promises: serve, drain, halt | abstract specification of `Kernel` |
| `VirtualWorkers` | a virtual worker: its ring, its events, its death | operators on a transport, extended by `Kernel` |
| `Kernel` | the cron's rounds over the workers, faults, the orchestrated shutdown, its deadline, `halt` | extends `VirtualWorkers`; implements `Lifecycle` (`L == INSTANCE Lifecycle WITH ...`, property `LifecycleSpec`) |
| `Page` | the browser page's sequence of kernels | a kernel is its phase and its traffic's rate |
| `ScopeDriver` | the traffic engine of the Pool Scope demo | extends `Balancer`; the strategy is any choice it may make |
| `MC*` | values of the constants for TLC | each extends the module it names |
| `DataProofs` | lemmas about sums, counts, sequences, rings and rests, and theorems about `Prng` | extends `Prng`; what the other proofs share |
| `*Proofs` | theorems | each extends the module it names and `DataProofs`; `SmoothWRRProofs` extends `ScopeDriver` too, `KernelProofs` `WeightedRandom`, and `FleetProofs` `TwoChoices` |

A module whose proofs stand beside another's prefixes the names they would share
(`DriverSpec`, `WeightedSpec`, `ChoiceSpec`).

Each class method or handler is one action (or an operator an action uses), and
carries the name of the method it models.  Sets replace byte arrays (`eligible`
is the set of endpoints whose byte is 1), sequences replace the pre-allocated
`held` arrays and the worker queues, `NONE` is `PICK_NONE`.  History variables
(`last`, `fair`, `passed`, `calm`, `edited`, `streak`, `leaked`, `log`, `bent`,
`throws`) exist for properties only and are marked "history"; no guard but that of
a bound reads one.  A definition whose name begins with `Bug_` is not part of a model: it is a
plausible bug in the definition that follows it, and putting it in that
definition's place must break the property PROJECT.json pairs it with.

### Pool

One step is everything a run does from one await to the next: `Call` from the
call to the first await, `SettleOk` and `SettleErr` from the settling of the
caller's fn to the next await or to the end, the `finally` block included.
`Selections` is what an attempt may select: the first takes the strategy's pick,
a later one picks again a bounded number of times and then makes the weighted
choice among the untried.  The strategy's pick is any endpoint that is up and has
weight; the hash of the fallback is any of `HashRange` values.  `Faults` names
the hooks that may throw.  Left out: the latency values given to `recordRtt`,
the diagnostics messages, and a reentrant `run` from inside a publish, which the
model serializes as a step of its own.  The balancer is one with `note`.

### Strategies

`SmoothWRR`: a pick that finds no candidate changes nothing and is no step.
`NeverAhead`, a part of `ExactShare`, speaks of one side only: with five or more
endpoints (weights 1, 1, 6, 6, 6, say) an endpoint may fall a whole pick behind its
share.

`Rotation`: `cur` is `_cur`, or RoundRobin's `_cursor + 1`.  SED's scores are
compared as exact fractions.  SED may starve a light endpoint by design, and
random ties are fair only in probability: `TakesTurns` is about rotating ties and
endpoints that every pick prefers.

`ConsistentHash`: the index hash is any offset and skip out of `Mixes`, a key
counts for its slot, and the probe window and the sweep past it are modelled
apart.  It has no run of its own: `BoundedLoad` inherits its steps and its run
checks the properties of both, the base class's routing (`PlainRoute`) included.
Quotas are floors of exact fractions, where the code's floating point may give one
slot less; `SharesExact` therefore allows a whole slot.  An endpoint of a tiny
positive share may own no slot: then `PICK_NONE` is what the code returns with only
that endpoint up, and `FindsWhatThereIs` says so.

`BoundedLoad`: `HotspotBounded` is claimed when the probe window reaches every
endpoint that is up.  Eligible endpoints of weight 0 count in the mean and
tighten the cap without ever being in the window; jobs left on endpoints that
went down loosen it.  The cap is compared exactly.

`WeightedRandom`: probabilities are integers in units of one over the sum of
weights.  Rounding can put a column that is exactly full on either side, so a
build chooses; a draw is any choice.  `ReweightTakesEffect` includes what the
class's own `assertConsistent` accepts, for a caller that edits nothing in place.
`EditInPlace` is the caller writing to the shared array, which the class allows,
with `edited` as its history.  The code's recount past a sum of 2^53 gives the same
sum in exact arithmetic.

`TwoChoices`: a unit of time is the half-life, so decay is repeated halving, and
`Scale` must halve without a remainder over the time between two readings
(`TimesAssumption`), as 512 does for the run's.  `Never` (-100) is before every
reading, as the code's `-Number.MAX_VALUE` is.  The
generator is the real one at its full width, from the seed 0 that the constructor
remaps, and every draw is its next word.  `DrawTries` is 1 where the code rejects
64 draws before its fallback: the shorter limit takes the fallback often.
`NeverDearest` ranks the endpoint picked by its cost; `ShunsSilent` is stated in
what the callers saw, and not in costs.

### Fleet

A worker's state is a record; each handler of the class is an operator on it, and
each action applies the handlers that one turn of the event loop runs.  A death
answers every job of the thread with `LWP_WORKER_DOWN`.  The control values by
which the demo injects faults are abstracted to the deaths, hangs and failed
answers they cause.  Workers share nothing in the fleet, so one worker shows what
each does.  `drainsFirst` chooses the scene: in the default one a full queue (34
jobs of 30 ms) drains within the cool-down of 2 s; in others it may not.

`Reset` has no guard, for `reset` has none and no front end adds one
(`applyFault`, `act`, `run.mjs`): it may begin during a restart, after an
escalation, while the supervisor of an earlier reset starts, or while another reset
tears down.  Each reset tears down the scope it found and then builds (`Rebuild`),
over the supervisor another has built meanwhile; `tearing` and `late` count the
teardowns of the scope in place and of scopes that were replaced.  Of the worker
set and the supervisor, whose sources are not in the repository, the model takes
this: a respawn ends when its thread is READY or dead; one asked for where there is
a thread replaces it or is refused; `shutdown` resolves in every state; a restart
that failed leaves the supervisor RUNNING, and a start that rejected leaves it not
RUNNING (`sup = "failed"`), so that `tick` never faults its worker.  Restarts do not
age out of `restartWindowMs`: more of them only bring the worker up again.

### Engine

`request` is `Arrive`; `SettleA` and `SettleB` are what the worker set's
callbacks and the promise chains run.  A refusal of engine B is a rejected
promise and so a step of its own; its `onResult` and the Pool's continuation are
one step.  When a worker dies its jobs settle in separate steps, which allows
more interleavings than the code's loop.  What admission counts includes the
requests of workers that are not eligible, as its comment defines, so it may shed
while an eligible worker has room; and since a worker's load is never more than
what is pending, a request of engine A that was admitted was never seen to find
every eligible worker full.  A run of engine B in flight at a switch keeps the old
balancer, whose eligibility view is frozen from then on; it never shows: engine B's
forwarder turns a pick that is down now into `PICK_NONE`, and the failover scan asks
for the current view.

### Kernel

`Advance`, `MoveClock`, `Deliver` and `Tick` are one round of `run(ms)`: the clock
is moved to the next event, the worker with an event that is due is served, then
the cron jobs tick.  Times are relative: an event holds what is left until it is
due.  Everything else, a call of `shutdown` or `halt`, a step of the orchestrator,
a fault, comes between two rounds (`Idle`), as it does in the code, where a round
is synchronous.  The restart of a dead worker is a step of its own (`Respawn`), for
the tick only reports the fault and the supervisor awaits; and the orchestrator
retires the workers one by one (`RetireScope`), with an await after each.  A halted kernel's cron is stopped, and the virtual clock still
moves.  A request has one try (`Engine` has the failover), admission is any
admission while traffic is on, and a job sent to a worker whose crash fault is set
kills it when it comes up.

`halt` ends in `HaltBody`: it stops admission and drains, disposes of the worker
set, and publishes `halted` only if that did not throw; `dispose` may throw
`MaxThrows` times.  The exit callback's argument says who calls: the deadline
(code 2), the end of the steps (0), or a teardown whose dispose threw (1).

### Page

`start` awaits the boot of a kernel, so it is two steps, `Starts` and `Booted`, and
keys, clicks and visibility events come between them.  `reboot` is both the
button's visibility and its being enabled.  Controls that only forward a value to
the kernel are left out; the rate keys are in it for they make traffic offer again.

### ScopeDriver

`tick` is one step: the flap, the ping-pong, the settles of requests that are due,
the fill, then pins and ceilings.  A key press comes between two ticks.  What is
told to a strategy with `note` is the sum of the three changes a tick makes, which
is what it is told one by one, except that the code clamps the total at 0 after
each, which changes nothing while the total is the sum of the counts
(`NotedTracksCounts`).  `bent` holds the
workers whose count an injector has overwritten, for which `CountsHonest` promises
less.

## 3. The runs

| run | instance | what it shows |
|---|---|---|
| `pool_safety` | 3 endpoints, weights 0, 1, 3, 2 runs of up to 3 attempts, 7 hashes | net-zero counts, proportional spill, no use of state read before an await, no early giving up |
| `pool_faults` | 2 endpoints, 2 runs of up to 2 attempts, every hook may throw, at most 2 releases may throw | noted total in lockstep, the lease is implemented, every run ends |
| `smoothwrr` | 3 endpoints, weights 0 to 2 | exact caches and shares, no bursts, bounded credit, no starvation under churn |
| `rotation` | 3 endpoints, weights 0 to 2, four strategies, both ties, 3 in flight | ties take turns, arrivals are balanced |
| `boundedload` | 3 endpoints, weights 0, 1, 3, 5 slots, window 1, 5 hashes, eps 1/4, floor 0 or 2, 3 jobs | shares, sweep and minimal disruption of the table; exact total, the hotspot bound, stickiness |
| `weightedrandom` | 3 endpoints, weights 0, 1, 3, 2 edits outstanding | exact shares both ways, fail closed, no skipped reweight |
| `twochoices` | 3 endpoints, both strategies, 2 latencies, clock readings -2, 0, 1, idle or loaded at the start, 2 picks, 3 samples | the generator lives, estimates bounded, the mean weighs by age, two choices are two, a silent endpoint is passed over |
| `fleet` | 1 worker, 3 jobs, 2 failures trip, 2 restarts, 3 resets that may overlap, starts that reject, both scenes | one probe, no leaked flag, trips on verdicts only, no worker lost in silence |
| `engine` | 2 workers of 1 slot, table of 2, 2 runs of engine B, 2 tries, 2 arrivals | accounting, in-flight counts, shed classification, failover elsewhere, draining comes to an end |
| `kernel` | 2 workers of 2 slots and a queue of 1, 3 jobs of 1 or 2 ms, startup 1 ms, dispose throws at most once | no job stranded or answered twice, the lifecycle is implemented, workers retired idle, a shutdown ends |
| `scope` | 2 workers, 2 slots, 3 strategies (one that notes, one that shares the array, one blind), services of 1 or 2 ticks | the noted total, slots conserved, honest counts, weights reach the strategy |
| `page_hidden` | 2 kernels | a reboot that races a quit key leaves a hidden tab offering traffic (finding) |

**Why the bounds are enough.**  Three endpoints are the fewest with a tie, a
neighbour that flaps and a third that watches; weight 0 (removed) and two
different positive weights are the cases the code tells apart.  Two runs are the
fewest that interleave, three attempts the fewest that fail over twice, and two
attempts on two endpoints exhaust a pool.  Five slots for three endpoints give
quotas that do not divide evenly, a window shorter than the table and a sweep past
it; the first endpoint's permutation may be fixed, for any other is a rotation of
the table, and the second's starts at each of the five slots.  One slot per worker
makes every second post meet a full queue, and two arrivals on two workers meet
capacity, a full queue and a refused failover in both engines (three arrivals were
run too, with the safety properties only, and take too long together with
liveness).  Two restarts reach escalation after a success; three resets let two
overlap and a third take down what the first of them has built while the second
still tears down.  In `kernel` a ring of two wraps with every second job, two slots
and a queue of one put a third job behind a full worker, and one throw of dispose
leaves a halt to be tried again after the deadline, after the last step, or by a
caller.  In `twochoices` three samples are the fewest with a peak, a blend and a
reading that goes back; the readings below 0 tell apart a clock that starts at 0
from one that does not.  In `scope` two slots tell a lost one from one handed out
twice, and the period of two ticks lets flap and ping-pong change sides at every
tick or stay.  Every flip and reweight is enabled in every state, so churn needs no
bound.  Symmetry is used for the two run slots of `pool_safety` and the two request
slots of `scope`, which nothing tells apart and no liveness property is checked
with.  `page_hidden` does not check deadlock, for the page may rest after its last
kernel.

**Fairness.**

- `Pool!FnSettles`: the caller's fn settles.  `run` awaits nothing else.
- `SmoothWRR`: requests keep coming.  Nothing is assumed of flips and reweights,
  which may go on for ever or stop.
- `Fleet`: the cron's tick runs, time passes, a thread answers or overruns (after
  which the tick reaps it), a respawn ends with its thread READY or dead, and a
  reset's teardown ends.  Dispatches, refusals, resets, and deaths of a thread that
  is up, are not assumed fair.
- `Engine`: the worker set settles what it accepted (with an answer, or with the
  death or the disposal of the worker), and promises are told.
- `Kernel`: a round that has begun ends; the deadline, a timer, fires (strongly
  fair, for it is enabled between two rounds only); and a caller whose `halt`
  threw calls it again.  No step of the orchestrator is assumed to end, which is
  what the deadline is for.

## 4. Properties

| property | says | would break if |
|---|---|---|
| `Pool!NetZero` | an endpoint's count is the number of runs that hold it | a path misses the `finally` block or releases the wrong endpoint |
| `Pool!SpillProportional` | the fallback's hashes are split by weight, to within one | the running sum is off by one |
| `Pool!DispatchesOnFreshState` | a dispatch has an unaborted signal and an endpoint up with weight at that step | a check is done before the await only |
| `Pool!GivesUpOnlyWhenSpent` | a run gives up only when attempts or endpoints are used up | a repeated pick ends the run |
| `Pool!NotedLockstep` | the noted total is the occupancy, plus the releases that threw | a failed `note(+1)` is undone |
| `Pool!LeaseSpec` | the counts implement the lease | a count moves in any other way |
| `Pool!EverySettles` | each run ends | attempts are not counted |
| `SmoothWRR!Consistent` | live count and total are exact, an endpoint down or without weight has no credit, churn piles up no more than `2 (N-1) MaxWeight` | a flip is counted for an endpoint on the other side, a reweight keeps credit |
| `SmoothWRR!ExactShare` | a round hands out exact shares, smoothly | a pick forgives its charge, or takes the heaviest |
| `SmoothWRR!NoStarvationUnderChurn` | a steady endpoint is picked for ever | a flip resets the credit of all |
| `Rotation!TakesTurns` | an endpoint each pick prefers is passed over fewer than N times | the cursor stands still after a wrap |
| `Rotation!Balanced` | no arrival could have been placed better; NQ never queues with an idle endpoint | the `+ 1` or the idle pass is dropped |
| `ConsistentHash!SharesExact` | the table follows the weights to a slot | the batch form skips a build it needs, the remainder goes to removed endpoints |
| `BoundedLoad!FindsWhatThereIs` | `PICK_NONE`, of either class, only if no endpoint that is up owns a slot: the cap chooses and never refuses | the sweep, or the fallback to the window, is missing |
| `ConsistentHash!MinimalDisruption` | a flip moves only the keys of the flipped endpoint | the sweep spreads by rank |
| `BoundedLoad!Consistent` | the noted total is exact through flips and settles | settles of down endpoints are not noted |
| `BoundedLoad!HotspotBounded` | a job goes to no endpoint over the cap of the live pool | the total is stale |
| `BoundedLoad!Sticky` | a home below the mean keeps its keys | the floor `minCap` is dropped |
| `WeightedRandom!SharesExact` | the alias table and the fallback give the same exact shares, and none exactly when there is none | a full column's remainder is forgotten, the cached sum follows the live weight, 64 rejections fail closed |
| `WeightedRandom!ReweightTakesEffect` | a weight set is a weight built on | a skip compares with the shared array |
| `TwoChoices!GeneratorAlive` | the generator is never 0 | the seed 0 is not remapped |
| `TwoChoices!EstimatesBounded` | an estimate stays between the latencies its endpoint has shown | a time that went back is not clamped |
| `TwoChoices!MeanWeighsByAge` | the pool mean weighs each sample by its age | the newest time starts at 0 |
| `TwoChoices!NeverDearest` | of two or more, the dearest is not picked | the second choice is not redrawn, the fallback counts those that are down |
| `TwoChoices!ShunsSilent` | a busy endpoint that has gone silent, or never answered, is passed over | the floor or the pool mean is missing |
| `Fleet!ProbeTracked` | half-open: one probe, and the flag says so | a release or the instant exclusion is missing |
| `Fleet!TripsOnVerdicts` | only consecutive failed answers trip | a death counts as a failure |
| `Fleet!NeverStranded` | up again and again, or escalated, or its reset has rejected | half-open is not admitted |
| `Engine!Accounted` | each arrival is counted once or is pending once; a slot is free or used | the slot of a failed request is not freed |
| `Engine!InflightExact` | counts and noted total are exact across engines and switches, and a failover goes to another worker | a new balancer starts from 0, a repeated pick is posted |
| `Engine!ShedIffOnlyFull` | shed means met full queues only | a run that ran is counted as shed |
| `Engine!Quiesces` | draining brings pending to 0 | the slot of a failed request is not freed |
| `Kernel!NothingStranded` | a job is in one live ring once, in order, or queued behind a full worker | the ring does not wrap, a worker that dies keeps answering |
| `Kernel!LifecycleSpec` | the kernel implements the lifecycle | `halted` is published though dispose threw |
| `Kernel!RetiresIdle` | the orchestrator retires idle workers only | shutdown does not drain first, or does not wait |
| `Kernel!ShutdownEnds` | a shutdown resolves and the kernel is halted in the end | the guard `halting` stays latched, `exit` resolves only after halt succeeded |
| `ScopeDriver!NotedTracksCounts` | the noted total is the sum of the counts | a settle at 0 is told, or a clamp is not |
| `ScopeDriver!SlotsConserved` | a slot is pending or free, once | a switch keeps the free stack |
| `ScopeDriver!CountsHonest` | counts of unbent workers are what is pending | a switch keeps the slots |
| `ScopeDriver!WeightsReachBalancer` | the strategy picks by the weights shown | the shared array is written before `setWeight` |
| `Page!NoTrafficWhileHidden` | a hidden tab offers no traffic | violated by the code: the finding |

A module's type invariant is the first conjunct of one of its properties
(`Consistent`, `SharesExact`, `Accounted`, `ProbeTracked`) or of what is proved
(`PoolProofs`, `RotationProofs`).

Two remarks on what the runs found.  Either of the two releases of a probe flag
(the no-verdict branch of `onResult`, and `_bringUp`) alone suffices for
`NeverStranded`: the code has one to spare.  And `NeverStranded` holds even when a
queue outlasts the cool-down, while `OneProbe` and `ProbeTracked` then do not: the
answer of a job sent before the trip is taken for the probe's.

**A reset that fails strands its worker.**  `NeverStranded` needs its third case.
When a worker dies or is killed while a reset respawns it, `start()` rejects
(`fleet.js` lines 131 and 256): the new supervisor is not RUNNING, `escalated` was
cleared at line 254, and the guard at line 195 never faults the worker again.  It
stays dead and out of the balancer, with no escalation; only another reset brings
it back.  Without `"failed"` in the property, TLC stops after `Reset`, `Rebuild` and
`Die`.  The page tells its user ("reset ... failed", `page.js:279`); `run.mjs:44`
does not wait for the promise.  The header says of `tick` that it "also turns a dead
worker into a supervisor fault" (`fleet.js:14-15`), which is not so here.  Two
resets that overlap may end there too, if the set refuses the second respawn.

**Finding.**  A quit key pressed while the page awaits a reboot's kernel passes the
guard of `shutdown` with the old kernel, and sets `stopping` for good: the new
kernel then offers its traffic while the tab is hidden, and the controls are dead
(`page.js` lines 93, 99, 297, 357 and 363; the comment at 114-115 promises no
traffic while hidden).  The counterexample of `page_hidden` has eight states.

Two comments say what the code does not do, as can be read off the models.
`fleet.js:14` calls `tick` the only eligibility writer, and `onDispatch` (line 158)
writes too, which `ProbeTracked` needs.  `Pick.js:2173-2175` and `Pick.js:2390`
call WeightedRandom's fallback a rotated scan, not a proportional path;
`_sparsePick` (line 2421) is proportional to weight, as `SharesExact` checks.

## 5. What is proved

The theorems hold for every value of the constants that satisfies the modules'
assumptions.  These ask that counts are naturals (at least one where the code needs
one), that weights are naturals, and what the code itself has: finitely many run
slots (`Pool`, `Engine`) and weight values (`SmoothWRR`: a `Uint32Array`), one try
or two (`Engine`), a prime table size no smaller than the pool (`ConsistentHash`,
whose constructor refuses any other), request slots that are numbers
(`Kernel`: the engine takes the least free one), finitely many (`ScopeDriver`), a
ring with room for the set's slots, and units of latency and time in which halving
is exact (`TwoChoices`, where exact fractions stand for the code's doubles).  Each invariant property is proved from an inductive one.

`DataProofs` has what the other modules share.  The library's induction theorems
take an operator, which the provers cannot instantiate; here induction is stated for
a set (a set of naturals with 0 and every successor of a member has them all, and
the same for a family of finite sets), which they can, and with it the folds the
modules are written with and their recursive functions can be reasoned about.  The
sum of a function over a set does not depend on the order, and follows a change of
one term; counts; sequences without repetition; steps of one length around a prime
number of places come everywhere.  `StepInjective` and `NeverStuck` are about the
generator of `Prng`, at the full 32 bits: each of the three exclusive ors is undone
bit by bit, from the end that the shift leaves alone; as 0 steps to 0 and no two
words step to the same one, nothing else does.

`PoolProofs`:

- `TypeCorrect`, `NetZeroAlways`, `DistinctAlways`: for any number of endpoints, runs
  and tries, and any set of failing hooks.  The inductive invariant is `IInv == TypeOK
  /\ DistinctFailover /\ NetZero`.  `NetZero` needs `DistinctFailover`, for the
  release lowers a count once per dispatch while a holder is counted once.  Every
  step that changes a count has one of three shapes, each a lemma: it keeps what
  every run holds, a run takes one endpoint it did not hold, or a run gives
  everything back; the shapes turn into facts about the set of holders and its
  cardinality.
- `NotedLockstepAlways`: the same three shapes, and the sum over a replaced count.
- `SpillAlwaysProportional`: a candidate's hashes are those between two multiples of
  the total weight, and a range of that length has its share of multiples, to one.
- `DispatchesFreshAlways`, `GivesUpAlways`: two action properties, from one lemma about
  every step (`StepDecided`): what an attempt may select, by the strategy's pick or by
  the fallback, is up, has weight and was not tried, and it selects nothing only when
  there is no such endpoint.
- `ImplementsLease`: `Spec => L!Spec`.  Initial states map to initial states, and
  each of the three shapes maps to a step of the lease or to a stutter.

`RotationProofs`: `TypeCorrect`, `LiveAlwaysExact`, `TurnsTaken` and `BalancedAlways`.
`TakesTurns` is not inductive.  `TurnBound` is: how often an endpoint was passed
over, plus its distance ahead of the cursor, is less than N.  Each pick that passes
it over moves the cursor towards it, and whatever else may happen leaves both alone.
`Balanced` is, together with the weights' being 1 where the strategy has none: the
one picked was the soonest of the candidates before the request went to it, and the
others' counts have not changed.

`SmoothWRRProofs`: `ConsistentAlways` and `ExactShareAlways`.  A bound on one
endpoint's credit is not inductive: what one is owed the others owe, until a flip
drops what one of them owes.  So the bound is on the sum of every set of k
endpoints, `k (2N - 1 - k) MaxWeight`, which grows with k (a drop leaves the sum of a
smaller set) and shrinks per endpoint (a pick charges one that had the most).  For
one endpoint it is `2 (N - 1) MaxWeight`.  The bound that was first written down and
model-checked, `N MaxWeight`, withstood TLC with the run's three endpoints and
weights up to 2, and the attempt to prove it showed why it is false: churn exceeds
it with 3 endpoints and weight 3, and with 4 and weight 2.  In a round an endpoint's
credit is what it is due less what it got, the credits add up to 0 and nobody owes a
whole pick; after as many picks as the total weight each credit is a multiple of the
total, so that none is negative, so all are 0.

About `ScopeDriver` the same module has `NotedTracksAlways`, `SlotsConservedAlways`,
`CountsHonestAlways` and `WeightsReachAlways`.  A count is what is pending there
unless an injector has bent it, and a worker an injector still acts on must stay
remembered as bent (`BentRemembered`): a switch starts the counts again and keeps of
`bent` the pinned and the swinging, which forgets no ceiling because a ceiling comes
with a pin.  A tick is followed through its
phases: the flap and the ping-pong touch no count, each settle lowers the count of
the worker its slot was at and puts the slot back once, each pick takes a slot out,
and the sum of what `note` was told is the difference of the sums of the counts.

`BoundedLoadProofs`:

- `FlipsDisruptMinimally`, for every table, whatever the hash, weights and probe
  limit made of it.  Probe and sweep together look at the slots that follow a key's
  own, in order; the pick is the first on that walk that is up (`PickWalks`), and the
  walk does not depend on health.  If neither the old nor the new pick is the
  endpoint that flipped, both are up before and after, so neither comes before the
  other.
- `SharesExactAlways`: the quotas are the shares rounded down and one of the rest, and
  add up to the table's size; an endpoint that still lacks slots finds a free one, for
  its stride comes by every slot of a prime table; after r rounds it has r slots or
  its quota.
- `FindsAlways`: probe and sweep reach each slot of the table.
- `ConsistentAlways`, `HotspotAlways`, `StickyAlways`: the noted total is the sum of the
  counts, so the cap is the cap of the live pool; were every endpoint that is up over
  the mean, they would hold more than there is, so one is under the cap, and a window
  that reaches it has an endpoint to pick.

`FleetProofs`: `ProbeTrackedAlways` and `TripsOnVerdictsOnly`.  The inductive
invariant says of one worker's record what its queue holds when half-open and when
cooled, that the worker is out of the balancer then (`Withdrawn`: without it a
second job could reach a half-open worker), that a thread which is not up has no
jobs, and that a closed breaker has counted no more failures than there were in a row.
Each handler is shown to keep it, then each step is a composition of handlers on
one worker (`Moves`).

The module's second part is about `TwoChoices`, for any capacity, seeds, loads,
samples and readings of the clock, in any order:

- `GeneratorAliveAlways`: a draw, its fallback and every redraw leave a word that is
  not 0 and return an endpoint that is up.
- `EstimatesBoundedAlways`.  The bounds are not inductive by themselves, for the least
  and the greatest latency change with each sample; the invariant names, for an
  estimate, a sample below it and one above (`Shown`).  A blend stays between the
  sample and the estimate before it because halving keeps the order and brings no two
  numbers further apart, whatever it rounds.
- `MeanWeighsAlways`.  The invariant is that the pool's sum and count are sums over
  the samples of what each weighs at the newest time known.  Halving a sum is halving
  its terms only where no term leaves a remainder, which is what `TimesAssumption`
  gives; that the newest time never goes back (`Ordered`) makes every age a natural.
- `PicksAfforded`: a pick is of an endpoint that is up, and costs no more than some
  other, unless its second choice was the first again.
- `NeverDearestOfTwo` and `SilentShunned`, under `ChoicesDiffer`: the redraws of a
  second choice come upon another endpoint.  No value of the constants guarantees
  that, for they are a bounded number of pseudorandom draws; on the instance of
  `twochoices` TLC finds that they do, in every state.  An idle endpoint costs nothing or its
  estimate, which is at most the greatest latency; one that has been silent for longer
  costs more than that by the floor, and one without an answer has the pool mean for
  each request, which is the least latency or more (`MeanAbove`).  `SilentShunned` asks
  besides that no latency is 0: with samples of 0 only, a busy endpoint without an
  answer costs as little as an idle one.

`EngineProofs`:

- `ShedIffOnlyFullAlways`.  Between posts a request of engine A is honest: `~ran /\
  cap` exactly if nothing but full queues is behind it, and a request at a worker has
  run.  A run of engine B has `ran` up exactly if something else is behind it, and
  its state names the last obstacle.
- `AccountedAlways`, `InflightExactAlways`, from one invariant (`AInv`): a release never
  takes a count below 0 because the counts are exact, and they are exact because a
  run holds an endpoint once and a slot is free exactly if its request is nowhere.
  In engine A the request in hand is followed through a step: its slot is taken or
  lifted from the worker it was at, and then it is put at a worker or its slot is put
  back.

`KernelProofs`:

- `ImplementsLifecycle` (`Spec => L!Spec`) and `RetiresIdleAlways`.  Every shutdown and
  halt stops admission and drains in one step and nothing takes that back, so what
  is pending only shrinks from then on; the orchestrator runs in a draining kernel
  only, which is why its steps may follow one another with anything in between.  A
  kernel is halted in the step that disposes of its workers; after that no worker has
  an event, none is respawned and nothing is admitted.  Steps map to `Serve`, `Drain`,
  `Settle`, `Halt` or a stutter by lemmas about four kinds of steps.
- `NothingStrandedAlways`, from `ServedInv`: a worker's line is its ring, read from the
  head, and the queue behind it.  A send makes the line longer at the ring's end or
  the queue's, a reply shortens it at the head and moves one job from the queue to
  the ring, and the clock brings all replies nearer by as much; so the line holds the
  jobs that are at the worker, each once, its replies in order and none due after the
  worker is free.
- `ReweightAlways` and `WeightedSharesAlways`, about `WeightedRandom`.  While Vose's
  construction fills the table, the columns that are still open hold the total on
  average, so a column that is short finds one that is long, and at the end those
  that are left are full; and what is left of an endpoint's column plus what the
  columns filled so far owe it is its share throughout (`Filling`).  Rejection keeps
  the ratios.  The fallback's scan cuts the sum into stretches, one for each endpoint
  that is up, as long as its weight.  A reweight is skipped only when it equals the
  snapshot that was built on, not the shared array.

Only model-checked: the liveness properties (`EverySettles`,
`NoStarvationUnderChurn`, `NeverStranded`, `Quiesces`, `ShutdownEnds`), for fairness
and `ENABLED` are out of the prover's reach; and that the draws of the real generator
serve `NeverDearest` and `ShunsSilent` without the condition their theorems have.

## 6. What is not modelled

- **Diagnostics channels and `liteQueryFetcher`** (`Pool.js`).  The fetcher is a
  stateless adapter over `Pool.run`.  The channels reuse one message object per
  channel unless a publish is nested; no step of a run reads a message, so nothing
  the models speak of depends on it.  It is the one hazard without a property.
- **Stats, narration, renderers, snapshots, detectors** read the system and change
  nothing of it.
- **The terminal front ends and the site build**: keys that call what `Kernel`,
  `Page` and `ScopeDriver` model, and text.
- **Traffic's arrival process and key ranks**: distributions.  `Kernel` and
  `Engine` take any arrival.
- **Worker thread entry points**: compute and answer; modelled from outside.
- **Benchmarks, soak runs, tests**: harnesses around the library.

Simplifications inside the models: `inflight` is an unbounded natural, where the
code wraps at 2^32 (it would take as many simultaneous attempts on one endpoint);
in `Kernel`, a call of `reset` while the orchestrator runs is left out (the page
refuses it then; `Fleet` has resets at any other time); exact fractions stand for floating point, with a slot
of tolerance where a rounding is visible; `Kernel` composes with `Lifecycle`'s
requests, not with `Engine`'s failover.

What a next step could take on: a composition of `Engine`, `Fleet` and `Kernel` in
one instance; the terminal front end's own sequence of boots.
