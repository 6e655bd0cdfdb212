------------------------------ MODULE TwoChoices ------------------------------
(***************************************************************************)
(* P2cBalancer and PeakEwmaBalancer of Pick.js: two distinct random        *)
(* endpoints that are up, of which the cheaper is picked.  P2C's cost is   *)
(* what is in flight; PeakEWMA's is a latency that was learnt from samples *)
(* and decays, read at a clock the caller supplies.  The clock may go      *)
(* backwards, and any of its readings may come with any call.  The caller  *)
(* owns inflight: it counts up after a pick and down when a request ends.  *)
(*                                                                         *)
(* A unit of time is the half-life, so exp(-dt/tau) is 2^-dt.  Latencies   *)
(* are in units of 1/Scale, which Samples and Times keep exact.            *)
(***************************************************************************)
EXTENDS Balancer, Prng, Sequences, FiniteSetsExt, Functions

CONSTANTS
  Strategies,   \* of "P2C" and "PeakEWMA", those to start with
  Seeds,        \* seeds of the generator, as words
  DrawTries,    \* rejected draws before the fallback (64 in the code)
  Redraws,      \* redraws of a second choice that equals the first (32)
  Samples,      \* the latencies a request may take
  Times,        \* the readings of the caller's clock
  Carried,      \* the counts a new balancer may find, after a switch under load
  Scale,        \* units of a latency of 1
  MaxPicks,     \* bound: picks
  MaxSamples    \* bound: samples

ASSUME TwoChoicesAssumption ==
  /\ Strategies \subseteq {"P2C", "PeakEWMA"} /\ Seeds \subseteq Words
  /\ DrawTries \in Nat \ {0} /\ Redraws \in Nat
  /\ Samples \subseteq Nat /\ Times \subseteq Int
  /\ Carried \subseteq [Nodes -> Nat]
  /\ Scale \in Nat \ {0} /\ MaxPicks \in Nat /\ MaxSamples \in Nat

VARIABLES
  strategy,     \* the balancer in use
  rng,          \* the word of _rng
  inflight,     \* inflight[], the caller's
  sampled,      \* the endpoints whose _sampled[] byte is 1
  ewma,         \* _ewma[]
  stamp,        \* _stamp[]
  pool,         \* _samp: the decaying sum and count of all samples, the newest time
  picks,        \* history: picks so far
  log,          \* history: every sample, with the latest time any sample had
                \* had when it came
  last          \* history: the pick of the last step and the clock it read

learnt == <<sampled, ewma, stamp, pool>>
choiceVars == <<baseVars, strategy, rng, inflight, learnt, picks, log, last>>

Never == -100      \* -Number.MAX_VALUE, before every time

NoPick == [at |-> NONE, now |-> Never]

(* A new balancer; an endpoint without a sample reads 1. *)
Bug_Init ==
  /\ BaseInit
  /\ strategy \in Strategies
  /\ rng \in {Seeded(s) : s \in Seeds}
  /\ inflight \in Carried
  /\ sampled = {}
  /\ ewma = [i \in Nodes |-> Scale]
  /\ stamp = [i \in Nodes |-> 0]
  /\ pool = [sum |-> 0, count |-> 0, newest |-> 0]
  /\ picks = 0
  /\ log = <<>>
  /\ last = NoPick
ChoiceInit ==
  /\ BaseInit
  /\ strategy \in Strategies
  /\ rng \in {Seeded(s) : s \in Seeds}
  /\ inflight \in Carried
  /\ sampled = {}
  /\ ewma = [i \in Nodes |-> Scale]
  /\ stamp = [i \in Nodes |-> 0]
  /\ pool = [sum |-> 0, count |-> 0, newest |-> Never]
  /\ picks = 0
  /\ log = <<>>
  /\ last = NoPick

------------------------------------------------------------------------------
(* The random choice.  A draw is an endpoint and the word it leaves.       *)

(* _kthEligible: the endpoint with k others below it that are up. *)
Bug_KthEligible(x) ==
  LET y == Step(x)
      k == Below(y, live)
  IN  [at |-> CHOOSE i \in Nodes : Cardinality({j \in eligible : j < i}) = k, rng |-> y]
KthEligible(x) ==
  LET y == Step(x)
      k == Below(y, live)
  IN  [at |-> CHOOSE i \in eligible : Cardinality({j \in eligible : j < i}) = k, rng |-> y]

(* _draw with an endpoint up: reject those that are down, a bounded number *)
(* of times.                                                               *)
Draw(x) ==
  LET word[n \in 0 .. DrawTries] == IF n = 0 THEN x ELSE Step(word[n-1])
      hits == {n \in 1 .. DrawTries : Below(word[n], N) \in eligible}
  IN  IF hits = {} THEN KthEligible(word[DrawTries])
      ELSE [at |-> Below(word[Min(hits)], N), rng |-> word[Min(hits)]]

(* The second choice: drawn again while it equals the first, a, a bounded  *)
(* number of times.                                                        *)
Bug_Other(a, x) == Draw(x)
Other(a, x) ==
  LET draw[n \in 0 .. Redraws] ==
        IF n = 0 THEN Draw(x)
        ELSE LET d == draw[n-1] IN IF d.at # a THEN d ELSE Draw(d.rng)
  IN  draw[Redraws]

------------------------------------------------------------------------------
(* What an endpoint costs at a reading of the clock, as a fraction.        *)

Clamped(dt) == Max({dt, 0})

(* x * exp(-dt/tau): every half-life halves it. *)
Decayed(x, dt) ==
  LET halved[n \in 0 .. dt] == IF n = 0 THEN x ELSE halved[n-1] \div 2 IN halved[dt]

(* Scale halves without a remainder over the time between two readings.    *)
ASSUME TimesAssumption ==
  \A s, t \in Times : Never < s /\ \A d \in 0 .. t-s-1 : Decayed(Scale, d) % 2 = 0

(* The mean of all samples, 1 before the first. *)
PoolMean == IF pool.count > 0 THEN [n |-> pool.sum, d |-> pool.count]
            ELSE [n |-> 1, d |-> 1]

(* An idle endpoint without a sample costs nothing, a busy one the mean of *)
(* the pool; one with samples its decayed estimate, and while it is busy   *)
(* no less than the time since its last sample.                            *)
Bug_PeakCostNoFloor(i, now) ==
  IF i \notin sampled
  THEN IF inflight[i] = 0 THEN [n |-> 0, d |-> 1]
       ELSE [PoolMean EXCEPT !.n = (inflight[i] + 1) * @]
  ELSE LET dt == Clamped(now - stamp[i])
       IN  [n |-> (inflight[i] + 1) * Decayed(ewma[i], dt), d |-> Scale]
Bug_PeakCostCold(i, now) ==
  IF i \notin sampled THEN [n |-> inflight[i], d |-> 1]
  ELSE LET dt == Clamped(now - stamp[i])
           decayed == Decayed(ewma[i], dt)
           base == IF inflight[i] > 0 THEN Max({decayed, dt * Scale}) ELSE decayed
       IN  [n |-> (inflight[i] + 1) * base, d |-> Scale]
PeakCost(i, now) ==
  IF i \notin sampled
  THEN IF inflight[i] = 0 THEN [n |-> 0, d |-> 1]
       ELSE [PoolMean EXCEPT !.n = (inflight[i] + 1) * @]
  ELSE LET dt == Clamped(now - stamp[i])
           decayed == Decayed(ewma[i], dt)
           base == IF inflight[i] > 0 THEN Max({decayed, dt * Scale}) ELSE decayed
       IN  [n |-> (inflight[i] + 1) * base, d |-> Scale]

Cost(i, now) == IF strategy = "P2C" THEN [n |-> inflight[i], d |-> 1] ELSE PeakCost(i, now)

Cheaper(c1, c2) == c1.n * c2.d < c2.n * c1.d

------------------------------------------------------------------------------
Dispatched(i, now) ==
  /\ inflight' = [inflight EXCEPT ![i] = @ + 1]
  /\ last' = [at |-> i, now |-> now]

(* pick(), pick(now), pickFrom: the cheaper of two, the first of equals;   *)
(* with one endpoint up its only draw.  The caller counts the request.     *)
Pick(now) ==
  /\ picks < MaxPicks
  /\ live > 0
  /\ LET a == Draw(rng)
         b == Other(a.at, a.rng)
     IN  IF live = 1 THEN Dispatched(a.at, now) /\ rng' = a.rng
         ELSE /\ Dispatched(IF Cheaper(Cost(b.at, now), Cost(a.at, now)) THEN b.at ELSE a.at, now)
              /\ rng' = b.rng
  /\ picks' = picks + 1
  /\ UNCHANGED <<baseVars, strategy, learnt, log>>

(* recordRtt, recordRttFrom: the first sample of an endpoint and a peak    *)
(* replace its estimate, any other is blended in.  The sum and the count   *)
(* of the pool decay by the time since the newest sample; a reading that   *)
(* is older than it decays nothing.                                        *)
Bug_RecordUnclamped(i, s, now) ==
  LET v == s * Scale
      kept(x) == IF now >= stamp[i] THEN Decayed(x, now - stamp[i]) ELSE x * 2^(stamp[i] - now)
      aged(x) == Decayed(x, Clamped(now - pool.newest))
  IN  /\ ewma' = [ewma EXCEPT ![i] =
                    IF i \notin sampled \/ v > @ THEN v ELSE kept(@) + v - kept(v)]
      /\ stamp' = [stamp EXCEPT ![i] = now]
      /\ sampled' = sampled \cup {i}
      /\ pool' = [sum |-> aged(pool.sum) + v, count |-> aged(pool.count) + Scale,
                  newest |-> Max({now, pool.newest})]
Record(i, s, now) ==
  LET v == s * Scale
      kept(x) == Decayed(x, Clamped(now - stamp[i]))
      aged(x) == Decayed(x, Clamped(now - pool.newest))
  IN  /\ ewma' = [ewma EXCEPT ![i] =
                    IF i \notin sampled \/ v > @ THEN v ELSE kept(@) + v - kept(v)]
      /\ stamp' = [stamp EXCEPT ![i] = now]
      /\ sampled' = sampled \cup {i}
      /\ pool' = [sum |-> aged(pool.sum) + v, count |-> aged(pool.count) + Scale,
                  newest |-> Max({now, pool.newest})]

(* A request ends: the caller counts it down, and tells PeakEWMA how long  *)
(* it took.                                                                *)
Settle(i, s, now) ==
  /\ inflight[i] > 0
  /\ inflight' = [inflight EXCEPT ![i] = @ - 1]
  /\ IF strategy = "P2C" THEN UNCHANGED <<learnt, log>>
     ELSE /\ Len(log) < MaxSamples
          /\ Record(i, s, now)
          /\ log' = Append(log, [at |-> i, value |-> s,
                                 newest |-> Max({now} \cup {log[k].newest : k \in DOMAIN log})])
  /\ last' = NoPick
  /\ UNCHANGED <<baseVars, strategy, rng, picks>>

SetEligible(i, up) ==
  /\ Flip(i, up)
  /\ last' = NoPick
  /\ UNCHANGED <<strategy, rng, inflight, learnt, picks, log>>

ChoiceNext ==
  \/ \E now \in Times : Pick(now)
  \/ \E i \in Nodes, s \in Samples, now \in Times : Settle(i, s, now)
  \/ \E i \in Nodes, up \in BOOLEAN : SetEligible(i, up)

ChoiceSpec == ChoiceInit /\ [][ChoiceNext]_choiceVars

------------------------------------------------------------------------------

(* No draw, fallback or seed brings the generator to 0, where it would     *)
(* stay and every draw be endpoint 0 (Prng).                               *)
GeneratorAlive == rng # {}

ValuesOf(i) == {log[k].value : k \in {j \in DOMAIN log : log[j].at = i}}

(* An estimate stays between the smallest and the largest latency its      *)
(* endpoint has shown, whatever the clock did: a blend with a weight above *)
(* 1 would leave that range (the clamps of _recordAt).                     *)
EstimatesBounded ==
  \A i \in sampled : ewma[i] >= Min(ValuesOf(i)) * Scale /\ ewma[i] <= Max(ValuesOf(i)) * Scale

(* The pool mean has a sample exactly if some endpoint does. *)
SampledExact == (pool.count > 0) = (sampled # {})

(* The pool's sum and count weigh every sample by its age alone, from the  *)
(* latest time known when it came: readings below 0 and readings that go   *)
(* backwards included (_recordAt's pool mean), and assertConsistent        *)
(* accepts the state.                                                      *)
MeanWeighsByAge ==
  LET weight == [k \in DOMAIN log |-> Decayed(Scale, log[Len(log)].newest - log[k].newest)]
  IN  /\ SampledExact
      /\ pool.count = SumFunction(weight)
      /\ pool.sum = SumFunction([k \in DOMAIN log |-> log[k].value * weight[k]])

(* With two endpoints up, a pick never returns one that costs more than    *)
(* each of the others: two choices that are one would.  The pick is of an  *)
(* endpoint that is up, whenever there is one.                             *)
NeverDearest ==
  [][picks' # picks =>
       /\ last'.at \in eligible
       /\ \/ live = 1
          \/ \E j \in eligible \ {last'.at} :
               ~ Cheaper(Cost(j, last'.now), Cost(last'.at, last'.now))]_choiceVars

(* What PeakEWMA promises, said of what the callers saw and not of its     *)
(* costs.  A busy endpoint that has not answered for longer than the worst *)
(* latency ever seen is passed over when another that is up is idle; and   *)
(* one without any sample is not taken for a fast one once it has work in  *)
(* flight, unless the samples spread as widely as its load.                *)
ShunsSilent ==
  [][(picks' # picks /\ strategy = "PeakEWMA" /\ log # <<>> /\ live = 2) =>
       LET i == last'.at
           j == CHOOSE k \in eligible : k # i
           worst == Max({log[k].value : k \in DOMAIN log})
           best == Min({log[k].value : k \in DOMAIN log})
       IN  (inflight[i] > 0 /\ inflight[j] = 0) =>
             IF i \in sampled
             THEN last'.now - stamp[i] <= worst
             ELSE j \in sampled /\ (inflight[i] + 1) * best < worst]_choiceVars
===============================================================================
