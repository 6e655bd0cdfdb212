------------------------------ MODULE FleetProofs ------------------------------
(***************************************************************************)
(* A half-open worker's probe is one and its flag exact, and only a        *)
(* worker's own failures trip its breaker, for any number of workers, any  *)
(* queue, any threshold and any number of restarts.                        *)
(*                                                                         *)
(* The argument goes by the handlers: each is an operator on the state of  *)
(* one worker, and each keeps WorkerOK, which says of a half-open worker   *)
(* what its queue holds, that a worker is out of the balancer while its    *)
(* probe is out and while its breaker has cooled, and that a closed        *)
(* breaker has counted no more failures than there were in a row.          *)
(*                                                                         *)
(* The second part is about TwoChoices, the balancers that learn from the  *)
(* fleet's answers: an estimate lies between two samples of its endpoint,  *)
(* because halving brings no two numbers further apart, and the pool mean  *)
(* has every sample at its age, because halving is linear where it leaves  *)
(* no remainder.  So what an idle endpoint costs is at most the greatest   *)
(* latency, what a silent one costs is more, and a pick whose two choices  *)
(* are two takes the cheaper.                                              *)
(***************************************************************************)
EXTENDS Fleet, TwoChoices, DataProofs

------------------------------------------------------------------------------
(* The invariant *)

Typed(s) ==
  /\ s \in WorkerState
  /\ Len(s.jobs) <= MaxJobs
  /\ s.worker # "ready" => s.jobs = <<>>
  /\ s.jobs = <<>> => s.hung = "no"

(* One probe, while queues are answered within the cool-down. *)
Probed(s) ==
  /\ s.breaker = "halfOpen" => s.jobs = IF s.probeOut THEN <<"probe">> ELSE <<>>
  /\ s.breaker = "open" /\ s.cooled => s.jobs = <<>>

(* Out of the balancer while the probe is out, or the breaker has cooled.  *)
Withdrawn(s) ==
  /\ s.breaker = "halfOpen" /\ s.probeOut => ~s.up
  /\ s.breaker = "open" /\ s.cooled => ~s.up

Counted(s) == s.breaker = "closed" => s.fails <= s.streak

WorkerOK(s) ==
  /\ Typed(s) /\ Withdrawn(s) /\ Counted(s)
  /\ drainsFirst => Probed(s)

(* A step of a worker trips its breaker on failures in a row only. *)
TripOK(s, t) == s.breaker = "closed" /\ t.breaker = "open" => t.streak = BreakerFailures

Keeps(s, t) == WorkerOK(t) /\ TripOK(s, t)

LEMMA StartedOK == WorkerOK(Started)
  BY FleetAssumption
  DEF Started, WorkerOK, Typed, Withdrawn, Counted, Probed, WorkerState

------------------------------------------------------------------------------
(* The handlers *)

LEMMA DeadOK ==
  ASSUME NEW s, WorkerOK(s)
  PROVE  /\ WorkerOK(Dead(s)) /\ Dead(s).worker = "down"
         /\ Dead(s).jobs = <<>> /\ Dead(s).breaker = s.breaker
<1> DEFINE t == Dead(s)
<1>1. s \in WorkerState
  BY DEF WorkerOK, Typed
<1>2. t \in WorkerState
  <2>1. <<>> \in Seq({"job", "probe"})
    OBVIOUS
  <2>2. [s EXCEPT !.worker = "down", !.hung = "no", !.jobs = <<>>,
                  !.sup = IF s.worker = "starting" THEN Awaited(s, FALSE) ELSE @]
          \in WorkerState
    BY <1>1, <2>1 DEF Awaited, WorkerState
  <2>3. \A r \in WorkerState : [r EXCEPT !.probeOut = FALSE] \in WorkerState
    BY DEF WorkerState
  <2> QED
    BY <2>2, <2>3 DEF Dead, NoVerdict
<1>3. /\ t.worker = "down" /\ t.hung = "no" /\ t.jobs = <<>>
      /\ t.breaker = s.breaker /\ t.fails = s.fails /\ t.cooled = s.cooled
      /\ t.up = s.up /\ t.streak = s.streak
  BY <1>1 DEF Dead, NoVerdict, WorkerState
<1>4. t.probeOut = IF s.breaker = "halfOpen" /\ s.jobs # <<>> THEN FALSE ELSE s.probeOut
  BY <1>1 DEF Dead, NoVerdict, WorkerState
<1> HIDE DEF t
<1>5. Typed(t) /\ Withdrawn(t) /\ Counted(t)
  BY <1>2, <1>3, <1>4, FleetAssumption DEF WorkerOK, Typed, Withdrawn, Counted
<1>6. drainsFirst => Probed(t)
  <2>1. <<"probe">> # <<>>
    OBVIOUS
  <2>2. s.probeOut \in BOOLEAN
    BY <1>1 DEF WorkerState
  <2> QED
    BY <1>3, <1>4, <2>1, <2>2 DEF WorkerOK, Probed
<1>7. WorkerOK(t)
  BY <1>5, <1>6 DEF WorkerOK
<1> QED
  BY <1>3, <1>7 DEF t

LEMMA FaultOK ==
  ASSUME NEW s, WorkerOK(s)
  PROVE  WorkerOK(Fault(s)) /\ Fault(s).breaker = s.breaker
<1> DEFINE t == Fault(s)
<1>1. s \in WorkerState
  BY DEF WorkerOK, Typed
<1>2. t \in WorkerState
  <2>1. s.restarts < MaxRestarts => s.restarts + 1 \in 0 .. MaxRestarts
    BY <1>1, FleetAssumption DEF WorkerState
  <2> QED
    BY <1>1, <2>1 DEF Fault, WorkerState
<1>3. /\ t.hung = s.hung /\ t.jobs = s.jobs
      /\ t.breaker = s.breaker /\ t.fails = s.fails /\ t.cooled = s.cooled
      /\ t.probeOut = s.probeOut /\ t.up = s.up /\ t.streak = s.streak
  BY <1>1 DEF Fault, WorkerState
<1>4. t.worker = s.worker \/ s.worker = "down"
  BY <1>1 DEF Fault, WorkerState
<1> HIDE DEF t
<1>5. Typed(t) /\ Withdrawn(t) /\ Counted(t)
  BY <1>2, <1>3, <1>4 DEF WorkerOK, Typed, Withdrawn, Counted
<1>6. drainsFirst => Probed(t)
  BY <1>3 DEF WorkerOK, Probed
<1>7. WorkerOK(t)
  BY <1>5, <1>6 DEF WorkerOK
<1> QED
  BY <1>3, <1>7 DEF t

LEMMA CoolOK ==
  ASSUME NEW s, WorkerOK(s)
  PROVE  WorkerOK(Cool(s)) /\ (Cool(s).breaker = "open" => s.breaker = "open")
<1> DEFINE t == Cool(s)
<1>1. s \in WorkerState
  BY DEF WorkerOK, Typed
<1>2. t \in WorkerState
  BY <1>1 DEF Cool, WorkerState
<1>3. /\ t.worker = s.worker /\ t.hung = s.hung /\ t.jobs = s.jobs
      /\ t.fails = s.fails /\ t.cooled = s.cooled /\ t.up = s.up /\ t.streak = s.streak
  BY <1>1 DEF Cool, WorkerState
<1>4. \/ t.breaker = s.breaker /\ t.probeOut = s.probeOut
      \/ s.breaker = "open" /\ s.cooled /\ t.breaker = "halfOpen" /\ t.probeOut = FALSE
  BY <1>1 DEF Cool, WorkerState
<1> HIDE DEF t
<1>5. WorkerOK(t) /\ (t.breaker = "open" => s.breaker = "open")
  BY <1>2, <1>3, <1>4 DEF WorkerOK, Typed, Withdrawn, Counted, Probed
<1> QED
  BY <1>5 DEF t

LEMMA WriteOK ==
  ASSUME NEW s, WorkerOK(s)
  PROVE  WorkerOK(Write(s)) /\ Write(s).breaker = s.breaker
  BY FleetAssumption
  DEF Write, Healthy, Admits, WorkerOK, Typed, Withdrawn, Counted, Probed, WorkerState

LEMMA BroughtUpOK ==
  ASSUME NEW s, WorkerOK(s), s.worker = "starting"
  PROVE  WorkerOK(BroughtUp(s)) /\ BroughtUp(s).breaker = s.breaker
<1> DEFINE t == BroughtUp(s)
<1>1. s \in WorkerState /\ s.jobs = <<>> /\ s.hung = "no"
  BY DEF WorkerOK, Typed
<1>2. t \in WorkerState
  <2>1. 0 \in 0 .. BreakerFailures
    BY FleetAssumption
  <2> QED
    BY <1>1, <2>1 DEF BroughtUp, Awaited, WorkerState
<1>3. /\ t.worker = "ready" /\ t.hung = "no" /\ t.jobs = <<>>
      /\ t.breaker = s.breaker /\ t.fails = 0 /\ t.cooled = s.cooled
      /\ t.probeOut = FALSE /\ t.up = s.up /\ t.streak = 0
  BY <1>1 DEF BroughtUp, WorkerState
<1> HIDE DEF t
<1>4. Typed(t) /\ Withdrawn(t) /\ Counted(t)
  BY <1>2, <1>3, FleetAssumption DEF WorkerOK, Typed, Withdrawn, Counted
<1>5. drainsFirst => Probed(t)
  BY <1>3 DEF WorkerOK, Probed
<1>6. WorkerOK(t)
  BY <1>4, <1>5 DEF WorkerOK
<1> QED
  BY <1>3, <1>6 DEF t

LEMMA TickedOK ==
  ASSUME NEW s, WorkerOK(s)
  PROVE  Keeps(s, Ticked(s))
<1>1. WorkerOK(Reap(s)) /\ Reap(s).breaker = s.breaker
  BY DeadOK DEF Reap
<1>2. WorkerOK(Fault(Reap(s))) /\ Fault(Reap(s)).breaker = s.breaker
  BY <1>1, FaultOK
<1>3. /\ WorkerOK(Cool(Fault(Reap(s))))
      /\ Cool(Fault(Reap(s))).breaker = "open" => s.breaker = "open"
  BY <1>2, CoolOK
<1>4. WorkerOK(Ticked(s)) /\ (Ticked(s).breaker = "open" => s.breaker = "open")
  BY <1>3, WriteOK DEF Ticked
<1> QED
  BY <1>4 DEF Keeps, TripOK

(* onDispatch arms the probe of a half-open worker, whose queue is empty:  *)
(* the worker is in the balancer, so no probe is out.                      *)
LEMMA DispatchedOK ==
  ASSUME NEW s, WorkerOK(s), s.up, s.worker = "ready", Len(s.jobs) < MaxJobs,
         NEW mark,
         mark = IF OnDispatch(s).probeOut /\ ~s.probeOut THEN "probe" ELSE "job"
  PROVE  Keeps(s, [OnDispatch(s) EXCEPT !.jobs = Append(@, mark)])
<1> DEFINE u == OnDispatch(s)
           t == [u EXCEPT !.jobs = Append(@, mark)]
<1>1. s \in WorkerState /\ s.probeOut \in BOOLEAN /\ s.up \in BOOLEAN
  BY DEF WorkerOK, Typed, WorkerState
<1>2. u \in WorkerState /\ u.jobs = s.jobs
  BY <1>1 DEF OnDispatch, WorkerState
<1>3. /\ s.jobs \in Seq({"job", "probe"})
      /\ Append(s.jobs, mark) \in Seq({"job", "probe"})
      /\ Len(Append(s.jobs, mark)) <= MaxJobs
      /\ Append(s.jobs, mark) # <<>>
  BY <1>1, FleetAssumption DEF WorkerState
<1>4. t \in WorkerState
  BY <1>2, <1>3 DEF WorkerState
<1>5. /\ t.worker = "ready" /\ t.hung = s.hung /\ t.jobs = Append(s.jobs, mark)
      /\ t.breaker = s.breaker /\ t.fails = s.fails /\ t.cooled = s.cooled
      /\ t.sup = s.sup /\ t.streak = s.streak
  BY <1>1, <1>2 DEF OnDispatch, WorkerState
<1>6. s.breaker = "halfOpen" => ~s.probeOut /\ t.probeOut /\ ~t.up /\ mark = "probe"
  BY <1>1 DEF OnDispatch, WorkerOK, Withdrawn, WorkerState
<1> HIDE DEF t
<1>7. Typed(t)
  BY <1>3, <1>4, <1>5 DEF Typed
<1>8. Withdrawn(t) /\ Counted(t)
  BY <1>1, <1>5, <1>6 DEF WorkerOK, Withdrawn, Counted
<1>9. drainsFirst => Probed(t)
  <2>1. Append(<<>>, "probe") = <<"probe">>
    OBVIOUS
  <2>2. ~(s.breaker = "open" /\ s.cooled)
    BY DEF WorkerOK, Withdrawn
  <2> QED
    BY <1>5, <1>6, <2>1, <2>2 DEF WorkerOK, Probed
<1>10. WorkerOK(t) /\ TripOK(s, t)
  BY <1>5, <1>7, <1>8, <1>9 DEF WorkerOK, TripOK
<1> QED
  BY <1>10 DEF Keeps, t

(* A job that is refused gives the flag back. *)
LEMMA RefusedOK ==
  ASSUME NEW s, WorkerOK(s), s.up
  PROVE  Keeps(s, NoVerdict(OnDispatch(s)))
<1> DEFINE t == NoVerdict(OnDispatch(s))
<1>1. s \in WorkerState /\ s.probeOut \in BOOLEAN
  BY DEF WorkerOK, Typed, WorkerState
<1>2. OnDispatch(s) \in WorkerState
  BY <1>1 DEF OnDispatch, WorkerState
<1>3. t \in WorkerState
  BY <1>2 DEF NoVerdict, WorkerState
<1>4. /\ t.worker = s.worker /\ t.hung = s.hung /\ t.jobs = s.jobs
      /\ t.breaker = s.breaker /\ t.fails = s.fails /\ t.cooled = s.cooled
      /\ t.sup = s.sup /\ t.streak = s.streak
  BY <1>1, <1>2 DEF OnDispatch, NoVerdict, WorkerState
<1>5. s.breaker = "halfOpen" => ~s.probeOut /\ ~t.probeOut
  BY <1>1, <1>2 DEF OnDispatch, NoVerdict, WorkerOK, Withdrawn, WorkerState
<1> HIDE DEF t
<1>6. Typed(t) /\ Counted(t)
  BY <1>3, <1>4 DEF WorkerOK, Typed, Counted
<1>7. Withdrawn(t)
  BY <1>4, <1>5 DEF WorkerOK, Withdrawn
<1>8. drainsFirst => Probed(t)
  BY <1>4, <1>5 DEF WorkerOK, Probed
<1>9. WorkerOK(t) /\ TripOK(s, t)
  BY <1>4, <1>6, <1>7, <1>8 DEF WorkerOK, TripOK
<1> QED
  BY <1>9 DEF Keeps, t

(* The worker's own answer to its oldest job. *)
LEMMA VerdictOK ==
  ASSUME NEW s, WorkerOK(s), s.jobs # <<>>, NEW ok \in BOOLEAN,
         NEW n, n = IF ok THEN 0 ELSE IF s.streak < BreakerFailures THEN s.streak + 1 ELSE s.streak
  PROVE  Keeps(s, Verdict([s EXCEPT !.jobs = Tail(@), !.hung = "no", !.streak = n], ok))
<1> DEFINE r == [s EXCEPT !.jobs = Tail(@), !.hung = "no", !.streak = n]
           t == Verdict(r, ok)
<1>1. /\ s \in WorkerState /\ s.worker = "ready" /\ s.fails \in 0 .. BreakerFailures
      /\ s.streak \in 0 .. BreakerFailures
      /\ s.breaker \in {"closed", "open", "halfOpen"}
  BY DEF WorkerOK, Typed, WorkerState
<1>2. n \in 0 .. BreakerFailures
  BY <1>1, FleetAssumption
<1>3. Tail(s.jobs) \in Seq({"job", "probe"}) /\ Len(Tail(s.jobs)) <= MaxJobs
  <2>1. s.jobs \in Seq({"job", "probe"}) /\ Len(s.jobs) <= MaxJobs /\ MaxJobs \in Nat
    BY <1>1, FleetAssumption DEF WorkerOK, Typed, WorkerState
  <2> QED
    BY <2>1
<1>4. r \in WorkerState
  BY <1>1, <1>2, <1>3 DEF WorkerState
<1>5. /\ r.worker = "ready" /\ r.hung = "no" /\ r.jobs = Tail(s.jobs)
      /\ r.breaker = s.breaker /\ r.fails = s.fails /\ r.cooled = s.cooled
      /\ r.sup = s.sup /\ r.streak = n /\ r.up = s.up /\ r.probeOut = s.probeOut
  BY <1>1 DEF WorkerState
<1>6. drainsFirst => ~(s.breaker = "open" /\ s.cooled)
  BY DEF WorkerOK, Probed
<1> HIDE DEF r
<1>7. ASSUME NEW u, u \in WorkerState,
             u.worker = "ready", u.hung = "no", u.jobs = Tail(s.jobs), u.sup = s.sup
      PROVE  Typed(u)
  BY <1>1, <1>3, <1>7 DEF WorkerOK, Typed
<1>8. CASE s.breaker = "open"
  <2>1. t = r
    BY <1>5, <1>8 DEF Verdict
  <2>2. Typed(r) /\ Withdrawn(r) /\ Counted(r) /\ (drainsFirst => Probed(r))
    BY <1>4, <1>5, <1>6, <1>7, <1>8 DEF WorkerOK, Withdrawn, Counted, Probed
  <2> QED
    BY <1>8, <2>1, <2>2 DEF Keeps, WorkerOK, TripOK, r
<1>9. CASE s.breaker = "halfOpen"
  <2>1. 0 \in 0 .. BreakerFailures
    BY FleetAssumption
  <2>2. t \in WorkerState
    BY <1>4, <1>5, <1>9, <2>1 DEF Verdict, Trip, WorkerState
  <2>3. /\ t.worker = "ready" /\ t.hung = "no" /\ t.jobs = Tail(s.jobs) /\ t.sup = s.sup
        /\ t.streak = n
        /\ \/ t.breaker = "closed" /\ t.fails = 0
           \/ t.breaker = "open" /\ ~t.cooled
    BY <1>4, <1>5, <1>9 DEF Verdict, Trip, WorkerState
  <2> HIDE DEF t
  <2>4. Typed(t) /\ Withdrawn(t) /\ Counted(t) /\ (drainsFirst => Probed(t))
    BY <1>2, <1>7, <2>2, <2>3 DEF Withdrawn, Counted, Probed
  <2>5. Keeps(s, t)
    BY <1>9, <2>4 DEF Keeps, WorkerOK, TripOK
  <2> QED
    BY <2>5 DEF t, r
<1>10. CASE s.breaker = "closed"
  <2>1. s.fails + 1 < BreakerFailures => s.fails + 1 \in 0 .. BreakerFailures
    BY <1>1, FleetAssumption
  <2>2. 0 \in 0 .. BreakerFailures /\ BreakerFailures \in 0 .. BreakerFailures
    BY FleetAssumption
  <2>3. s.fails <= s.streak
    BY <1>10 DEF WorkerOK, Counted
  <2>4. t \in WorkerState
    <3>1. CASE ok
      BY <1>4, <1>5, <1>10, <2>2, <3>1 DEF Verdict, WorkerState
    <3>2. CASE ~ok /\ s.fails + 1 < BreakerFailures
      <4>1. t = [r EXCEPT !.fails = @ + 1]
        BY <1>1, <1>5, <1>10, <3>2, FleetAssumption DEF Verdict
      <4> QED
        BY <1>4, <1>5, <2>1, <3>2, <4>1 DEF WorkerState
    <3>3. CASE ~ok /\ s.fails + 1 >= BreakerFailures
      <4>1. t = Trip([r EXCEPT !.fails = BreakerFailures])
        BY <1>5, <1>10, <3>3 DEF Verdict
      <4> QED
        BY <1>4, <2>2, <4>1 DEF Trip, WorkerState
    <3> QED
      BY <1>1, <3>1, <3>2, <3>3, FleetAssumption
  <2>5. /\ t.worker = "ready" /\ t.hung = "no" /\ t.jobs = Tail(s.jobs) /\ t.sup = s.sup
        /\ t.streak = n
        /\ \/ ok /\ t.breaker = "closed" /\ t.fails = 0
           \/ ~ok /\ t.breaker = "closed" /\ t.fails = s.fails + 1
                  /\ s.fails + 1 < BreakerFailures
           \/ ~ok /\ t.breaker = "open" /\ ~t.cooled /\ s.fails + 1 >= BreakerFailures
    <3>1. CASE ok
      <4>1. t = [r EXCEPT !.fails = 0]
        BY <1>5, <1>10, <3>1 DEF Verdict
      <4> QED
        BY <1>4, <1>5, <1>10, <3>1, <4>1 DEF WorkerState
    <3>2. CASE ~ok /\ s.fails + 1 < BreakerFailures
      <4>1. t = [r EXCEPT !.fails = @ + 1]
        BY <1>1, <1>5, <1>10, <3>2, FleetAssumption DEF Verdict
      <4> QED
        BY <1>4, <1>5, <1>10, <3>2, <4>1 DEF WorkerState
    <3>3. CASE ~ok /\ s.fails + 1 >= BreakerFailures
      <4>1. t = Trip([r EXCEPT !.fails = BreakerFailures])
        BY <1>5, <1>10, <3>3 DEF Verdict
      <4> QED
        BY <1>4, <1>5, <1>10, <3>3, <4>1 DEF Trip, WorkerState
    <3> QED
      BY <1>1, <3>1, <3>2, <3>3, FleetAssumption
  <2> HIDE DEF t
  <2>6. Typed(t) /\ Withdrawn(t) /\ (drainsFirst => Probed(t))
    BY <1>7, <2>4, <2>5 DEF Withdrawn, Probed
  <2>7. Counted(t) /\ TripOK(s, t)
    BY <1>1, <2>3, <2>5, FleetAssumption DEF Counted, TripOK
  <2>8. Keeps(s, t)
    BY <2>6, <2>7 DEF Keeps, WorkerOK
  <2> QED
    BY <2>8 DEF t, r
<1> QED
  BY <1>1, <1>8, <1>9, <1>10

(* A new supervisor and a new breaker, on the thread that is there. *)
LEMMA BuiltOK ==
  ASSUME NEW s, WorkerOK(s), s.tearing > 0 \/ s.late > 0
  PROVE  WorkerOK(Built(s)) /\ Built(s).breaker = "closed"
<1> DEFINE t == Built(s)
<1>1. s \in WorkerState /\ s.streak >= 0
  BY FleetAssumption DEF WorkerOK, Typed, WorkerState
<1>2. 0 \in 0 .. BreakerFailures /\ 0 \in 0 .. MaxRestarts
  BY FleetAssumption
<1>3. s.late + s.tearing - 1 \in Nat
  BY <1>1 DEF WorkerState
<1>4. t \in WorkerState
  BY <1>1, <1>2, <1>3 DEF Built, WorkerState
<1>5. /\ t.worker = s.worker /\ t.jobs = s.jobs /\ t.hung = s.hung
      /\ t.breaker = "closed" /\ t.fails = 0 /\ t.streak = s.streak
  BY <1>1 DEF Built, WorkerState
<1> HIDE DEF t
<1>6. WorkerOK(t)
  BY <1>1, <1>4, <1>5 DEF WorkerOK, Typed, Withdrawn, Counted, Probed
<1> QED
  BY <1>5, <1>6 DEF t

(* The end of a teardown: the respawn replaces what is there, or is        *)
(* refused.                                                                *)
LEMMA BuildOK ==
  ASSUME NEW s, WorkerOK(s), s.tearing > 0 \/ s.late > 0,
         NEW t,
         \/ t = [Dead(Built(s)) EXCEPT !.worker = "starting", !.sup = "starting"]
         \/ t = [Built(s) EXCEPT !.sup = "failed"]
  PROVE  WorkerOK(t) /\ t.breaker = "closed"
<1>1. PICK b : b = Built(s)
  OBVIOUS
<1>2. WorkerOK(b) /\ b.breaker = "closed"
  BY <1>1, BuiltOK
<1>3. PICK d : d = Dead(b)
  OBVIOUS
<1>4. WorkerOK(d) /\ d.breaker = "closed" /\ d.jobs = <<>>
  BY <1>2, <1>3, DeadOK
<1>5. ASSUME NEW r, WorkerOK(r), NEW u,
             \/ r.jobs = <<>> /\ u = [r EXCEPT !.worker = "starting", !.sup = "starting"]
             \/ u = [r EXCEPT !.sup = "failed"]
      PROVE  WorkerOK(u) /\ u.breaker = r.breaker
  <2>1. r \in WorkerState
    BY <1>5 DEF WorkerOK, Typed
  <2>2. u \in WorkerState
    BY <1>5, <2>1 DEF WorkerState
  <2>3. /\ u.jobs = r.jobs /\ u.hung = r.hung /\ u.breaker = r.breaker
        /\ u.fails = r.fails /\ u.streak = r.streak /\ u.cooled = r.cooled
        /\ u.probeOut = r.probeOut /\ u.up = r.up
        /\ u.worker = r.worker \/ r.jobs = <<>>
    BY <1>5, <2>1 DEF WorkerState
  <2> QED
    BY <1>5, <2>2, <2>3 DEF WorkerOK, Typed, Withdrawn, Counted, Probed
<1> QED
  BY <1>1, <1>2, <1>3, <1>4, <1>5

------------------------------------------------------------------------------
(* The steps *)

(* Time that passes for a job, or for an open breaker, and a reset that    *)
(* begins leave the queue and the breaker alone.                           *)
LEMMA FieldOK ==
  ASSUME NEW s, WorkerOK(s), NEW t,
         \/ s.jobs # <<>> /\ t = [s EXCEPT !.hung = "hung"]
         \/ s.hung = "hung" /\ t = [s EXCEPT !.hung = "overdue"]
         \/ /\ s.breaker = "open" /\ ~s.up /\ (drainsFirst => s.jobs = <<>>)
            /\ t = [s EXCEPT !.cooled = TRUE]
         \/ t = [s EXCEPT !.sup = "none", !.tearing = @ + 1]
  PROVE  Keeps(s, t)
<1>1. s \in WorkerState
  BY DEF WorkerOK, Typed
<1>2. t \in WorkerState
  <2>1. s.tearing \in Nat /\ s.tearing + 1 \in Nat
    BY <1>1 DEF WorkerState
  <2>2. t = [s EXCEPT !.sup = "none", !.tearing = @ + 1] => t \in WorkerState
    BY <1>1, <2>1 DEF WorkerState
  <2>3. /\ t = [s EXCEPT !.hung = "hung"] => t \in WorkerState
        /\ t = [s EXCEPT !.hung = "overdue"] => t \in WorkerState
        /\ t = [s EXCEPT !.cooled = TRUE] => t \in WorkerState
    BY <1>1 DEF WorkerState
  <2> QED
    BY <2>2, <2>3
<1>3. /\ t.worker = s.worker /\ t.jobs = s.jobs /\ t.breaker = s.breaker
      /\ t.fails = s.fails /\ t.streak = s.streak
      /\ t.up = s.up /\ t.probeOut = s.probeOut
  BY <1>1 DEF WorkerState
<1>4. /\ t.hung = s.hung \/ s.jobs # <<>>
      /\ t.cooled = s.cooled
         \/ (s.breaker = "open" /\ ~s.up /\ (drainsFirst => s.jobs = <<>>))
  BY <1>1 DEF WorkerOK, Typed, WorkerState
<1>5. Typed(t) /\ Counted(t)
  BY <1>2, <1>3, <1>4 DEF WorkerOK, Typed, Counted
<1>6. Withdrawn(t)
  BY <1>3, <1>4 DEF WorkerOK, Withdrawn
<1>7. drainsFirst => Probed(t)
  BY <1>3, <1>4 DEF WorkerOK, Probed
<1> QED
  BY <1>3, <1>5, <1>6, <1>7 DEF Keeps, WorkerOK, TripOK

IInv ==
  /\ fleet \in [Workers -> WorkerState]
  /\ resets \in 0 .. MaxResets
  /\ drainsFirst \in BOOLEAN
  /\ \A w \in Workers : WorkerOK(fleet[w])

Moves(w) ==
  /\ \E t : fleet' = [fleet EXCEPT ![w] = t] /\ Keeps(fleet[w], t)
  /\ resets' \in 0 .. MaxResets
  /\ UNCHANGED drainsFirst

LEMMA BecomeMoves ==
  ASSUME IInv, NEW w \in Workers, NEW t, Become(w, t), Keeps(fleet[w], t)
  PROVE  Moves(w)
  BY DEF Become, Moves, IInv

LEMMA StepMoves ==
  ASSUME IInv, NEW w \in Workers, WorkerStep(w)
  PROVE  Moves(w)
<1> DEFINE s == fleet[w]
<1>1. WorkerOK(s) /\ MaxResets \in Nat
  BY FleetAssumption DEF IInv
<1>2. CASE Dispatch(w)
  BY <1>1, <1>2, DispatchedOK, BecomeMoves DEF Dispatch
<1>3. CASE Refused(w)
  BY <1>1, <1>3, RefusedOK, BecomeMoves DEF Refused
<1>4. ASSUME NEW ok \in BOOLEAN, Reply(w, ok) PROVE Moves(w)
  BY <1>1, <1>4, VerdictOK, BecomeMoves DEF Reply
<1>5. CASE Die(w)
  <2>1. Keeps(s, Dead(s))
    BY <1>1, DeadOK DEF Keeps, TripOK
  <2> QED
    BY <1>5, <2>1, BecomeMoves DEF Die
<1>6. CASE Hang(w)
  BY <1>1, <1>6, FieldOK, BecomeMoves DEF Hang
<1>7. CASE Overrun(w)
  BY <1>1, <1>7, FieldOK, BecomeMoves DEF Overrun
<1>8. CASE CoolDown(w)
  BY <1>1, <1>8, FieldOK, BecomeMoves DEF CoolDown
<1>9. CASE Tick(w)
  BY <1>1, <1>9, TickedOK, BecomeMoves DEF Tick
<1>10. CASE Restarted(w)
  <2>1. Keeps(s, BroughtUp(s))
    BY <1>1, <1>10, BroughtUpOK DEF Restarted, Keeps, TripOK
  <2> QED
    BY <1>10, <2>1, BecomeMoves DEF Restarted
<1>11. CASE Reset(w)
  <2>1. PICK t : t = [s EXCEPT !.sup = "none", !.tearing = @ + 1]
    OBVIOUS
  <2>2. Keeps(s, t)
    BY <1>1, <2>1, FieldOK
  <2>3. fleet' = [fleet EXCEPT ![w] = t]
    BY <1>11, <2>1 DEF Reset, IInv
  <2>4. resets' \in 0 .. MaxResets /\ UNCHANGED drainsFirst
    BY <1>1, <1>11 DEF Reset, IInv
  <2> QED
    BY <2>2, <2>3, <2>4 DEF Moves
<1>12. CASE Rebuild(w)
  <2>1. PICK t \in {s, Dead(s)} : Build(w, t) /\ (s.tearing > 0 \/ s.late > 0)
    BY <1>12 DEF Rebuild
  <2>2. WorkerOK(t) /\ t.tearing = s.tearing /\ t.late = s.late
    <3>1. s \in WorkerState
      BY <1>1 DEF WorkerOK, Typed
    <3>2. Dead(s).tearing = s.tearing /\ Dead(s).late = s.late
      BY <3>1 DEF Dead, NoVerdict, WorkerState
    <3> QED
      BY <1>1, <2>1, <3>2, DeadOK
  <2>3. PICK u : Become(w, u) /\ WorkerOK(u) /\ u.breaker = "closed"
    BY <2>1, <2>2, BuildOK DEF Build
  <2>4. Keeps(s, u)
    BY <2>3 DEF Keeps, TripOK
  <2> QED
    BY <2>3, <2>4, BecomeMoves
<1> QED
  BY <1>2, <1>3, <1>4, <1>5, <1>6, <1>7, <1>8, <1>9, <1>10, <1>11, <1>12
  DEF WorkerStep

LEMMA MovesKeep ==
  ASSUME IInv, NEW w \in Workers, Moves(w)
  PROVE  /\ IInv'
         /\ \A v \in Workers : TripOK(fleet[v], fleet'[v])
<1>1. PICK t : fleet' = [fleet EXCEPT ![w] = t] /\ Keeps(fleet[w], t)
  BY DEF Moves
<1>2. t \in WorkerState
  BY <1>1 DEF Keeps, WorkerOK, Typed
<1>3. fleet' \in [Workers -> WorkerState]
  BY <1>1, <1>2 DEF IInv
<1>4. \A v \in Workers : fleet'[v] = IF v = w THEN t ELSE fleet[v]
  BY <1>1 DEF IInv
<1>5. \A v \in Workers : TripOK(fleet[v], fleet'[v])
  BY <1>1, <1>4 DEF Keeps, TripOK
<1>6. \A v \in Workers : WorkerOK(fleet[v])'
  BY <1>1, <1>4 DEF Moves, Keeps, IInv, WorkerOK, Typed, Withdrawn, Counted, Probed
<1> QED
  BY <1>3, <1>5, <1>6 DEF Moves, IInv

LEMMA InitOK == Init => IInv
<1> SUFFICES ASSUME Init PROVE IInv
  OBVIOUS
<1>1. WorkerOK(Started) /\ Started \in WorkerState
  BY StartedOK DEF WorkerOK, Typed
<1> QED
  BY <1>1, FleetAssumption DEF Init, IInv

LEMMA NextOK ==
  IInv /\ [Next]_vars =>
    IInv' /\ [\A w \in Workers : TripOK(fleet[w], fleet'[w])]_vars
<1> SUFFICES ASSUME IInv, [Next]_vars
             PROVE  IInv' /\ [\A w \in Workers : TripOK(fleet[w], fleet'[w])]_vars
  OBVIOUS
<1>1. CASE Next
  BY <1>1, StepMoves, MovesKeep DEF Next
<1>2. CASE UNCHANGED vars
  BY <1>2 DEF vars, IInv, WorkerOK, Typed, Withdrawn, Counted, Probed
<1> QED
  BY <1>1, <1>2

LEMMA InvariantImplies == IInv => ProbeTracked
<1> SUFFICES ASSUME IInv PROVE ProbeTracked
  OBVIOUS
<1>1. TypeOK
  BY DEF IInv, TypeOK, WorkerOK, Typed
<1>2. ASSUME NEW w \in Workers, drainsFirst, fleet[w].breaker = "halfOpen"
      PROVE  /\ Len(fleet[w].jobs) <= 1
             /\ fleet[w].probeOut = ("probe" \in Range(fleet[w].jobs))
  <2>1. /\ fleet[w].jobs = IF fleet[w].probeOut THEN <<"probe">> ELSE <<>>
        /\ fleet[w].probeOut \in BOOLEAN
    BY <1>2 DEF IInv, WorkerOK, Probed, WorkerState
  <2>2. "probe" \in Range(<<"probe">>) /\ "probe" \notin Range(<<>>)
    BY DEF Range
  <2>3. Len(<<"probe">>) = 1 /\ Len(<<>>) = 0
    OBVIOUS
  <2> QED
    BY <2>1, <2>2, <2>3
<1> QED
  BY <1>1, <1>2 DEF ProbeTracked, OneProbe

------------------------------------------------------------------------------
(* HalfOpen admits one probe, and its flag is up exactly while the probe   *)
(* is unanswered, for every fleet, queue, threshold and budget, when a     *)
(* queue is answered within the cool-down (fleet.js onDispatch, onResult,  *)
(* _bringUp, tick).                                                        *)
THEOREM ProbeTrackedAlways == Spec => []ProbeTracked
<1>1. Init => IInv
  BY InitOK
<1>2. IInv /\ [Next]_vars => IInv'
  BY NextOK
<1>3. IInv => ProbeTracked
  BY InvariantImplies
<1> QED
  BY <1>1, <1>2, <1>3, PTL DEF Spec

(* Only as many failures in a row as configured, each of them the worker's *)
(* own answer, trip a closed breaker; deaths, full queues and refusals     *)
(* between them never do (fleet.js onResult).                              *)
THEOREM TripsOnVerdictsOnly == Spec => TripsOnVerdicts
<1>1. Init => IInv
  BY InitOK
<1>2. IInv /\ [Next]_vars => IInv'
  BY NextOK
<1>3. IInv /\ [Next]_vars =>
        [\A w \in Workers :
           fleet[w].breaker = "closed" /\ fleet'[w].breaker = "open" =>
             fleet'[w].streak = BreakerFailures]_vars
  BY NextOK DEF TripOK
<1> QED
  BY <1>1, <1>2, <1>3, PTL DEF Spec, TripsOnVerdicts

------------------------------------------------------------------------------
(* TwoChoices: recursions and extremes *)

(* A recursion over 0 .. n that stays in a set has a solution there.       *)
StaysIn(f, n, S) == f \in [(1 .. n) \X S -> S]
Iterate(g, z, n, f) == g[0] = z /\ \A k \in 1 .. n : g[k] = f[<<k, g[k-1]>>]

LEMMA Iterates ==
  ASSUME NEW S, NEW z \in S, NEW n \in Nat, NEW f, StaysIn(f, n, S)
  PROVE  \E g \in [0 .. n -> S] : Iterate(g, z, n, f)
<1> SUFFICES \E g \in [0 .. n -> S] : g[0] = z /\ \A k \in 1 .. n : g[k] = f[<<k, g[k-1]>>]
  BY DEF Iterate
<1> f \in [(1 .. n) \X S -> S]
  BY DEF StaysIn
<1> DEFINE T == {m \in Nat : m <= n => \E g \in [0 .. m -> S] :
                               g[0] = z /\ \A k \in 1 .. m : g[k] = f[<<k, g[k-1]>>]}
<1>1. 0 \in T
  <2>1. PICK g : g = [k \in 0 .. 0 |-> z]
    OBVIOUS
  <2>2. g \in [0 .. 0 -> S] /\ g[0] = z /\ \A k \in 1 .. 0 : g[k] = f[<<k, g[k-1]>>]
    BY <2>1
  <2> QED
    BY <2>2
<1>2. ASSUME NEW m \in T PROVE m + 1 \in T
  <2> SUFFICES ASSUME m + 1 <= n
               PROVE  \E g \in [0 .. m+1 -> S] :
                        g[0] = z /\ \A k \in 1 .. m+1 : g[k] = f[<<k, g[k-1]>>]
    OBVIOUS
  <2>1. m \in Nat /\ m <= n
    OBVIOUS
  <2>2. PICK g \in [0 .. m -> S] : g[0] = z /\ \A k \in 1 .. m : g[k] = f[<<k, g[k-1]>>]
    BY <2>1
  <2>3. PICK v : v = f[<<m+1, g[m]>>]
    OBVIOUS
  <2>4. v \in S
    <3>1. g[m] \in S /\ m + 1 \in 1 .. n
      BY <2>1, <2>2
    <3> QED
      BY <2>3, <3>1
  <2>5. PICK h : h = [k \in 0 .. m+1 |-> IF k = m + 1 THEN v ELSE g[k]]
    OBVIOUS
  <2>6. h \in [0 .. m+1 -> S]
    <3>1. \A k \in 0 .. m+1 : k # m + 1 => k \in 0 .. m
      BY <2>1
    <3> QED
      BY <2>2, <2>4, <2>5, <3>1
  <2>7. h[0] = z
    BY <2>1, <2>2, <2>5
  <2>8. ASSUME NEW k \in 1 .. m+1 PROVE h[k] = f[<<k, h[k-1]>>]
    <3>1. k-1 \in 0 .. m+1 /\ k-1 # m+1 /\ k \in 0 .. m+1 /\ h[k-1] = g[k-1]
      BY <2>1, <2>5
    <3>2. CASE k = m + 1
      BY <2>1, <2>3, <2>5, <3>1, <3>2
    <3>3. CASE k # m + 1
      BY <2>1, <2>2, <2>5, <3>1, <3>3
    <3> QED
      BY <3>2, <3>3
  <2> QED
    BY <2>6, <2>7, <2>8
<1>3. T = Nat
  <2> HIDE DEF T
  <2> QED
    BY <1>1, <1>2, NatInduct DEF T
<1>4. n \in T
  BY <1>3
<1> QED
  BY <1>4

(* What the first value has, and each value has if the one before it does. *)
LEMMA StaysWithin ==
  ASSUME NEW S, NEW n \in Nat, NEW g, g[0] \in S,
         \A k \in 1 .. n : g[k-1] \in S => g[k] \in S
  PROVE  \A k \in 0 .. n : g[k] \in S
<1> DEFINE T == {m \in Nat : m <= n => g[m] \in S}
<1>1. 0 \in T
  OBVIOUS
<1>2. ASSUME NEW m \in T PROVE m + 1 \in T
  <2> SUFFICES ASSUME m + 1 <= n PROVE g[m+1] \in S
    OBVIOUS
  <2>1. m \in Nat /\ g[m] \in S /\ m + 1 \in 1 .. n /\ (m + 1) - 1 = m
    OBVIOUS
  <2> QED
    BY <2>1
<1>3. T = Nat
  <2> HIDE DEF T
  <2> QED
    BY <1>1, <1>2, NatInduct DEF T
<1> QED
  BY <1>3

(* A bound that is reached is the maximum, and so for the minimum.         *)
LEMMA MaxIs ==
  ASSUME NEW S \in SUBSET Int, NEW m \in S, \A y \in S : m >= y
  PROVE  Max(S) = m
<1>1. \A x \in S : (\A y \in S : x >= y) => x = m
  OBVIOUS
<1> QED
  BY <1>1 DEF Max

LEMMA MinIs ==
  ASSUME NEW S \in SUBSET Int, NEW m \in S, \A y \in S : m <= y
  PROVE  Min(S) = m
<1>1. \A x \in S : (\A y \in S : x <= y) => x = m
  OBVIOUS
<1> QED
  BY <1>1 DEF Min

LEMMA MaxTwo ==
  ASSUME NEW a \in Int, NEW b \in Int
  PROVE  Max({a, b}) = IF a >= b THEN a ELSE b
  BY MaxIs

------------------------------------------------------------------------------
(* TwoChoices: halving *)

(* What the recursion of Decayed solves: d halvings of x, each cut to a    *)
(* whole number.                                                           *)
Halved(g, x, d) == g = [n \in 0 .. d |-> IF n = 0 THEN x ELSE g[n-1] \div 2]

(* It has a solution, and Decayed is its last value.                       *)
LEMMA HalvedIs ==
  ASSUME NEW x \in Nat, NEW d \in Nat
  PROVE  \E g \in [0 .. d -> Nat] :
           /\ g[0] = x /\ \A n \in 1 .. d : g[n] = g[n-1] \div 2
           /\ Decayed(x, d) = g[d]
<1>1. PICK f : f = [p \in (1 .. d) \X Nat |-> p[2] \div 2]
  OBVIOUS
<1>2. f \in [(1 .. d) \X Nat -> Nat]
  BY <1>1
<1>3. PICK h \in [0 .. d -> Nat] : h[0] = x /\ \A k \in 1 .. d : h[k] = f[<<k, h[k-1]>>]
  <2>1. StaysIn(f, d, Nat)
    BY <1>2 DEF StaysIn
  <2>2. \E h \in [0 .. d -> Nat] : Iterate(h, x, d, f)
    BY <2>1, Iterates
  <2> QED
    BY <2>2 DEF Iterate
<1>4. Halved(h, x, d)
  <2>1. ASSUME NEW k \in 0 .. d PROVE h[k] = IF k = 0 THEN x ELSE h[k-1] \div 2
    <3>1. CASE k = 0
      BY <1>3, <3>1
    <3>2. CASE k # 0
      <4>1. k \in 1 .. d /\ k-1 \in 0 .. d
        BY <3>2
      <4>2. h[k-1] \in Nat
        BY <4>1
      <4>3. f[<<k, h[k-1]>>] = h[k-1] \div 2
        BY <1>1, <4>1, <4>2
      <4> QED
        BY <1>3, <3>2, <4>1, <4>3
    <3> QED
      BY <3>1, <3>2
  <2> QED
    BY <2>1 DEF Halved
<1>5. PICK g : g = CHOOSE e : Halved(e, x, d)
  OBVIOUS
<1>6. Halved(g, x, d)
  BY <1>4, <1>5
<1>7. /\ DOMAIN g = 0 .. d /\ g[0] = x /\ g = [n \in 0 .. d |-> g[n]]
      /\ \A n \in 1 .. d : g[n] = g[n-1] \div 2
  BY <1>6 DEF Halved
<1>8. \A n \in 0 .. d : g[n] \in Nat
  <2>1. ASSUME NEW n \in 1 .. d, g[n-1] \in Nat PROVE g[n] \in Nat
    <3>1. g[n] = g[n-1] \div 2
      BY <1>7
    <3> QED
      BY <2>1, <3>1
  <2> QED
    BY <1>7, <2>1, StaysWithin
<1>9. g \in [0 .. d -> Nat]
  BY <1>7, <1>8
<1>10. Decayed(x, d) = g[d]
  BY <1>5 DEF Decayed, Halved
<1> QED
  BY <1>7, <1>9, <1>10

(* So Decayed may be read step by step: nothing has decayed at once, and a *)
(* half-life more halves what was left.                                    *)
LEMMA DecayStep ==
  ASSUME NEW x \in Nat
  PROVE  /\ Decayed(x, 0) = x
         /\ \A d \in Nat : Decayed(x, d) \in Nat /\ Decayed(x, d+1) = Decayed(x, d) \div 2
<1>1. Decayed(x, 0) = x
  BY HalvedIs
<1>2. ASSUME NEW d \in Nat
      PROVE  Decayed(x, d) \in Nat /\ Decayed(x, d+1) = Decayed(x, d) \div 2
  <2>1. PICK g \in [0 .. d -> Nat] : /\ g[0] = x /\ \A n \in 1 .. d : g[n] = g[n-1] \div 2
                                     /\ Decayed(x, d) = g[d]
    BY HalvedIs
  <2>2. PICK h \in [0 .. d+1 -> Nat] :
          /\ h[0] = x /\ \A n \in 1 .. d+1 : h[n] = h[n-1] \div 2
          /\ Decayed(x, d+1) = h[d+1]
    <3>1. d + 1 \in Nat
      OBVIOUS
    <3> QED
      BY <3>1, HalvedIs
  <2> DEFINE T == {m \in Nat : m <= d => g[m] = h[m]}
  <2>3. T = Nat
    <3>1. 0 \in T
      BY <2>1, <2>2
    <3>2. ASSUME NEW m \in T PROVE m + 1 \in T
      <4> SUFFICES ASSUME m + 1 <= d PROVE g[m+1] = h[m+1]
        OBVIOUS
      <4>1. /\ m \in Nat /\ g[m] = h[m] /\ (m + 1) - 1 = m
            /\ m + 1 \in 1 .. d /\ m + 1 \in 1 .. d+1
        OBVIOUS
      <4>2. g[m+1] = g[m] \div 2 /\ h[m+1] = h[m] \div 2
        BY <2>1, <2>2, <4>1
      <4> QED
        BY <4>1, <4>2
    <3> HIDE DEF T
    <3> QED
      BY <3>1, <3>2, NatInduct DEF T
  <2>4. g[d] = h[d]
    <3>1. d \in T
      BY <2>3
    <3> QED
      BY <3>1
  <2>5. d + 1 \in 1 .. d+1 /\ (d + 1) - 1 = d
    OBVIOUS
  <2>6. h[d+1] = h[d] \div 2
    BY <2>2, <2>5
  <2> QED
    BY <2>1, <2>2, <2>4, <2>6
<1> QED
  BY <1>1, <1>2

LEMMA DecayNat ==
  ASSUME NEW x \in Nat, NEW d \in Nat
  PROVE  Decayed(x, d) \in Nat
  BY DecayStep

(* Halving keeps the order and brings no two numbers further apart.        *)
LEMMA DecayContracts ==
  ASSUME NEW x \in Nat, NEW y \in Nat, x <= y, NEW d \in Nat
  PROVE  Decayed(x, d) <= Decayed(y, d) /\ Decayed(y, d) - Decayed(x, d) <= y - x
<1> DEFINE T == {m \in Nat : /\ Decayed(x, m) <= Decayed(y, m)
                             /\ Decayed(y, m) - Decayed(x, m) <= y - x}
<1>1. 0 \in T
  <2>1. Decayed(x, 0) = x /\ Decayed(y, 0) = y
    BY DecayStep
  <2> QED
    BY <2>1
<1>2. ASSUME NEW m \in T PROVE m + 1 \in T
  <2>1. PICK a \in Nat, b \in Nat : a = Decayed(x, m) /\ b = Decayed(y, m)
    BY DecayStep
  <2>2. a <= b /\ b - a <= y - x
    BY <2>1
  <2>3. Decayed(x, m+1) = a \div 2 /\ Decayed(y, m+1) = b \div 2
    BY <2>1, DecayStep
  <2>4. a \div 2 <= b \div 2 /\ b \div 2 - a \div 2 <= b - a
    BY <2>2
  <2>5. a \div 2 \in Nat /\ b \div 2 \in Nat
    OBVIOUS
  <2> QED
    BY <2>2, <2>3, <2>4, <2>5
<1>3. T = Nat
  <2> HIDE DEF T
  <2> QED
    BY <1>1, <1>2, NatInduct DEF T
<1> QED
  BY <1>3

(* Decaying for a while and then for another is decaying for both.         *)
LEMMA DecayAdds ==
  ASSUME NEW x \in Nat, NEW a \in Nat, NEW b \in Nat
  PROVE  Decayed(x, a + b) = Decayed(Decayed(x, a), b)
<1> DEFINE T == {m \in Nat : Decayed(x, a + m) = Decayed(Decayed(x, a), m)}
<1>1. Decayed(x, a) \in Nat
  BY DecayStep
<1>2. 0 \in T
  <2>1. a + 0 = a
    OBVIOUS
  <2> QED
    BY <1>1, <2>1, DecayStep
<1>3. ASSUME NEW m \in T PROVE m + 1 \in T
  <2>1. a + (m + 1) = (a + m) + 1 /\ a + m \in Nat /\ m \in Nat
    OBVIOUS
  <2>2. Decayed(x, a + (m + 1)) = Decayed(x, a + m) \div 2
    BY <2>1, DecayStep
  <2>3. Decayed(Decayed(x, a), m + 1) = Decayed(Decayed(x, a), m) \div 2
    BY <1>1, <2>1, DecayStep
  <2> QED
    BY <2>1, <2>2, <2>3
<1>4. T = Nat
  <2> HIDE DEF T
  <2> QED
    BY <1>2, <1>3, NatInduct DEF T
<1> QED
  BY <1>4

(* d halvings of x leave no remainder.                                     *)
Halves(x, d) == \A e \in 0 .. d-1 : Decayed(x, e) % 2 = 0

(* What halves exactly for a while and another goes on to after the first. *)
LEMMA HalvesLater ==
  ASSUME NEW x \in Nat, NEW a \in Nat, NEW b \in Nat, Halves(x, a + b)
  PROVE  Halves(Decayed(x, a), b)
<1> SUFFICES ASSUME NEW e \in 0 .. b-1 PROVE Decayed(Decayed(x, a), e) % 2 = 0
  BY DEF Halves
<1>1. e \in Nat /\ a + e \in 0 .. (a + b)-1
  OBVIOUS
<1> QED
  BY <1>1, DecayAdds DEF Halves

(* Nothing decays to nothing.                                              *)
LEMMA DecayZero ==
  ASSUME NEW d \in Nat
  PROVE  Decayed(0, d) = 0 /\ Halves(0, d)
<1> DEFINE T == {m \in Nat : Decayed(0, m) = 0}
<1>1. 0 \in T
  BY DecayStep
<1>2. ASSUME NEW m \in T PROVE m + 1 \in T
  BY DecayStep
<1>3. T = Nat
  <2> HIDE DEF T
  <2> QED
    BY <1>1, <1>2, NatInduct DEF T
<1>4. \A m \in Nat : Decayed(0, m) = 0
  BY <1>3
<1> QED
  BY <1>4 DEF Halves

(* Where it leaves no remainder, halving is linear.                        *)
LEMMA DecaySum ==
  ASSUME NEW x \in Nat, NEW y \in Nat, NEW d \in Nat, Halves(x, d), Halves(y, d)
  PROVE  Decayed(x + y, d) = Decayed(x, d) + Decayed(y, d) /\ Halves(x + y, d)
<1> DEFINE T == {m \in Nat : m <= d => Decayed(x + y, m) = Decayed(x, m) + Decayed(y, m)}
<1>1. 0 \in T
  <2>1. x + y \in Nat
    OBVIOUS
  <2> QED
    BY <2>1, DecayStep
<1>2. ASSUME NEW m \in T PROVE m + 1 \in T
  <2> SUFFICES ASSUME m + 1 <= d
               PROVE  Decayed(x + y, m+1) = Decayed(x, m+1) + Decayed(y, m+1)
    OBVIOUS
  <2>1. m \in Nat /\ m \in 0 .. d-1 /\ x + y \in Nat
    OBVIOUS
  <2>2. PICK a \in Nat, b \in Nat : a = Decayed(x, m) /\ b = Decayed(y, m)
    BY DecayStep
  <2>3. a % 2 = 0 /\ b % 2 = 0
    BY <2>1, <2>2 DEF Halves
  <2>4. Decayed(x + y, m) = a + b
    BY <2>1, <2>2
  <2>5. /\ Decayed(x, m+1) = a \div 2 /\ Decayed(y, m+1) = b \div 2
        /\ Decayed(x + y, m+1) = (a + b) \div 2
    BY <2>1, <2>2, <2>4, DecayStep
  <2>6. (a + b) \div 2 = a \div 2 + b \div 2
    BY <2>3
  <2> QED
    BY <2>5, <2>6
<1>3. T = Nat
  <2> HIDE DEF T
  <2> QED
    BY <1>1, <1>2, NatInduct DEF T
<1>4. \A m \in 0 .. d : m \in T
  BY <1>3
<1>5. \A m \in 0 .. d : Decayed(x + y, m) = Decayed(x, m) + Decayed(y, m)
  BY <1>4
<1>6. Halves(x + y, d)
  <2> SUFFICES ASSUME NEW e \in 0 .. d-1 PROVE Decayed(x + y, e) % 2 = 0
    BY DEF Halves
  <2>1. PICK a \in Nat, b \in Nat : a = Decayed(x, e) /\ b = Decayed(y, e)
    <3>1. e \in Nat
      OBVIOUS
    <3> QED
      BY <3>1, DecayNat
  <2>2. a % 2 = 0 /\ b % 2 = 0
    BY <2>1 DEF Halves
  <2>3. Decayed(x + y, e) = a + b
    BY <1>5, <2>1
  <2> QED
    BY <2>2, <2>3
<1> QED
  BY <1>5, <1>6

(* A multiple of what halves exactly does too, and decays with it.         *)
LEMMA DecayScale ==
  ASSUME NEW x \in Nat, NEW k \in Nat, NEW d \in Nat, Halves(x, d)
  PROVE  k * x \in Nat /\ Decayed(k * x, d) = k * Decayed(x, d) /\ Halves(k * x, d)
<1> DEFINE T == {m \in Nat : /\ m * x \in Nat /\ Halves(m * x, d)
                             /\ Decayed(m * x, d) = m * Decayed(x, d)}
<1>1. Decayed(x, d) \in Nat
  BY DecayStep
<1>2. 0 \in T
  <2>1. 0 * x = 0 /\ 0 * Decayed(x, d) = 0
    BY <1>1
  <2> QED
    BY <2>1, DecayZero
<1>3. ASSUME NEW m \in T PROVE m + 1 \in T
  <2>1. PICK y \in Nat, u \in Nat : y = m * x /\ u = Decayed(x, d)
    BY <1>1
  <2>2. Halves(y, d) /\ Decayed(y, d) = m * u /\ m \in Nat
    BY <2>1
  <2>3. (m + 1) * x = y + x /\ (m + 1) * u = m * u + u
    BY <2>1
  <2>4. Halves(y + x, d) /\ Decayed(y + x, d) = m * u + u
    BY <2>1, <2>2, DecaySum
  <2> QED
    BY <2>1, <2>3, <2>4
<1>4. T = Nat
  <2> HIDE DEF T
  <2> QED
    BY <1>2, <1>3, NatInduct DEF T
<1>5. k \in T
  BY <1>4
<1> QED
  BY <1>5

(* A total of what halves exactly decays as its terms do.                  *)
LEMMA DecayTotal ==
  ASSUME NEW S, IsFiniteSet(S), NEW f, NEW g, NEW d \in Nat,
         \A x \in S : f[x] \in Nat /\ Halves(f[x], d) /\ g[x] = Decayed(f[x], d)
  PROVE  /\ SumFunctionOnSet(f, S) \in Nat
         /\ Decayed(SumFunctionOnSet(f, S), d) = SumFunctionOnSet(g, S)
<1> DEFINE F == {T \in SUBSET S : /\ SumFunctionOnSet(f, T) \in Nat
                                  /\ Halves(SumFunctionOnSet(f, T), d)
                                  /\ Decayed(SumFunctionOnSet(f, T), d)
                                       = SumFunctionOnSet(g, T)}
<1>1. {} \in F
  BY SumEmpty, DecayZero
<1>2. ASSUME NEW T \in SUBSET S, NEW z \in S, T \in F, z \notin T PROVE T \cup {z} \in F
  <2>1. PICK y \in Nat, v \in Nat : y = SumFunctionOnSet(f, T) /\ v = f[z]
    BY <1>2
  <2>2. Halves(y, d) /\ Decayed(y, d) = SumFunctionOnSet(g, T)
    BY <1>2, <2>1
  <2>3. Halves(v, d) /\ g[z] = Decayed(v, d)
    BY <2>1
  <2>4. SumFunctionOnSet(f, T \cup {z}) = y + v
    <3>1. \A x \in S : f[x] \in Int
      OBVIOUS
    <3> QED
      BY <1>2, <2>1, <3>1, SumAddWithin
  <2>5. SumFunctionOnSet(g, T \cup {z}) = SumFunctionOnSet(g, T) + g[z]
    <3>1. \A x \in S : g[x] \in Nat
      BY DecayNat
    <3> QED
      BY <1>2, <3>1, SumAddWithin
  <2>6. Halves(y + v, d) /\ Decayed(y + v, d) = Decayed(y, d) + Decayed(v, d)
    BY <2>2, <2>3, DecaySum
  <2> QED
    BY <2>1, <2>2, <2>3, <2>4, <2>5, <2>6
<1>3. S \in F
  <2> HIDE DEF F
  <2> QED
    BY <1>1, <1>2, SetInduct
<1> QED
  BY <1>3

------------------------------------------------------------------------------
(* TwoChoices: drawing *)

(* A word scaled to n is below n, whatever the word (Prng.nextBelow).      *)
LEMMA BelowBounded ==
  ASSUME NEW x, NEW n \in Nat \ {0}
  PROVE  Below(x, n) \in 0 .. n-1
<1> DEFINE Top(g) == g = [b \in -1 .. Width-1 |->
                            IF b = -1 THEN 0 ELSE (g[b-1] + IF b \in x THEN n ELSE 0) \div 2]
<1>1. Below(x, n) = (CHOOSE g : Top(g))[Width-1]
  BY DEF Below
<1>2. \E g : Top(g)
  <2>1. PICK f : f = [p \in (1 .. Width) \X Nat |->
                        (p[2] + IF p[1]-1 \in x THEN n ELSE 0) \div 2]
    OBVIOUS
  <2>2. StaysIn(f, Width, Nat)
    <3>1. \A p \in (1 .. Width) \X Nat : f[p] \in Nat
      <4> SUFFICES ASSUME NEW p \in (1 .. Width) \X Nat PROVE f[p] \in Nat
        OBVIOUS
      <4>1. p[2] \in Nat /\ (IF p[1]-1 \in x THEN n ELSE 0) \in Nat
        OBVIOUS
      <4>2. PICK s \in Nat : s = p[2] + IF p[1]-1 \in x THEN n ELSE 0
        BY <4>1
      <4>3. f[p] = s \div 2
        BY <2>1, <4>2
      <4> QED
        BY <4>3
    <3> QED
      BY <2>1, <3>1 DEF StaysIn
  <2>3. PICK h \in [0 .. Width -> Nat] : Iterate(h, 0, Width, f)
    <3>1. Width \in Nat
      BY DEF Width
    <3> QED
      BY <2>2, <3>1, Iterates
  <2>4. h[0] = 0 /\ \A k \in 1 .. Width : h[k] = f[<<k, h[k-1]>>]
    BY <2>3 DEF Iterate
  <2>5. PICK g : g = [b \in -1 .. Width-1 |-> h[b+1]]
    OBVIOUS
  <2>6. ASSUME NEW b \in -1 .. Width-1
        PROVE  g[b] = IF b = -1 THEN 0 ELSE (g[b-1] + IF b \in x THEN n ELSE 0) \div 2
    <3>1. CASE b = -1
      BY <2>4, <2>5, <3>1
    <3>2. CASE b # -1
      <4>1. /\ b + 1 \in 1 .. Width /\ (b + 1) - 1 = b /\ b \in 0 .. Width
            /\ b - 1 \in -1 .. Width-1 /\ (b - 1) + 1 = b
        BY <3>2 DEF Width
      <4>2. g[b] = h[b+1] /\ g[b-1] = h[b]
        BY <2>5, <4>1
      <4>3. h[b+1] = f[<<b+1, h[b]>>] /\ h[b] \in Nat
        BY <2>4, <4>1
      <4>4. f[<<b+1, h[b]>>] = (h[b] + IF b \in x THEN n ELSE 0) \div 2
        <5>1. <<b+1, h[b]>> \in (1 .. Width) \X Nat
          BY <4>1, <4>3
        <5> QED
          BY <2>1, <4>1, <5>1
      <4> QED
        BY <3>2, <4>2, <4>3, <4>4
    <3> QED
      BY <3>1, <3>2
  <2>7. Top(g)
    <3>1. DOMAIN g = -1 .. Width-1 /\ g = [b \in -1 .. Width-1 |-> g[b]]
      BY <2>5
    <3> QED
      BY <2>6, <3>1
  <2> QED
    BY <2>7
<1>3. PICK g : g = (CHOOSE e : Top(e)) /\ Top(g)
  BY <1>2
<1>4. /\ g[-1] = 0
      /\ \A b \in 0 .. Width-1 : g[b] = (g[b-1] + IF b \in x THEN n ELSE 0) \div 2
  <2>1. Top(g)
    BY <1>3
  <2>2. \A b \in -1 .. Width-1 :
          g[b] = IF b = -1 THEN 0 ELSE (g[b-1] + IF b \in x THEN n ELSE 0) \div 2
    BY <2>1
  <2>3. -1 \in -1 .. Width-1 /\ \A b \in 0 .. Width-1 : b \in -1 .. Width-1 /\ b # -1
    BY DEF Width
  <2> QED
    BY <2>2, <2>3
<1>5. PICK h : h = [k \in 0 .. Width |-> g[k-1]]
  OBVIOUS
<1>6. \A k \in 0 .. Width : h[k] \in 0 .. n-1
  <2>1. h[0] \in 0 .. n-1 /\ Width \in Nat
    BY <1>4, <1>5 DEF Width
  <2>2. ASSUME NEW k \in 1 .. Width, h[k-1] \in 0 .. n-1 PROVE h[k] \in 0 .. n-1
    <3>1. /\ k-1 \in 0 .. Width-1 /\ k-1 \in 0 .. Width /\ k \in 0 .. Width
      BY DEF Width
    <3>2. h[k-1] = g[(k-1)-1] /\ h[k] = g[k-1]
      BY <1>5, <3>1
    <3>3. PICK a \in 0 .. n-1 : a = h[k-1]
      BY <2>2
    <3>4. PICK c \in 0 .. n : c = IF k-1 \in x THEN n ELSE 0
      OBVIOUS
    <3>5. h[k] = (a + c) \div 2
      BY <1>4, <3>1, <3>2, <3>3, <3>4
    <3> QED
      BY <3>5
  <2> QED
    BY <2>1, <2>2, StaysWithin
<1>7. g[Width-1] \in 0 .. n-1
  BY <1>5, <1>6 DEF Width
<1> QED
  BY <1>1, <1>3, <1>7

(* There is an endpoint that is up with k others below it.                 *)
LEMMA KthExists ==
  ASSUME eligible \in SUBSET Nodes, live = Cardinality(eligible), NEW k \in 0 .. live-1
  PROVE  \E i \in eligible : Cardinality({j \in eligible : j < i}) = k
<1> DEFINE few(m) == {b \in eligible : Cardinality({c \in eligible : c < b}) < m}
<1>1. N \in Nat /\ eligible \in SUBSET (0 .. N-1)
  BY CapacityAssumption DEF Nodes
<1>2. live \in Nat /\ k \in Nat /\ k + 1 \in Nat /\ k <= live /\ k + 1 <= live
      /\ IsFiniteSet(eligible)
  <2>1. live \in 0 .. N /\ IsFiniteSet(eligible)
    BY <1>1, CountInRange
  <2> QED
    BY <2>1
<1>3. Cardinality(few(k)) = k /\ Cardinality(few(k + 1)) = k + 1
  BY <1>1, <1>2, LeastCount
<1>4. \A i \in eligible : Cardinality({c \in eligible : c < i}) \in Nat
  <2> SUFFICES ASSUME NEW i \in eligible PROVE Cardinality({c \in eligible : c < i}) \in Nat
    OBVIOUS
  <2>1. {c \in eligible : c < i} \in SUBSET (0 .. N-1)
    BY <1>1
  <2> QED
    BY <1>1, <2>1, CountInRange
<1>5. few(k + 1) # few(k)
  <2> HIDE DEF few
  <2>1. k # k + 1
    BY <1>2
  <2> QED
    BY <1>3, <2>1
<1>6. \A i \in few(k) : i \in few(k + 1)
  BY <1>2, <1>4
<1>7. PICK i \in few(k + 1) : i \notin few(k)
  BY <1>5, <1>6
<1>8. PICK c \in Nat : c = Cardinality({j \in eligible : j < i})
  BY <1>4
<1>9. c < k + 1 /\ ~(c < k)
  BY <1>7, <1>8
<1>10. c = k
  BY <1>2, <1>9
<1> QED
  BY <1>8, <1>10

(* What a draw may be: an endpoint that is up, and a word that is not 0.   *)
Drawn == [at : eligible, rng : Words \ {{}}]

(* The fallback of a draw finds an endpoint that is up (_kthEligible).     *)
LEMMA KthDrawn ==
  ASSUME eligible \in SUBSET Nodes, live = Cardinality(eligible), live > 0,
         NEW x \in Words \ {{}}
  PROVE  KthEligible(x) \in Drawn
<1>1. Step(x) \in Words \ {{}}
  BY NeverStuck
<1>2. live \in Nat \ {0}
  <2>1. N \in Nat /\ eligible \in SUBSET (0 .. N-1)
    BY CapacityAssumption DEF Nodes
  <2>2. live \in 0 .. N
    BY <2>1, CountInRange
  <2> QED
    BY <2>1, <2>2
<1>3. PICK k \in 0 .. live-1 : k = Below(Step(x), live)
  BY <1>2, BelowBounded
<1>4. \E i \in eligible : Cardinality({j \in eligible : j < i}) = k
  BY KthExists
<1>5. KthEligible(x) =
        [at |-> CHOOSE i \in eligible : Cardinality({j \in eligible : j < i}) = k,
         rng |-> Step(x)]
  BY <1>3 DEF KthEligible
<1> QED
  BY <1>1, <1>4, <1>5 DEF Drawn

(* The words of a draw: the recursion Draw opens with.                     *)
Stepped(g, x) == g = [n \in 0 .. DrawTries |-> IF n = 0 THEN x ELSE Step(g[n-1])]

LEMMA DrawUnfold ==
  ASSUME NEW x
  PROVE  Draw(x) =
           LET word == CHOOSE g : Stepped(g, x)
               hits == {n \in 1 .. DrawTries : Below(word[n], N) \in eligible}
           IN  IF hits = {} THEN KthEligible(word[DrawTries])
               ELSE [at |-> Below(word[Min(hits)], N), rng |-> word[Min(hits)]]
  BY DEF Draw, Stepped

(* A draw returns an endpoint that is up, by a hit or by the fallback      *)
(* (_draw).                                                                *)
LEMMA DrawDrawn ==
  ASSUME eligible \in SUBSET Nodes, live = Cardinality(eligible), live > 0,
         NEW x \in Words \ {{}}
  PROVE  Draw(x) \in Drawn
<1> DEFINE W == Words \ {{}}
<1>1. DrawTries \in Nat /\ \A y \in W : Step(y) \in W
  BY TwoChoicesAssumption, NeverStuck
<1>2. \E g : Stepped(g, x)
  <2>1. PICK f : f = [p \in (1 .. DrawTries) \X W |-> Step(p[2])]
    OBVIOUS
  <2>2. StaysIn(f, DrawTries, W)
    <3>1. \A p \in (1 .. DrawTries) \X W : p[2] \in W
      OBVIOUS
    <3>2. \A p \in (1 .. DrawTries) \X W : f[p] \in W
      BY <1>1, <2>1, <3>1
    <3> HIDE DEF W
    <3> QED
      BY <2>1, <3>2 DEF StaysIn
  <2> HIDE DEF W
  <2>3. PICK h \in [0 .. DrawTries -> W] : Iterate(h, x, DrawTries, f)
    <3>1. x \in W
      BY DEF W
    <3> QED
      BY <1>1, <2>2, <3>1, Iterates
  <2>4. h[0] = x /\ \A k \in 1 .. DrawTries : h[k] = f[<<k, h[k-1]>>]
    BY <2>3 DEF Iterate
  <2>5. ASSUME NEW k \in 0 .. DrawTries PROVE h[k] = IF k = 0 THEN x ELSE Step(h[k-1])
    <3>1. CASE k = 0
      BY <2>4, <3>1
    <3>2. CASE k # 0
      <4>1. k \in 1 .. DrawTries /\ k-1 \in 0 .. DrawTries
        BY <1>1, <3>2
      <4>2. <<k, h[k-1]>> \in (1 .. DrawTries) \X W
        BY <4>1
      <4>3. f[<<k, h[k-1]>>] = Step(h[k-1])
        BY <2>1, <4>2
      <4> QED
        BY <2>4, <3>2, <4>1, <4>3
    <3> QED
      BY <3>1, <3>2
  <2>6. h = [n \in 0 .. DrawTries |-> IF n = 0 THEN x ELSE Step(h[n-1])]
    BY <2>5
  <2> QED
    BY <2>6 DEF Stepped
<1>3. PICK g : g = (CHOOSE e : Stepped(e, x)) /\ Stepped(g, x)
  BY <1>2
<1>4. \A n \in 0 .. DrawTries : g[n] \in W
  <2>1. g[0] = x /\ \A n \in 1 .. DrawTries : g[n] = Step(g[n-1])
    <3>1. \A n \in 0 .. DrawTries : g[n] = IF n = 0 THEN x ELSE Step(g[n-1])
      BY <1>3 DEF Stepped
    <3>2. 0 \in 0 .. DrawTries /\ \A n \in 1 .. DrawTries : n \in 0 .. DrawTries /\ n # 0
      BY <1>1
    <3> QED
      BY <3>1, <3>2
  <2>2. \A n \in 1 .. DrawTries : g[n-1] \in W => g[n] \in W
    BY <1>1, <2>1
  <2>3. g[0] \in W
    BY <2>1
  <2> HIDE DEF W
  <2> QED
    BY <1>1, <2>2, <2>3, StaysWithin
<1> DEFINE hits == {n \in 1 .. DrawTries : Below(g[n], N) \in eligible}
<1>5. Draw(x) = IF hits = {} THEN KthEligible(g[DrawTries])
                ELSE [at |-> Below(g[Min(hits)], N), rng |-> g[Min(hits)]]
  BY <1>3, DrawUnfold
<1>6. CASE hits = {}
  <2>1. g[DrawTries] \in Words \ {{}}
    BY <1>1, <1>4
  <2> QED
    BY <1>5, <1>6, <2>1, KthDrawn
<1>7. CASE hits # {}
  <2>1. hits \in SUBSET Nat /\ hits \in SUBSET Int
    OBVIOUS
  <2>2. PICK m \in hits : \A n \in hits : m <= n
    BY <1>7, <2>1, LeastExists
  <2>3. Min(hits) = m
    BY <2>1, <2>2, MinIs
  <2>4. m \in 0 .. DrawTries /\ Below(g[m], N) \in eligible
    OBVIOUS
  <2> HIDE DEF hits
  <2>5. g[m] \in W
    BY <1>4, <2>4
  <2> QED
    BY <1>5, <1>7, <2>3, <2>4, <2>5 DEF Drawn
<1> QED
  BY <1>6, <1>7

(* The draws of a second choice: the recursion of Other.                   *)
Redrawn(g, a, x) ==
  g = [n \in 0 .. Redraws |-> IF n = 0 THEN Draw(x)
                              ELSE IF g[n-1].at # a THEN g[n-1] ELSE Draw(g[n-1].rng)]

LEMMA OtherUnfold ==
  ASSUME NEW a, NEW x
  PROVE  Other(a, x) = (CHOOSE g : Redrawn(g, a, x))[Redraws]
  BY DEF Other, Redrawn

(* A second choice is drawn too, whether or not it is another endpoint.    *)
LEMMA OtherDrawn ==
  ASSUME eligible \in SUBSET Nodes, live = Cardinality(eligible), live > 0,
         NEW a, NEW x \in Words \ {{}}
  PROVE  Other(a, x) \in Drawn
<1>1. Redraws \in Nat /\ \A y \in Words \ {{}} : Draw(y) \in Drawn
  BY TwoChoicesAssumption, DrawDrawn
<1>2. \A d \in Drawn : d.rng \in Words \ {{}}
  BY DEF Drawn
<1> DEFINE Redraw(d) == IF d.at # a THEN d ELSE Draw(d.rng)
<1>3. \A d \in Drawn : Redraw(d) \in Drawn
  BY <1>1, <1>2
<1>4. \E g : Redrawn(g, a, x)
  <2> HIDE DEF Redraw
  <2>1. PICK f : f = [p \in (1 .. Redraws) \X Drawn |-> Redraw(p[2])]
    OBVIOUS
  <2>2. StaysIn(f, Redraws, Drawn)
    <3>1. \A p \in (1 .. Redraws) \X Drawn : p[2] \in Drawn
      OBVIOUS
    <3>2. \A p \in (1 .. Redraws) \X Drawn : f[p] \in Drawn
      BY <1>3, <2>1, <3>1
    <3> QED
      BY <2>1, <3>2 DEF StaysIn
  <2>3. PICK z : z = Draw(x) /\ z \in Drawn
    BY <1>1
  <2>4. PICK h \in [0 .. Redraws -> Drawn] : Iterate(h, z, Redraws, f)
    BY <1>1, <2>2, <2>3, Iterates
  <2>5. h[0] = z /\ \A k \in 1 .. Redraws : h[k] = f[<<k, h[k-1]>>]
    BY <2>4 DEF Iterate
  <2>6. ASSUME NEW k \in 0 .. Redraws PROVE h[k] = IF k = 0 THEN z ELSE Redraw(h[k-1])
    <3>1. CASE k = 0
      BY <2>5, <3>1
    <3>2. CASE k # 0
      <4>1. k \in 1 .. Redraws /\ k-1 \in 0 .. Redraws
        BY <1>1, <3>2
      <4>2. <<k, h[k-1]>> \in (1 .. Redraws) \X Drawn
        BY <4>1
      <4>3. f[<<k, h[k-1]>>] = Redraw(h[k-1])
        BY <2>1, <4>2
      <4> QED
        BY <2>5, <3>2, <4>1, <4>3
    <3> QED
      BY <3>1, <3>2
  <2>7. h = [n \in 0 .. Redraws |-> IF n = 0 THEN z ELSE Redraw(h[n-1])]
    BY <2>6
  <2> QED
    BY <2>3, <2>7 DEF Redrawn, Redraw
<1>5. PICK g : g = (CHOOSE e : Redrawn(e, a, x)) /\ Redrawn(g, a, x)
  BY <1>4
<1>6. \A n \in 0 .. Redraws : g[n] \in Drawn
  <2>1. g[0] = Draw(x) /\ \A n \in 1 .. Redraws : g[n] = Redraw(g[n-1])
    <3>1. \A n \in 0 .. Redraws : g[n] = IF n = 0 THEN Draw(x) ELSE Redraw(g[n-1])
      BY <1>5 DEF Redrawn
    <3>2. 0 \in 0 .. Redraws /\ \A n \in 1 .. Redraws : n \in 0 .. Redraws /\ n # 0
      BY <1>1
    <3> HIDE DEF Redraw
    <3> QED
      BY <3>1, <3>2
  <2>2. \A n \in 1 .. Redraws : g[n-1] \in Drawn => g[n] \in Drawn
    BY <1>3, <2>1
  <2>3. g[0] \in Drawn
    BY <1>1, <2>1
  <2> HIDE DEF Redraw
  <2> QED
    BY <1>1, <2>2, <2>3, StaysWithin
<1>7. Other(a, x) = g[Redraws]
  BY <1>5, OtherUnfold
<1> QED
  BY <1>1, <1>6, <1>7

------------------------------------------------------------------------------
(* TwoChoices: samples *)

(* What the log keeps of a sample; the newest time it has; and that this   *)
(* never goes back.                                                        *)
Entry == [at : Nodes, value : Samples, newest : Times]
Newest(l) == IF l = <<>> THEN Never ELSE l[Len(l)].newest
Ordered(l) == \A j, k \in DOMAIN l : j <= k => l[j].newest <= l[k].newest

(* What each sample weighs at time n, and what it puts into the sum.       *)
Weight(l, n) == [k \in DOMAIN l |-> Decayed(Scale, n - l[k].newest)]
Share(l, n) == [k \in DOMAIN l |-> l[k].value * Decayed(Scale, n - l[k].newest)]

(* The assumptions on the constants, as the proofs read them.              *)
LEMMA ScaleNat ==
  /\ Scale \in Nat \ {0} /\ Samples \subseteq Nat /\ Times \subseteq Int /\ Never \in Int
  /\ \A t \in Times : Never < t
  /\ \A s, t \in Times : Halves(Scale, t - s)
<1>1. /\ Scale \in Nat \ {0} /\ Samples \subseteq Nat /\ Times \subseteq Int
  BY TwoChoicesAssumption
<1>2. Never \in Int
  BY DEF Never
<1>3. \A t \in Times : Never < t
  BY TimesAssumption
<1>4. \A s, t \in Times : Halves(Scale, t - s)
  BY TimesAssumption DEF Halves
<1> QED
  BY <1>1, <1>2, <1>3, <1>4

(* A log and the log with one sample more.                                 *)
LEMMA LogGrows ==
  ASSUME NEW l \in Seq(Entry), NEW r \in Entry, NEW m, m = Append(l, r)
  PROVE  /\ m \in Seq(Entry) /\ Len(l) \in Nat /\ Len(m) = Len(l) + 1 /\ m # <<>>
         /\ DOMAIN l = 1 .. Len(l) /\ DOMAIN m = 1 .. Len(l) + 1
         /\ (l = <<>>) = (Len(l) = 0)
         /\ \A k \in 1 .. Len(l) : m[k] = l[k] /\ l[k] \in Entry
         /\ m[Len(l) + 1] = r
  OBVIOUS

LEMMA LogRead ==
  ASSUME NEW l \in Seq(Entry)
  PROVE  /\ DOMAIN l = 1 .. Len(l) /\ Len(l) \in Nat /\ (l = <<>>) = (Len(l) = 0)
         /\ \A k \in DOMAIN l :
              l[k].newest \in Times /\ l[k].value \in Samples /\ l[k].at \in Nodes
<1>1. DOMAIN l = 1 .. Len(l) /\ Len(l) \in Nat /\ (l = <<>>) = (Len(l) = 0)
  OBVIOUS
<1>2. ASSUME NEW k \in DOMAIN l
      PROVE  l[k].newest \in Times /\ l[k].value \in Samples /\ l[k].at \in Nodes
  <2>1. l[k] \in Entry
    OBVIOUS
  <2> QED
    BY <2>1 DEF Entry
<1> QED
  BY <1>1, <1>2

(* The newest time there was when a sample came.                           *)
LEMMA NewestNow ==
  ASSUME NEW l \in Seq(Entry), Ordered(l), NEW now \in Times
  PROVE  LET t == Max({now} \cup {l[k].newest : k \in DOMAIN l})
         IN  /\ t \in Times /\ t = Max({now, Newest(l)})
             /\ \A k \in DOMAIN l : l[k].newest <= t
             /\ Clamped(now - Newest(l)) \in Nat
             /\ l # <<>> => t = Newest(l) + Clamped(now - Newest(l))
<1> DEFINE S == {now} \cup {l[k].newest : k \in DOMAIN l}
<1>1. /\ Times \subseteq Int /\ Never \in Int /\ \A t \in Times : Never < t
  BY ScaleNat
<1>2. /\ DOMAIN l = 1 .. Len(l) /\ Len(l) \in Nat /\ (l = <<>>) = (Len(l) = 0)
      /\ \A k \in DOMAIN l : l[k].newest \in Times
  BY LogRead
<1>3. now \in Int /\ S \in SUBSET Int
  BY <1>1, <1>2
<1>4. CASE l = <<>>
  <2>1. S = {now}
    BY <1>2, <1>4
  <2>2. Max(S) = now
    <3>1. now \in S /\ \A y \in S : now >= y
      BY <1>3, <2>1
    <3> HIDE DEF S
    <3> QED
      BY <1>3, <3>1, MaxIs
  <2>3. Newest(l) = Never /\ now >= Never
    BY <1>1, <1>4 DEF Newest
  <2>4. Max({now, Newest(l)}) = now
    BY <1>1, <1>3, <2>3, MaxTwo
  <2>5. Clamped(now - Newest(l)) = now - Never
    BY <1>1, <1>3, <2>3, MaxTwo DEF Clamped
  <2> QED
    BY <1>1, <1>2, <1>3, <1>4, <2>2, <2>3, <2>4, <2>5
<1>5. CASE l # <<>>
  <2>1. PICK n \in Times : n = Newest(l) /\ n = l[Len(l)].newest
    <3>1. Len(l) \in DOMAIN l
      BY <1>2, <1>5
    <3> QED
      BY <1>2, <1>5, <3>1 DEF Newest
  <2>2. n \in S /\ \A k \in DOMAIN l : l[k].newest <= n
    <3>1. Len(l) \in DOMAIN l /\ \A k \in DOMAIN l : k <= Len(l)
      BY <1>2, <1>5
    <3> QED
      BY <2>1, <3>1 DEF Ordered
  <2>3. PICK t \in Times : t = IF now >= n THEN now ELSE n
    OBVIOUS
  <2>4. t \in S /\ \A y \in S : t >= y
    BY <1>1, <1>2, <2>2, <2>3
  <2>5. Max(S) = t
    BY <1>3, <2>4, MaxIs
  <2>6. Max({now, Newest(l)}) = t
    BY <1>1, <1>3, <2>1, <2>3, MaxTwo
  <2>7. Clamped(now - n) = t - n /\ t - n \in Nat
    <3>1. Clamped(now - n) = IF now - n >= 0 THEN now - n ELSE 0
      BY <1>1, <1>3, MaxTwo DEF Clamped
    <3> QED
      BY <1>1, <1>3, <2>3, <3>1
  <2>8. ASSUME NEW k \in DOMAIN l PROVE l[k].newest <= t
    <3>1. l[k].newest \in Int /\ n \in Int /\ now \in Int
      BY <1>1, <1>2
    <3>2. l[k].newest <= n
      BY <2>2
    <3>3. n <= t
      BY <2>3, <3>1
    <3> QED
      BY <2>3, <3>1, <3>2, <3>3
  <2>9. t = n + (t - n)
    BY <1>1
  <2> QED
    BY <1>5, <2>1, <2>5, <2>6, <2>7, <2>8, <2>9
<1> QED
  BY <1>4, <1>5

(* What the pool has of a sample decays to what it then weighs.            *)
LEMMA OneAges ==
  ASSUME NEW l \in Seq(Entry), Ordered(l), NEW d \in Nat, NEW t \in Times,
         l # <<>> => t = Newest(l) + d, NEW k \in DOMAIN l
  PROVE  LET w == Decayed(Scale, Newest(l) - l[k].newest)
         IN  w \in Nat /\ Halves(w, d) /\ Decayed(w, d) = Decayed(Scale, t - l[k].newest)
<1>1. /\ Scale \in Nat /\ Times \subseteq Int
      /\ \A p, q \in Times : Halves(Scale, q - p)
  BY ScaleNat
<1>2. /\ DOMAIN l = 1 .. Len(l) /\ Len(l) \in Nat /\ l # <<>> /\ Len(l) \in DOMAIN l
      /\ k <= Len(l) /\ \A j \in DOMAIN l : l[j].newest \in Times
  BY LogRead
<1>3. PICK n \in Times, u \in Times : n = Newest(l) /\ u = l[k].newest /\ u <= n
  BY <1>2 DEF Newest, Ordered
<1>4. PICK a \in Nat : a = n - u
  BY <1>1, <1>3
<1>5. t - u = a + d
  BY <1>1, <1>2, <1>3, <1>4
<1>6. Halves(Scale, a + d)
  BY <1>1, <1>5
<1>7. /\ Decayed(Scale, a) \in Nat /\ Halves(Decayed(Scale, a), d)
      /\ Decayed(Scale, a + d) = Decayed(Decayed(Scale, a), d)
  <2>1. Decayed(Scale, a) \in Nat
    BY <1>1, DecayNat
  <2>2. Halves(Decayed(Scale, a), d)
    BY <1>1, <1>6, HalvesLater
  <2>3. Decayed(Scale, a + d) = Decayed(Decayed(Scale, a), d)
    BY <1>1, DecayAdds
  <2> QED
    BY <2>1, <2>2, <2>3
<1> QED
  BY <1>3, <1>4, <1>5, <1>7

(* The pool mean's two sums after a sample, from those before it.          *)
LEMMA PoolAges ==
  ASSUME NEW l \in Seq(Entry), Ordered(l), NEW d \in Nat, NEW r \in Entry,
         l # <<>> => r.newest = Newest(l) + d, NEW m, m = Append(l, r)
  PROVE  /\ SumFunctionOnSet(Weight(l, Newest(l)), DOMAIN l) \in Nat
         /\ SumFunctionOnSet(Share(l, Newest(l)), DOMAIN l) \in Nat
         /\ SumFunctionOnSet(Weight(m, r.newest), DOMAIN m)
              = Decayed(SumFunctionOnSet(Weight(l, Newest(l)), DOMAIN l), d) + Scale
         /\ SumFunctionOnSet(Share(m, r.newest), DOMAIN m)
              = Decayed(SumFunctionOnSet(Share(l, Newest(l)), DOMAIN l), d) + r.value * Scale
<1>1. /\ Scale \in Nat /\ Samples \subseteq Nat /\ Times \subseteq Int
  BY ScaleNat
<1>2. PICK L \in Nat : /\ L = Len(l) /\ DOMAIN l = 1 .. L /\ DOMAIN m = 1 .. L + 1
                       /\ \A k \in 1 .. L : m[k] = l[k] /\ l[k] \in Entry
                       /\ m[L + 1] = r
  BY LogGrows
<1>3. PICK n, t : n = Newest(l) /\ t = r.newest /\ t \in Times
  BY DEF Entry
<1>4. PICK f, g, p, q : /\ f = Weight(l, n) /\ g = Weight(m, t)
                        /\ p = Share(l, n) /\ q = Share(m, t)
  OBVIOUS
<1>5. ASSUME NEW k \in 1 .. L
      PROVE  /\ f[k] \in Nat /\ Halves(f[k], d) /\ g[k] = Decayed(f[k], d)
             /\ p[k] \in Nat /\ Halves(p[k], d) /\ q[k] = Decayed(p[k], d)
  <2>1. PICK v \in Nat : v = l[k].value
    BY <1>1, <1>2, LogRead
  <2> PICK w : w = Decayed(Scale, n - l[k].newest)
    OBVIOUS
  <2>2. w \in Nat /\ Halves(w, d) /\ Decayed(w, d) = Decayed(Scale, t - l[k].newest)
    BY <1>2, <1>3, OneAges
  <2>3. f[k] = w /\ g[k] = Decayed(w, d)
    BY <1>2, <1>4, <2>1, <2>2 DEF Weight
  <2>4. p[k] = v * w /\ q[k] = v * Decayed(w, d)
    BY <1>2, <1>4, <2>1, <2>2 DEF Share
  <2>5. v * w \in Nat /\ Halves(v * w, d) /\ Decayed(v * w, d) = v * Decayed(w, d)
    <3>1. w \in Nat /\ v \in Nat /\ Halves(w, d)
      BY <2>1, <2>2
    <3> QED
      BY ONLY <3>1, d \in Nat, DecayScale
  <2> QED
    BY <2>2, <2>3, <2>4, <2>5
<1>6. PICK S : S = 1 .. L
  OBVIOUS
<1>7. IsFiniteSet(S) /\ L + 1 \notin S /\ DOMAIN l = S /\ DOMAIN m = S \cup {L + 1}
  <2>1. IsFiniteSet(1 .. L)
    BY FS_Interval
  <2> QED
    BY <1>2, <1>6, <2>1
<1>8. g[L + 1] = Scale /\ q[L + 1] = r.value * Scale /\ r.value \in Nat
  <2>1. L + 1 \in DOMAIN m /\ t - t = 0 /\ r.value \in Nat
    <3>1. r.value \in Samples
      BY DEF Entry
    <3>2. t \in Int
      BY <1>1, <1>3
    <3>3. t - t = 0
      BY <3>2
    <3>4. L + 1 \in DOMAIN m
      BY <1>2
    <3> QED
      BY <1>1, <3>1, <3>3, <3>4
  <2>2. Decayed(Scale, 0) = Scale
    BY <1>1, DecayStep
  <2> QED
    BY <1>2, <1>3, <1>4, <2>1, <2>2 DEF Weight, Share
<1>9. /\ SumFunctionOnSet(f, S) \in Nat
      /\ Decayed(SumFunctionOnSet(f, S), d) = SumFunctionOnSet(g, S)
      /\ SumFunctionOnSet(p, S) \in Nat
      /\ Decayed(SumFunctionOnSet(p, S), d) = SumFunctionOnSet(q, S)
  <2>1. \A k \in S : f[k] \in Nat /\ Halves(f[k], d) /\ g[k] = Decayed(f[k], d)
    BY <1>5, <1>6
  <2>2. \A k \in S : p[k] \in Nat /\ Halves(p[k], d) /\ q[k] = Decayed(p[k], d)
    BY <1>5, <1>6
  <2>3. /\ SumFunctionOnSet(f, S) \in Nat
        /\ Decayed(SumFunctionOnSet(f, S), d) = SumFunctionOnSet(g, S)
    BY ONLY d \in Nat, <1>7, <2>1, DecayTotal
  <2>4. /\ SumFunctionOnSet(p, S) \in Nat
        /\ Decayed(SumFunctionOnSet(p, S), d) = SumFunctionOnSet(q, S)
    BY ONLY d \in Nat, <1>7, <2>2, DecayTotal
  <2> QED
    BY <2>3, <2>4
<1>10. /\ SumFunctionOnSet(g, S \cup {L + 1}) = SumFunctionOnSet(g, S) + g[L + 1]
       /\ SumFunctionOnSet(q, S \cup {L + 1}) = SumFunctionOnSet(q, S) + q[L + 1]
  <2>1. \A k \in S : g[k] \in Int /\ q[k] \in Int
    <3>1. \A k \in S : g[k] \in Nat /\ q[k] \in Nat
      BY <1>5, <1>6, DecayNat
    <3> QED
      BY <3>1
  <2>2. g[L + 1] \in Int /\ q[L + 1] \in Int
    BY <1>1, <1>8
  <2>3. SumFunctionOnSet(g, S \cup {L + 1}) = SumFunctionOnSet(g, S) + g[L + 1]
    <3>1. \A k \in S : g[k] \in Int
      BY <2>1
    <3> QED
      BY ONLY <1>7, <2>2, <3>1, SumAdd
  <2>4. SumFunctionOnSet(q, S \cup {L + 1}) = SumFunctionOnSet(q, S) + q[L + 1]
    <3>1. \A k \in S : q[k] \in Int
      BY <2>1
    <3> QED
      BY ONLY <1>7, <2>2, <3>1, SumAdd
  <2> QED
    BY <2>3, <2>4
<1> QED
  BY <1>3, <1>4, <1>7, <1>8, <1>9, <1>10

------------------------------------------------------------------------------
(* TwoChoices: the invariant *)

(* The generator has a word that is not 0, and the counts are counts.      *)
ChoosesOK ==
  /\ eligible \in SUBSET Nodes /\ live = Cardinality(eligible)
  /\ rng \in Words \ {{}}
  /\ inflight \in [Nodes -> Nat]

(* An estimate lies between two samples of its endpoint.                   *)
Shown(l, i, e) ==
  \E j, k \in DOMAIN l : /\ l[j].at = i /\ l[k].at = i
                         /\ l[j].value * Scale <= e /\ e <= l[k].value * Scale

(* Only an endpoint with a sample has an estimate that says anything.      *)
EstimatesOK ==
  /\ ewma \in [Nodes -> Nat] /\ stamp \in [Nodes -> Int] /\ sampled \in SUBSET Nodes
  /\ \A i \in sampled : Shown(log, i, ewma[i])

(* The pool has each sample at its age, and its endpoint is known.         *)
PoolOK ==
  /\ log \in Seq(Entry) /\ Ordered(log)
  /\ pool.newest = Newest(log)
  /\ pool.count = SumFunctionOnSet(Weight(log, Newest(log)), DOMAIN log)
  /\ pool.sum = SumFunctionOnSet(Share(log, Newest(log)), DOMAIN log)
  /\ \A k \in DOMAIN log : log[k].at \in sampled

(* The inductive invariant. The estimates need the samples they lie        *)
(* between, not only their bounds, for a blend to stay between two of      *)
(* them; the pool needs the log to be in order, for a sample at an old     *)
(* reading of the clock must not weigh more than a new one.                *)
ChoiceInv == ChoosesOK /\ EstimatesOK /\ PoolOK

LEMMA ChoosesInit == ChoiceInit => ChoosesOK
<1> SUFFICES ASSUME ChoiceInit PROVE ChoosesOK
  OBVIOUS
<1>1. eligible \in SUBSET Nodes /\ live = Cardinality(eligible)
  BY DEF ChoiceInit, BaseInit
<1>2. rng \in Words \ {{}}
  BY TwoChoicesAssumption, NeverStuck DEF ChoiceInit
<1>3. inflight \in [Nodes -> Nat]
  BY TwoChoicesAssumption DEF ChoiceInit
<1> QED
  BY <1>1, <1>2, <1>3 DEF ChoosesOK

LEMMA EstimatesInit == ChoiceInit => EstimatesOK
<1> SUFFICES ASSUME ChoiceInit PROVE EstimatesOK
  OBVIOUS
<1>1. ewma \in [Nodes -> Nat] /\ stamp \in [Nodes -> Int] /\ sampled = {}
  BY ScaleNat DEF ChoiceInit
<1> QED
  BY <1>1 DEF EstimatesOK

LEMMA PoolInit == ChoiceInit => PoolOK
<1> SUFFICES ASSUME ChoiceInit PROVE PoolOK
  OBVIOUS
<1>1. log = <<>> /\ pool.newest = Never /\ pool.count = 0 /\ pool.sum = 0
  BY DEF ChoiceInit
<1>2. log \in Seq(Entry) /\ Ordered(log) /\ DOMAIN log = {} /\ Newest(log) = Never
  BY <1>1 DEF Ordered, Newest
<1>3. /\ SumFunctionOnSet(Weight(log, Newest(log)), DOMAIN log) = 0
      /\ SumFunctionOnSet(Share(log, Newest(log)), DOMAIN log) = 0
  BY <1>2, SumEmpty
<1> QED
  BY <1>1, <1>2, <1>3 DEF PoolOK

------------------------------------------------------------------------------
(* TwoChoices: a sample *)

(* A blend moves an estimate towards the sample and not past it.           *)
LEMMA BlendBetween ==
  ASSUME NEW e \in Nat, NEW v \in Nat, v <= e, NEW d \in Nat
  PROVE  LET b == Decayed(e, d) + v - Decayed(v, d)
         IN  b \in Nat /\ v <= b /\ b <= e
<1>1. PICK x, y : x = Decayed(e, d) /\ y = Decayed(v, d)
  OBVIOUS
<1>2. x \in Nat /\ y \in Nat /\ y <= x /\ x - y <= e - v
  BY <1>1, DecayNat, DecayContracts
<1>3. x + v - y \in Nat /\ v <= x + v - y /\ x + v - y <= e
  BY <1>2
<1> QED
  BY <1>1, <1>3

(* No reading of the clock is before the last one, as the decay reads it.  *)
LEMMA ClampedNat ==
  ASSUME NEW t \in Int
  PROVE  Clamped(t) \in Nat
  BY MaxTwo DEF Clamped

(* A sample more leaves the older ones shown.                              *)
LEMMA ShownLater ==
  ASSUME NEW l \in Seq(Entry), NEW r \in Entry, NEW m, m = Append(l, r), NEW i, NEW e,
         Shown(l, i, e)
  PROVE  Shown(m, i, e)
<1>1. \A k \in DOMAIN l : k \in DOMAIN m /\ m[k] = l[k]
  BY LogGrows
<1> QED
  BY <1>1 DEF Shown

(* Recording a sample keeps the estimates between samples (recordRtt).     *)
LEMMA EstimateRecorded ==
  ASSUME EstimatesOK, PoolOK, NEW i \in Nodes, NEW s \in Samples, NEW now \in Times,
         Record(i, s, now),
         NEW r \in Entry, r.at = i, r.value = s, log' = Append(log, r)
  PROVE  EstimatesOK'
<1>1. /\ ewma \in [Nodes -> Nat] /\ stamp \in [Nodes -> Int] /\ sampled \in SUBSET Nodes
      /\ \A k \in sampled : Shown(log, k, ewma[k])
      /\ log \in Seq(Entry)
  BY DEF EstimatesOK, PoolOK
<1>2. PICK v, e, d : /\ v = s * Scale /\ e = ewma[i] /\ d = Clamped(now - stamp[i])
  OBVIOUS
<1>3. v \in Nat /\ e \in Nat /\ d \in Nat
  <2>1. s \in Nat /\ Scale \in Nat /\ now \in Int
    BY ScaleNat
  <2>2. now - stamp[i] \in Int
    BY <1>1, <2>1
  <2>3. d \in Nat
    BY <1>2, <2>2, ClampedNat
  <2> QED
    BY <1>1, <1>2, <2>1, <2>3
<1>4. PICK b : b = IF i \notin sampled \/ v > e THEN v ELSE Decayed(e, d) + v - Decayed(v, d)
  OBVIOUS
<1>5. /\ ewma' = [ewma EXCEPT ![i] = b] /\ stamp' = [stamp EXCEPT ![i] = now]
      /\ sampled' = sampled \cup {i}
  BY <1>2, <1>4 DEF Record
<1>6. PICK L \in Nat : /\ DOMAIN log = 1 .. L /\ DOMAIN log' = 1 .. L + 1
                       /\ log'[L + 1] = r /\ \A k \in 1 .. L : log'[k] = log[k]
  <2>1. PICK l, m : l = log /\ m = log'
    OBVIOUS
  <2>2. l \in Seq(Entry) /\ m = Append(l, r)
    BY <1>1, <2>1
  <2>3. /\ Len(l) \in Nat /\ DOMAIN l = 1 .. Len(l) /\ DOMAIN m = 1 .. Len(l) + 1
        /\ \A k \in 1 .. Len(l) : m[k] = l[k]
        /\ m[Len(l) + 1] = r
    BY ONLY r \in Entry, <2>2, LogGrows
  <2> QED
    BY <2>1, <2>3
<1>7. b \in Nat /\ Shown(log', i, b)
  <2>1. L + 1 \in DOMAIN log' /\ log'[L + 1].at = i /\ log'[L + 1].value * Scale = v
    BY <1>2, <1>6
  <2>2. CASE i \notin sampled \/ v > e
    <3>1. b = v /\ v <= v
      BY <1>3, <1>4, <2>2
    <3> QED
      BY <1>3, <2>1, <3>1 DEF Shown
  <2>3. CASE ~(i \notin sampled \/ v > e)
    <3>1. v <= e /\ b = Decayed(e, d) + v - Decayed(v, d)
      BY <1>3, <1>4, <2>3
    <3>2. b \in Nat /\ v <= b /\ b <= e
      BY <1>3, <3>1, BlendBetween
    <3>3. PICK k \in DOMAIN log : log[k].at = i /\ e <= log[k].value * Scale
      BY <1>1, <1>2, <2>3 DEF Shown
    <3>4. k \in DOMAIN log' /\ log'[k].at = i /\ b <= log'[k].value * Scale
      <4>1. PICK h \in Nat : h = log[k].value * Scale
        <5>1. log[k].value \in Nat /\ Scale \in Nat
          BY <1>1, LogRead, ScaleNat
        <5> QED
          BY <5>1
      <4>2. b <= h
        BY <1>3, <3>2, <3>3, <4>1
      <4> QED
        BY <1>6, <3>3, <4>1, <4>2
    <3> QED
      BY <2>1, <3>2, <3>4 DEF Shown
  <2> QED
    BY <2>2, <2>3
<1>8. ASSUME NEW k \in sampled' PROVE Shown(log', k, ewma'[k])
  <2>1. CASE k = i
    BY <1>1, <1>5, <1>7, <2>1
  <2>2. CASE k # i
    <3>1. k \in sampled /\ ewma'[k] = ewma[k]
      BY <1>1, <1>5, <2>2
    <3>2. Shown(log, k, ewma[k])
      BY <1>1, <3>1
    <3> QED
      BY <1>1, <3>1, <3>2, ShownLater
  <2> QED
    BY <2>1, <2>2
<1>9. /\ ewma' \in [Nodes -> Nat] /\ stamp' \in [Nodes -> Int] /\ sampled' \in SUBSET Nodes
  <2>1. now \in Int
    BY ScaleNat
  <2> QED
    BY <1>1, <1>5, <1>7, <2>1
<1> QED
  BY <1>8, <1>9 DEF EstimatesOK

(* Recording a sample keeps the pool at the age of each (_recordAt).       *)
LEMMA PoolRecorded ==
  ASSUME PoolOK, NEW i \in Nodes, NEW s \in Samples, NEW now \in Times, Record(i, s, now),
         NEW r, r = [at |-> i, value |-> s,
                     newest |-> Max({now} \cup {log[k].newest : k \in DOMAIN log})],
         log' = Append(log, r)
  PROVE  r \in Entry /\ PoolOK'
<1>1. /\ log \in Seq(Entry) /\ Ordered(log)
      /\ pool.newest = Newest(log)
      /\ pool.count = SumFunctionOnSet(Weight(log, Newest(log)), DOMAIN log)
      /\ pool.sum = SumFunctionOnSet(Share(log, Newest(log)), DOMAIN log)
      /\ \A k \in DOMAIN log : log[k].at \in sampled
  BY DEF PoolOK
<1>2. PICK t, d : /\ t = Max({now} \cup {log[k].newest : k \in DOMAIN log})
                  /\ d = Clamped(now - Newest(log))
  OBVIOUS
<1>3. /\ t \in Times /\ t = Max({now, Newest(log)})
      /\ \A k \in DOMAIN log : log[k].newest <= t
      /\ d \in Nat /\ (log # <<>> => t = Newest(log) + d)
  BY <1>1, <1>2, NewestNow
<1>4. r \in Entry /\ r.at = i /\ r.value = s /\ r.newest = t
  BY <1>2, <1>3 DEF Entry
<1>5. PICK L \in Nat : /\ DOMAIN log = 1 .. L /\ DOMAIN log' = 1 .. L + 1 /\ Len(log') = L + 1
                       /\ log'[L + 1] = r /\ \A k \in 1 .. L : log'[k] = log[k]
                       /\ log' \in Seq(Entry) /\ log' # <<>>
  <2>1. PICK l, m : l = log /\ m = log'
    OBVIOUS
  <2>2. l \in Seq(Entry) /\ m = Append(l, r) /\ r \in Entry
    BY <1>1, <1>4, <2>1
  <2>3. /\ Len(l) \in Nat /\ DOMAIN l = 1 .. Len(l) /\ DOMAIN m = 1 .. Len(l) + 1
        /\ \A k \in 1 .. Len(l) : m[k] = l[k]
        /\ m[Len(l) + 1] = r /\ Len(m) = Len(l) + 1 /\ m \in Seq(Entry) /\ m # <<>>
    BY ONLY <2>2, LogGrows
  <2> QED
    BY <2>1, <2>3
<1>6. Newest(log') = t
  BY <1>4, <1>5 DEF Newest
<1>7. Ordered(log')
  <2>1. t \in Int
    BY <1>3, ScaleNat
  <2> SUFFICES ASSUME NEW j \in 1 .. L + 1, NEW k \in 1 .. L + 1, j <= k
               PROVE  log'[j].newest <= log'[k].newest
    BY <1>5 DEF Ordered
  <2>2. CASE k = L + 1
    <3>1. CASE j = L + 1
      BY <1>4, <1>5, <2>1, <2>2, <3>1
    <3>2. CASE j # L + 1
      <4>1. j \in 1 .. L
        BY <3>2
      <4> QED
        BY <1>3, <1>4, <1>5, <2>2, <4>1
    <3> QED
      BY <3>1, <3>2
  <2>3. CASE k # L + 1
    <3>1. j \in 1 .. L /\ k \in 1 .. L
      BY <2>3
    <3> QED
      BY <1>1, <1>5, <3>1 DEF Ordered
  <2> QED
    BY <2>2, <2>3
<1>8. PICK c, m : /\ c = SumFunctionOnSet(Weight(log, Newest(log)), DOMAIN log)
                  /\ m = SumFunctionOnSet(Share(log, Newest(log)), DOMAIN log)
  OBVIOUS
<1>9. /\ SumFunctionOnSet(Weight(log', t), DOMAIN log') = Decayed(c, d) + Scale
      /\ SumFunctionOnSet(Share(log', t), DOMAIN log') = Decayed(m, d) + s * Scale
  <2>1. PICK l, m1, n : l = log /\ m1 = log' /\ n = Newest(log)
    OBVIOUS
  <2>2. /\ l \in Seq(Entry) /\ Ordered(l) /\ d \in Nat /\ r \in Entry
        /\ (l # <<>> => r.newest = Newest(l) + d) /\ m1 = Append(l, r)
    BY <1>1, <1>3, <1>4, <2>1
  <2>3. /\ SumFunctionOnSet(Weight(m1, r.newest), DOMAIN m1)
             = Decayed(SumFunctionOnSet(Weight(l, Newest(l)), DOMAIN l), d) + Scale
        /\ SumFunctionOnSet(Share(m1, r.newest), DOMAIN m1)
             = Decayed(SumFunctionOnSet(Share(l, Newest(l)), DOMAIN l), d) + r.value * Scale
    BY ONLY <2>2, PoolAges
  <2> QED
    BY <1>4, <1>8, <2>1, <2>3
<1>10. pool' = [sum |-> Decayed(m, d) + s * Scale, count |-> Decayed(c, d) + Scale,
                newest |-> t]
  BY <1>1, <1>2, <1>3, <1>8 DEF Record
<1>11. \A k \in DOMAIN log' : log'[k].at \in sampled'
  <2>1. sampled' = sampled \cup {i}
    BY DEF Record
  <2>2. ASSUME NEW k \in 1 .. L + 1 PROVE log'[k].at \in sampled \cup {i}
    <3>1. CASE k = L + 1
      BY <1>4, <1>5, <3>1
    <3>2. CASE k # L + 1
      <4>1. k \in 1 .. L
        BY <3>2
      <4> QED
        BY <1>1, <1>5, <4>1
    <3> QED
      BY <3>1, <3>2
  <2> QED
    BY <1>5, <2>1, <2>2
<1>12. /\ pool'.newest = t /\ pool'.count = Decayed(c, d) + Scale
       /\ pool'.sum = Decayed(m, d) + s * Scale
  BY <1>10
<1> QED
  BY <1>4, <1>5, <1>6, <1>7, <1>9, <1>11, <1>12 DEF PoolOK

------------------------------------------------------------------------------
(* TwoChoices: the steps *)

(* What learns nothing keeps what was learnt.                              *)
LEMMA EstimatesKept ==
  ASSUME EstimatesOK, UNCHANGED <<learnt, log>>
  PROVE  EstimatesOK'
  BY DEF EstimatesOK, learnt, Shown

LEMMA PoolKept ==
  ASSUME PoolOK, UNCHANGED <<learnt, log>>
  PROVE  PoolOK'
<1>1. log' = log /\ pool' = pool /\ sampled' = sampled
  BY DEF learnt
<1> QED
  BY <1>1 DEF PoolOK

(* Both choices of a pick are drawn.                                       *)
LEMMA PickDrawn ==
  ASSUME ChoosesOK, live > 0
  PROVE  LET a == Draw(rng)
         IN  a \in Drawn /\ Other(a.at, a.rng) \in Drawn
<1>1. Draw(rng) \in Drawn
  BY DrawDrawn DEF ChoosesOK
<1>2. Draw(rng).rng \in Words \ {{}}
  BY <1>1 DEF Drawn
<1> QED
  BY <1>1, <1>2, OtherDrawn DEF ChoosesOK

LEMMA PickKeeps ==
  ASSUME ChoiceInv, NEW now \in Times, Pick(now)
  PROVE  ChoiceInv'
<1>1. UNCHANGED <<eligible, live>> /\ UNCHANGED <<learnt, log>> /\ live > 0
  BY DEF Pick, baseVars
<1>2. PICK a, b : a = Draw(rng) /\ b = Other(a.at, a.rng)
  OBVIOUS
<1>3. /\ a.at \in eligible /\ a.rng \in Words \ {{}}
      /\ b.at \in eligible /\ b.rng \in Words \ {{}}
  <2>1. a \in Drawn /\ b \in Drawn
    BY <1>1, <1>2, PickDrawn DEF ChoiceInv
  <2> QED
    BY <2>1 DEF Drawn
<1>4. PICK i \in {a.at, b.at} : /\ inflight' = [inflight EXCEPT ![i] = @ + 1]
                                /\ rng' \in {a.rng, b.rng}
  BY <1>2 DEF Pick, Dispatched
<1>5. ChoosesOK'
  BY <1>1, <1>3, <1>4 DEF ChoiceInv, ChoosesOK
<1> QED
  BY <1>1, <1>5, EstimatesKept, PoolKept DEF ChoiceInv

LEMMA SettleKeeps ==
  ASSUME ChoiceInv, NEW i \in Nodes, NEW s \in Samples, NEW now \in Times, Settle(i, s, now)
  PROVE  ChoiceInv'
<1>1. ChoosesOK'
  <2>1. /\ UNCHANGED <<eligible, live, rng>>
        /\ inflight' = [inflight EXCEPT ![i] = @ - 1] /\ inflight[i] > 0
    BY DEF Settle, baseVars
  <2>2. inflight \in [Nodes -> Nat]
    BY DEF ChoiceInv, ChoosesOK
  <2>3. inflight[i] - 1 \in Nat
    BY <2>1, <2>2
  <2>4. inflight' \in [Nodes -> Nat]
    BY <2>1, <2>2, <2>3
  <2> QED
    BY <2>1, <2>4 DEF ChoiceInv, ChoosesOK
<1>2. CASE UNCHANGED <<learnt, log>>
  BY <1>1, <1>2, EstimatesKept, PoolKept DEF ChoiceInv
<1>3. CASE /\ Record(i, s, now)
           /\ log' = Append(log,
                [at |-> i, value |-> s,
                 newest |-> Max({now} \cup {log[k].newest : k \in DOMAIN log})])
  <2>1. PICK r : r = [at |-> i, value |-> s,
                      newest |-> Max({now} \cup {log[k].newest : k \in DOMAIN log})]
    OBVIOUS
  <2>2. Record(i, s, now) /\ log' = Append(log, r) /\ r.at = i /\ r.value = s
    BY <1>3, <2>1
  <2>3. r \in Entry /\ PoolOK'
    BY <2>1, <2>2, PoolRecorded DEF ChoiceInv
  <2>4. EstimatesOK'
    BY <2>2, <2>3, EstimateRecorded DEF ChoiceInv
  <2> QED
    BY <1>1, <2>3, <2>4 DEF ChoiceInv
<1> QED
  BY <1>2, <1>3 DEF Settle

LEMMA FlipKeeps ==
  ASSUME ChoiceInv, NEW i \in Nodes, NEW up \in BOOLEAN, SetEligible(i, up)
  PROVE  ChoiceInv'
<1>1. Flip(i, up) /\ UNCHANGED <<rng, inflight>> /\ UNCHANGED <<learnt, log>>
  BY DEF SetEligible
<1>2. eligible' \in SUBSET Nodes /\ live' = Cardinality(eligible')
  <2>1. N \in Nat
    BY CapacityAssumption
  <2>2. eligible \in SUBSET (0 .. N-1) /\ live = Cardinality(eligible) /\ i \in 0 .. N-1
    BY DEF ChoiceInv, ChoosesOK, Nodes
  <2>3. PICK T : T = eligible' /\ T = IF up THEN eligible \cup {i} ELSE eligible \ {i}
    BY <1>1 DEF Flip
  <2>4. /\ T \in SUBSET (0 .. N-1)
        /\ Cardinality(T) = IF up = (i \in eligible) THEN Cardinality(eligible)
                            ELSE IF up THEN Cardinality(eligible) + 1
                            ELSE Cardinality(eligible) - 1
    BY <2>1, <2>2, <2>3, CountFollows
  <2> QED
    BY <1>1, <2>2, <2>3, <2>4 DEF Flip, Nodes
<1>3. ChoosesOK'
  BY <1>1, <1>2 DEF ChoiceInv, ChoosesOK
<1> QED
  BY <1>1, <1>3, EstimatesKept, PoolKept DEF ChoiceInv

LEMMA ChoiceInvAlways == ChoiceSpec => []ChoiceInv
<1>1. ChoiceInit => ChoiceInv
  BY ChoosesInit, EstimatesInit, PoolInit DEF ChoiceInv
<1>2. ASSUME ChoiceInv, [ChoiceNext]_choiceVars PROVE ChoiceInv'
  <2>1. ASSUME NEW now \in Times, Pick(now) PROVE ChoiceInv'
    BY <1>2, <2>1, PickKeeps
  <2>2. ASSUME NEW i \in Nodes, NEW s \in Samples, NEW now \in Times, Settle(i, s, now)
        PROVE  ChoiceInv'
    BY <1>2, <2>2, SettleKeeps
  <2>3. ASSUME NEW i \in Nodes, NEW up \in BOOLEAN, SetEligible(i, up) PROVE ChoiceInv'
    BY <1>2, <2>3, FlipKeeps
  <2>4. CASE UNCHANGED choiceVars
    <3>1. UNCHANGED <<eligible, live, rng, inflight>> /\ UNCHANGED <<learnt, log>>
      BY <2>4 DEF choiceVars, baseVars
    <3>2. ChoosesOK'
      BY <1>2, <3>1 DEF ChoiceInv, ChoosesOK
    <3> QED
      BY <1>2, <3>1, <3>2, EstimatesKept, PoolKept DEF ChoiceInv
  <2> QED
    BY <1>2, <2>1, <2>2, <2>3, <2>4 DEF ChoiceNext
<1> QED
  BY <1>1, <1>2, PTL DEF ChoiceSpec

------------------------------------------------------------------------------
(* TwoChoices: the theorems *)

(* No seed, draw, redraw or fallback brings the generator to 0, for every  *)
(* seed, capacity and number of tries (Prng, _draw, _kthEligible).         *)
THEOREM GeneratorAliveAlways == ChoiceSpec => []GeneratorAlive
<1>1. ChoiceInv => GeneratorAlive
  BY DEF ChoiceInv, ChoosesOK, GeneratorAlive
<1> QED
  BY <1>1, ChoiceInvAlways, PTL

(* What one endpoint has shown is a finite set of latencies, with a least  *)
(* and a greatest.                                                         *)
LEMMA ShownExtremes ==
  ASSUME PoolOK, NEW i, NEW k \in DOMAIN log, log[k].at = i
  PROVE  /\ Min(ValuesOf(i)) \in Nat /\ Min(ValuesOf(i)) <= log[k].value
         /\ Max(ValuesOf(i)) \in Nat /\ log[k].value <= Max(ValuesOf(i))
<1> PICK V : V = ValuesOf(i)
  OBVIOUS
<1> PICK K : K = {j \in DOMAIN log : log[j].at = i}
  OBVIOUS
<1>1. log \in Seq(Entry) /\ Samples \subseteq Nat
  BY ScaleNat DEF PoolOK
<1>2. \A j \in K : log[j].value \in Nat
  BY <1>1, LogRead
<1>3. V = {log[j].value : j \in K}
  BY DEF ValuesOf
<1>4. V \in SUBSET Nat /\ log[k].value \in V
  BY <1>2, <1>3
<1>5. PICK lo \in V : \A y \in V : lo <= y
  BY <1>4, LeastExists
<1>6. IsFiniteSet(K) /\ K # {}
  <2>1. DOMAIN log = 1 .. Len(log) /\ Len(log) \in Nat
    BY <1>1, LogRead
  <2>2. IsFiniteSet(DOMAIN log)
    BY <2>1, FS_Interval
  <2>3. k \in K /\ K \subseteq DOMAIN log
    OBVIOUS
  <2> QED
    BY <2>2, <2>3, FS_Subset
<1>7. PICK h \in K : \A j \in K : log[j].value <= log[h].value
  <2>1. PICK f : f = [j \in K |-> log[j].value]
    OBVIOUS
  <2>2. \A j \in K : f[j] = log[j].value /\ f[j] \in Int
    BY <1>2, <2>1
  <2>3. \E x \in K : \A y \in K : f[y] <= f[x]
    BY ONLY <1>6, <2>2, MostExists
  <2> QED
    BY <2>2, <2>3
<1>8. Min(V) = lo
  <2>1. V \in SUBSET Int
    BY <1>4
  <2> QED
    BY <1>5, <2>1, MinIs
<1>9. Max(V) = log[h].value
  <2>1. PICK m : m = log[h].value
    OBVIOUS
  <2>2. m \in V /\ \A y \in V : m >= y
    BY <1>2, <1>3, <1>7, <2>1
  <2>3. V \in SUBSET Int
    BY <1>4
  <2> QED
    BY <2>1, <2>2, <2>3, MaxIs
<1> QED
  BY <1>2, <1>3, <1>4, <1>5, <1>7, <1>8, <1>9

(* An estimate stays between the least and the greatest latency its        *)
(* endpoint has shown, for any samples, in any order, at any readings of   *)
(* the clock, backward ones included (recordRtt, _recordAt).               *)
THEOREM EstimatesBoundedAlways == ChoiceSpec => []EstimatesBounded
<1>1. ASSUME ChoiceInv PROVE EstimatesBounded
  <2> SUFFICES ASSUME NEW i \in sampled
               PROVE  ewma[i] >= Min(ValuesOf(i)) * Scale /\ ewma[i] <= Max(ValuesOf(i)) * Scale
    BY DEF EstimatesBounded
  <2>1. PoolOK /\ log \in Seq(Entry) /\ Scale \in Nat /\ Samples \subseteq Nat
    BY <1>1, ScaleNat DEF ChoiceInv, PoolOK
  <2>2. PICK e \in Nat : e = ewma[i] /\ Shown(log, i, e)
    BY <1>1 DEF ChoiceInv, EstimatesOK
  <2>3. PICK j \in DOMAIN log, k \in DOMAIN log :
          /\ log[j].at = i /\ log[k].at = i
          /\ log[j].value * Scale <= e /\ e <= log[k].value * Scale
    BY <2>2 DEF Shown
  <2>4. PICK p \in Nat, q \in Nat : p = log[j].value /\ q = log[k].value
    BY <2>1, LogRead
  <2>5. PICK lo \in Nat, hi \in Nat : /\ lo = Min(ValuesOf(i)) /\ hi = Max(ValuesOf(i))
                                      /\ lo <= p /\ q <= hi
    <3>1. Min(ValuesOf(i)) \in Nat /\ Min(ValuesOf(i)) <= p
      BY <2>1, <2>3, <2>4, ShownExtremes
    <3>2. Max(ValuesOf(i)) \in Nat /\ q <= Max(ValuesOf(i))
      BY <2>1, <2>3, <2>4, ShownExtremes
    <3> QED
      BY <3>1, <3>2
  <2>6. lo * Scale <= p * Scale /\ q * Scale <= hi * Scale
    BY <2>1, <2>5, MulMono
  <2>7. /\ lo * Scale \in Nat /\ p * Scale \in Nat /\ q * Scale \in Nat /\ hi * Scale \in Nat
    BY <2>1
  <2>8. p * Scale <= e /\ e <= q * Scale
    BY <2>3, <2>4
  <2>9. lo * Scale <= e /\ e <= hi * Scale
    BY <2>6, <2>7, <2>8
  <2> QED
    BY <2>2, <2>5, <2>9
<1> QED
  BY <1>1, ChoiceInvAlways, PTL

(* The pool mean weighs every sample by its age alone, for any samples at  *)
(* any readings of the clock, and has one exactly if an endpoint has       *)
(* (_recordAt).                                                            *)
THEOREM MeanWeighsAlways == ChoiceSpec => []MeanWeighsByAge
<1>1. ASSUME ChoiceInv PROVE MeanWeighsByAge
  <2>1. /\ log \in Seq(Entry) /\ Ordered(log)
        /\ pool.count = SumFunctionOnSet(Weight(log, Newest(log)), DOMAIN log)
        /\ pool.sum = SumFunctionOnSet(Share(log, Newest(log)), DOMAIN log)
        /\ \A k \in DOMAIN log : log[k].at \in sampled
    BY <1>1 DEF ChoiceInv, PoolOK
  <2>2. /\ DOMAIN log = 1 .. Len(log) /\ Len(log) \in Nat /\ (log = <<>>) = (Len(log) = 0)
        /\ \A k \in DOMAIN log : log[k].newest \in Times
    BY <2>1, LogRead
  <2>3. PICK w, p :
          /\ w = [k \in DOMAIN log |-> Decayed(Scale, log[Len(log)].newest - log[k].newest)]
          /\ p = [k \in DOMAIN log |-> log[k].value * w[k]]
    OBVIOUS
  <2>4. CASE log = <<>>
    <3>1. DOMAIN log = {} /\ DOMAIN w = {} /\ DOMAIN p = {}
      BY <2>2, <2>3, <2>4
    <3>2. pool.count = 0 /\ pool.sum = 0
      BY <2>1, <3>1, SumEmpty
    <3>3. SumFunction(w) = 0 /\ SumFunction(p) = 0
      BY <3>1, SumEmpty DEF SumFunction
    <3>4. sampled = {}
      BY <1>1, <3>1 DEF ChoiceInv, EstimatesOK, Shown
    <3> QED
      BY <2>3, <3>2, <3>3, <3>4 DEF MeanWeighsByAge, SampledExact
  <2>5. CASE log # <<>>
    <3>1. PICK n \in Times : /\ n = Newest(log) /\ n = log[Len(log)].newest
                               /\ Len(log) \in DOMAIN log
      BY <2>2, <2>5 DEF Newest
    <3>2. w = Weight(log, Newest(log)) /\ DOMAIN w = DOMAIN log
      BY <2>3, <3>1 DEF Weight
    <3>3. p = Share(log, Newest(log)) /\ DOMAIN p = DOMAIN log
      <4>1. \A k \in DOMAIN log : w[k] = Decayed(Scale, Newest(log) - log[k].newest)
        BY <2>3, <3>1
      <4> QED
        BY <2>3, <4>1 DEF Share
    <3>4. pool.count = SumFunction(w) /\ pool.sum = SumFunction(p)
      BY <2>1, <3>2, <3>3 DEF SumFunction
    <3>5. sampled # {}
      BY <2>1, <3>1
    <3>6. pool.count > 0
      <4>1. ASSUME NEW k \in DOMAIN log PROVE w[k] \in Nat
        <5>1. n \in Int /\ log[k].newest \in Int /\ log[k].newest <= n
          <6>1. k <= Len(log)
            BY <2>2
          <6>2. log[k].newest <= n
            BY <2>1, <3>1, <6>1 DEF Ordered
          <6> QED
            BY <2>2, <6>2, ScaleNat
        <5>2. n - log[k].newest \in Nat
          BY <5>1
        <5>3. Decayed(Scale, n - log[k].newest) \in Nat
          BY <5>2, ScaleNat, DecayNat
        <5> QED
          BY <2>3, <3>1, <5>3
      <4>2. w[Len(log)] = Scale
        <5>1. n - n = 0
          BY ScaleNat
        <5>2. Decayed(Scale, 0) = Scale
          BY ScaleNat, DecayStep
        <5> QED
          BY <2>3, <3>1, <5>1, <5>2
      <4>3. IsFiniteSet(DOMAIN log)
        BY <2>2, FS_Interval
      <4>4. PICK D : D = DOMAIN log
        OBVIOUS
      <4>5. SumFunctionOnSet(w, D) \in Nat /\ \A k \in D : w[k] <= SumFunctionOnSet(w, D)
        <5>1. IsFiniteSet(D) /\ \A k \in D : w[k] \in Nat
          BY <4>1, <4>3, <4>4
        <5> QED
          BY ONLY <5>1, SumNat
      <4>6. Scale \in Nat \ {0}
        BY ScaleNat
      <4>7. Scale <= SumFunctionOnSet(w, D)
        BY <3>1, <4>2, <4>4, <4>5
      <4>8. pool.count = SumFunctionOnSet(w, D)
        BY <3>2, <3>4, <4>4 DEF SumFunction
      <4> QED
        BY <4>5, <4>6, <4>7, <4>8
    <3> QED
      BY <2>3, <3>4, <3>5, <3>6 DEF MeanWeighsByAge, SampledExact
  <2> QED
    BY <2>4, <2>5
<1> QED
  BY <1>1, ChoiceInvAlways, PTL

------------------------------------------------------------------------------
(* TwoChoices: what a pick costs *)

(* The sum and the count of the pool are natural numbers.                  *)
LEMMA PoolNat ==
  ASSUME PoolOK
  PROVE  pool.sum \in Nat /\ pool.count \in Nat
<1>1. PICK l : l = log
  OBVIOUS
<1>2. /\ l \in Seq(Entry) /\ Ordered(l)
      /\ pool.count = SumFunctionOnSet(Weight(l, Newest(l)), DOMAIN l)
      /\ pool.sum = SumFunctionOnSet(Share(l, Newest(l)), DOMAIN l)
  BY <1>1 DEF PoolOK
<1>3. CASE l = <<>>
  <2>1. DOMAIN l = {}
    BY <1>3
  <2> QED
    BY <1>2, <2>1, SumEmpty
<1>4. CASE l # <<>>
  <2>1. Len(l) \in DOMAIN l
    BY <1>2, <1>4
  <2>2. PICK r, m, d : r = l[Len(l)] /\ m = Append(l, r) /\ d = 0
    OBVIOUS
  <2>3. r \in Entry /\ r.newest = Newest(l)
    BY <1>2, <1>4, <2>1, <2>2 DEF Newest
  <2>4. r.newest \in Int
    BY <2>3, ScaleNat DEF Entry
  <2>5. d \in Nat /\ (l # <<>> => r.newest = Newest(l) + d)
    BY <2>2, <2>3, <2>4
  <2>6. /\ SumFunctionOnSet(Weight(l, Newest(l)), DOMAIN l) \in Nat
        /\ SumFunctionOnSet(Share(l, Newest(l)), DOMAIN l) \in Nat
    BY ONLY <1>2, <2>2, <2>3, <2>5, PoolAges
  <2> QED
    BY <1>2, <2>6
<1> QED
  BY <1>3, <1>4

(* A cost is a fraction of natural numbers, so two compare one way only.   *)
LEMMA CostNat ==
  ASSUME ChoiceInv, NEW i \in Nodes, NEW now \in Times
  PROVE  Cost(i, now).n \in Nat /\ Cost(i, now).d \in Nat
<1>1. inflight[i] \in Nat /\ inflight[i] + 1 \in Nat
  BY DEF ChoiceInv, ChoosesOK
<1>2. PoolMean.n \in Nat /\ PoolMean.d \in Nat
  BY PoolNat DEF PoolMean, ChoiceInv
<1>3. PeakCost(i, now).n \in Nat /\ PeakCost(i, now).d \in Nat
  <2>1. CASE i \notin sampled /\ inflight[i] = 0
    <3>1. PeakCost(i, now) = [n |-> 0, d |-> 1]
      BY <2>1 DEF PeakCost
    <3> QED
      BY <3>1
  <2>2. CASE i \notin sampled /\ inflight[i] # 0
    <3>1. PICK r : r = PoolMean
      OBVIOUS
    <3>2. PeakCost(i, now) = [r EXCEPT !.n = (inflight[i] + 1) * @]
      BY <2>2, <3>1 DEF PeakCost
    <3>3. PoolMean = [n |-> PoolMean.n, d |-> PoolMean.d]
      BY DEF PoolMean
    <3>4. r = [n |-> r.n, d |-> r.d] /\ r.n \in Nat /\ r.d \in Nat
      BY <1>2, <3>1, <3>3
    <3>5. PICK p \in Nat : p = (inflight[i] + 1) * r.n
      BY <1>1, <3>4
    <3>6. PeakCost(i, now).n = p /\ PeakCost(i, now).d = r.d
      BY <3>2, <3>4, <3>5
    <3> QED
      BY <3>4, <3>5, <3>6
  <2>3. CASE i \in sampled
    <3>1. PICK t, y : t = Clamped(now - stamp[i]) /\ y = Decayed(ewma[i], t)
      OBVIOUS
    <3>2. t \in Nat /\ y \in Nat /\ Scale \in Nat
      <4>1. now \in Int /\ stamp[i] \in Int /\ ewma[i] \in Nat /\ Scale \in Nat
        BY ScaleNat DEF ChoiceInv, EstimatesOK
      <4>2. now - stamp[i] \in Int
        BY <4>1
      <4>3. t \in Nat
        BY <3>1, <4>2, ClampedNat
      <4> QED
        BY <3>1, <4>1, <4>3, DecayNat
    <3>3. t * Scale \in Nat
      BY <3>2
    <3>4. PICK b : b = IF inflight[i] > 0 THEN Max({y, t * Scale}) ELSE y
      OBVIOUS
    <3>5. b \in Nat
      BY <3>2, <3>3, <3>4, MaxTwo
    <3>6. PeakCost(i, now) = [n |-> (inflight[i] + 1) * b, d |-> Scale]
      BY <2>3, <3>1, <3>4 DEF PeakCost
    <3>7. (inflight[i] + 1) * b \in Nat
      BY <1>1, <3>5
    <3> QED
      BY <3>2, <3>6, <3>7
  <2> QED
    BY <2>1, <2>2, <2>3
<1> QED
  BY <1>1, <1>3 DEF Cost

LEMMA CheaperOneWay ==
  ASSUME NEW c1, NEW c2, c1.n \in Nat, c1.d \in Nat, c2.n \in Nat, c2.d \in Nat,
         Cheaper(c1, c2)
  PROVE  ~ Cheaper(c2, c1)
<1>1. PICK p \in Nat, q \in Nat : p = c1.n * c2.d /\ q = c2.n * c1.d
  OBVIOUS
<1> QED
  BY <1>1 DEF Cheaper

(* A pick is of an endpoint that is up, and not one that costs more than   *)
(* each of the others, unless its two choices are one.                     *)
PickAfforded ==
  picks' # picks =>
    /\ last'.at \in eligible
    /\ \/ live = 1
       \/ Other(Draw(rng).at, Draw(rng).rng).at = Draw(rng).at
       \/ \E j \in eligible \ {last'.at} :
            ~ Cheaper(Cost(j, last'.now), Cost(last'.at, last'.now))

LEMMA PickAffords ==
  ASSUME ChoiceInv, NEW now \in Times, Pick(now)
  PROVE  PickAfforded
<1>1. PICK a, b : a = Draw(rng) /\ b = Other(a.at, a.rng)
  OBVIOUS
<1>2. a.at \in eligible /\ b.at \in eligible
  <2>1. live > 0
    BY DEF Pick
  <2>2. a \in Drawn /\ b \in Drawn
    BY <1>1, <2>1, PickDrawn DEF ChoiceInv
  <2> QED
    BY <2>2 DEF Drawn
<1>3. CASE live = 1
  <2>1. last' = [at |-> a.at, now |-> now]
    BY <1>1, <1>3 DEF Pick, Dispatched
  <2> QED
    BY <1>2, <1>3, <2>1 DEF PickAfforded
<1>4. CASE live # 1
  <2>1. PICK i : i = IF Cheaper(Cost(b.at, now), Cost(a.at, now)) THEN b.at ELSE a.at
    OBVIOUS
  <2>2. last' = [at |-> i, now |-> now]
    BY <1>1, <1>4, <2>1 DEF Pick, Dispatched
  <2>3. last'.at = i /\ last'.now = now /\ i \in eligible
    BY <1>2, <2>1, <2>2
  <2>4. a.at # b.at => \E j \in eligible \ {i} : ~ Cheaper(Cost(j, now), Cost(i, now))
    <3> SUFFICES ASSUME a.at # b.at
                 PROVE  \E j \in eligible \ {i} : ~ Cheaper(Cost(j, now), Cost(i, now))
      OBVIOUS
    <3>1. CASE Cheaper(Cost(b.at, now), Cost(a.at, now))
      <4>1. a.at \in Nodes /\ b.at \in Nodes
        BY <1>2 DEF ChoiceInv, ChoosesOK
      <4>2. PICK x, y : x = Cost(b.at, now) /\ y = Cost(a.at, now)
        OBVIOUS
      <4>3. x.n \in Nat /\ x.d \in Nat /\ y.n \in Nat /\ y.d \in Nat
        BY <4>1, <4>2, CostNat
      <4>4. ~ Cheaper(y, x)
        BY <3>1, <4>2, <4>3, CheaperOneWay
      <4> QED
        BY <1>2, <2>1, <3>1, <4>2, <4>4
    <3>2. CASE ~ Cheaper(Cost(b.at, now), Cost(a.at, now))
      BY <1>2, <2>1, <3>2
    <3> QED
      BY <3>1, <3>2
  <2> QED
    BY <1>1, <2>3, <2>4 DEF PickAfforded
<1> QED
  BY <1>3, <1>4

(* Every pick is so, of P2C and PeakEWMA, for any capacity, loads, samples *)
(* and clock (pick, pickFrom).                                             *)
THEOREM PicksAfforded == ChoiceSpec => [][PickAfforded]_choiceVars
<1>1. ASSUME ChoiceInv, [ChoiceNext]_choiceVars PROVE [PickAfforded]_choiceVars
  <2>1. ASSUME NEW now \in Times, Pick(now) PROVE PickAfforded
    BY <1>1, <2>1, PickAffords
  <2>2. ASSUME NEW i \in Nodes, NEW s \in Samples, NEW now \in Times, Settle(i, s, now)
        PROVE  PickAfforded
    <3>1. picks' = picks
      BY <2>2 DEF Settle
    <3> QED
      BY <3>1 DEF PickAfforded
  <2>3. ASSUME NEW i \in Nodes, NEW up \in BOOLEAN, SetEligible(i, up) PROVE PickAfforded
    <3>1. picks' = picks
      BY <2>3 DEF SetEligible
    <3> QED
      BY <3>1 DEF PickAfforded
  <2> QED
    BY <1>1, <2>1, <2>2, <2>3 DEF ChoiceNext
<1> QED
  BY <1>1, ChoiceInvAlways, PTL DEF ChoiceSpec

------------------------------------------------------------------------------
(* TwoChoices: picks whose two choices are two *)

(* The redraws come upon a second endpoint.                                *)
ChoicesDiffer ==
  picks' # picks /\ live > 1 => Other(Draw(rng).at, Draw(rng).rng).at # Draw(rng).at

(* What halves exactly is never halved to nothing.                         *)
LEMMA HalvesPositive ==
  ASSUME NEW x \in Nat \ {0}, NEW d \in Nat, Halves(x, d)
  PROVE  Decayed(x, d) \in Nat \ {0}
<1> DEFINE T == {m \in Nat : m <= d => Decayed(x, m) # 0}
<1>1. 0 \in T
  <2>1. Decayed(x, 0) = x
    BY DecayStep
  <2> QED
    BY <2>1
<1>2. ASSUME NEW m \in T PROVE m + 1 \in T
  <2> SUFFICES ASSUME m + 1 <= d PROVE Decayed(x, m+1) # 0
    OBVIOUS
  <2>1. m \in Nat /\ m <= d /\ m \in 0 .. d-1
    OBVIOUS
  <2>2. PICK a \in Nat : a = Decayed(x, m) /\ a # 0
    BY <2>1, DecayStep
  <2>3. a % 2 = 0
    BY <2>1, <2>2 DEF Halves
  <2>4. a \div 2 # 0
    BY <2>2, <2>3
  <2>5. Decayed(x, m+1) = a \div 2
    BY <2>1, <2>2, DecayStep
  <2> QED
    BY <2>4, <2>5
<1>3. T = Nat
  <2> HIDE DEF T
  <2> QED
    BY <1>1, <1>2, NatInduct DEF T
<1>4. Decayed(x, d) # 0
  BY <1>3
<1> QED
  BY <1>4, DecayNat

(* Nothing grows by decaying.                                              *)
LEMMA DecayShrinks ==
  ASSUME NEW x \in Nat, NEW d \in Nat
  PROVE  Decayed(x, d) <= x
<1> DEFINE T == {m \in Nat : Decayed(x, m) <= x}
<1>1. 0 \in T
  <2>1. Decayed(x, 0) = x
    BY DecayStep
  <2> QED
    BY <2>1
<1>2. ASSUME NEW m \in T PROVE m + 1 \in T
  <2>1. PICK a \in Nat : a = Decayed(x, m) /\ a <= x
    BY DecayStep
  <2>2. a \div 2 <= a /\ a \div 2 \in Nat
    OBVIOUS
  <2>3. Decayed(x, m+1) = a \div 2
    BY <2>1, DecayStep
  <2> QED
    BY <2>1, <2>2, <2>3
<1>3. T = Nat
  <2> HIDE DEF T
  <2> QED
    BY <1>1, <1>2, NatInduct DEF T
<1> QED
  BY <1>3

(* The least and the greatest latency there was, each of some sample.      *)
Latencies == {log[k].value : k \in DOMAIN log}

LEMMA LogExtremes ==
  ASSUME PoolOK, log # <<>>
  PROVE  /\ \A k \in DOMAIN log : /\ log[k].value \in Nat
                                  /\ Min(Latencies) <= log[k].value
                                  /\ log[k].value <= Max(Latencies)
         /\ \E k \in DOMAIN log : log[k].value = Min(Latencies)
         /\ \E k \in DOMAIN log : log[k].value = Max(Latencies)
<1> PICK V : V = Latencies
  OBVIOUS
<1>1. /\ log \in Seq(Entry) /\ Samples \subseteq Nat
      /\ DOMAIN log = 1 .. Len(log) /\ Len(log) \in Nat /\ Len(log) # 0
  <2>1. log \in Seq(Entry) /\ Samples \subseteq Nat
    BY ScaleNat DEF PoolOK
  <2> QED
    BY <2>1, LogRead
<1>2. \A k \in DOMAIN log : log[k].value \in Nat
  BY <1>1, LogRead
<1>3. V = {log[k].value : k \in DOMAIN log}
  BY DEF Latencies
<1>4. V \in SUBSET Nat /\ V \in SUBSET Int /\ V # {}
  <2>1. 1 \in DOMAIN log
    BY <1>1
  <2>2. V \in SUBSET Nat /\ V # {}
    BY <1>2, <1>3, <2>1
  <2> QED
    BY <2>2
<1>5. PICK lo \in V : \A y \in V : lo <= y
  BY <1>4, LeastExists
<1>6. PICK h \in DOMAIN log : \A k \in DOMAIN log : log[k].value <= log[h].value
  <2>1. PICK K, f : K = DOMAIN log /\ f = [k \in K |-> log[k].value]
    OBVIOUS
  <2>2. IsFiniteSet(K) /\ K # {}
    <3>1. IsFiniteSet(1 .. Len(log))
      BY <1>1, FS_Interval
    <3>2. 1 \in 1 .. Len(log)
      BY <1>1
    <3> QED
      BY <1>1, <2>1, <3>1, <3>2
  <2>3. \A k \in K : f[k] = log[k].value /\ f[k] \in Int
    BY <1>2, <2>1
  <2>4. \E x \in K : \A y \in K : f[y] <= f[x]
    BY ONLY <2>2, <2>3, MostExists
  <2> QED
    BY <2>1, <2>3, <2>4
<1>7. Min(V) = lo
  BY <1>4, <1>5, MinIs
<1>8. Max(V) = log[h].value
  <2>1. PICK m : m = log[h].value
    OBVIOUS
  <2>2. m \in V /\ \A y \in V : m >= y
    BY <1>2, <1>3, <1>6, <2>1
  <2> QED
    BY <1>4, <2>1, <2>2, MaxIs
<1>9. \A k \in DOMAIN log : log[k].value \in V
  BY <1>3
<1>10. \E k \in DOMAIN log : log[k].value = lo
  BY <1>3
<1> QED
  BY <1>2, <1>5, <1>6, <1>7, <1>8, <1>9, <1>10

(* The mean of the pool is no less than the least latency, and more unless *)
(* all were the same.                                                      *)
LEMMA MeanAbove ==
  ASSUME PoolOK, log # <<>>, NEW b \in Nat, \A k \in DOMAIN log : b <= log[k].value
  PROVE  /\ pool.count \in Nat \ {0} /\ pool.sum \in Nat
         /\ b * pool.count <= pool.sum
         /\ (\E k \in DOMAIN log : b < log[k].value) => b * pool.count < pool.sum
<1>1. PICK D, f, p : /\ D = DOMAIN log
                     /\ f = Weight(log, Newest(log)) /\ p = Share(log, Newest(log))
  OBVIOUS
<1>2. /\ log \in Seq(Entry) /\ Ordered(log)
      /\ pool.count = SumFunctionOnSet(f, D) /\ pool.sum = SumFunctionOnSet(p, D)
  BY <1>1 DEF PoolOK
<1>3. /\ D = 1 .. Len(log) /\ Len(log) \in D
      /\ \A k \in D : log[k].newest \in Times /\ log[k].value \in Nat
  <2>1. /\ DOMAIN log = 1 .. Len(log) /\ Len(log) \in Nat /\ Len(log) # 0
        /\ \A k \in DOMAIN log : log[k].newest \in Times /\ log[k].value \in Samples
    BY <1>2, LogRead
  <2>2. Samples \subseteq Nat
    BY ScaleNat
  <2>3. \A k \in D : log[k].newest \in Times /\ log[k].value \in Nat
    BY <1>1, <2>1, <2>2
  <2>4. D = 1 .. Len(log) /\ Len(log) \in D
    BY <1>1, <2>1
  <2> QED
    BY <2>3, <2>4
<1>4. IsFiniteSet(D)
  <2>1. Len(log) \in Nat
    BY <1>2, LogRead
  <2>2. IsFiniteSet(1 .. Len(log))
    BY <2>1, FS_Interval
  <2> QED
    BY <1>3, <2>2
<1>5. ASSUME NEW k \in D PROVE f[k] \in Nat \ {0} /\ p[k] = log[k].value * f[k]
  <2>1. PICK n \in Times : n = Newest(log) /\ n = log[Len(log)].newest
    BY <1>3 DEF Newest
  <2>2. log[k].newest \in Times /\ log[k].newest <= n
    <3>1. k <= Len(log)
      BY <1>3
    <3> QED
      BY <1>1, <1>2, <1>3, <2>1, <3>1 DEF Ordered
  <2>3. PICK d \in Nat : d = n - log[k].newest
    <3>1. n \in Int /\ log[k].newest \in Int
      BY <2>1, <2>2, ScaleNat
    <3>2. n - log[k].newest \in Nat
      BY <2>2, <3>1
    <3> QED
      BY <3>2
  <2>4. Halves(Scale, d) /\ Scale \in Nat \ {0}
    BY <2>1, <2>2, <2>3, ScaleNat
  <2>5. Decayed(Scale, d) \in Nat \ {0}
    BY <2>4, HalvesPositive
  <2>6. f[k] = Decayed(Scale, d)
    BY <1>1, <2>1, <2>3 DEF Weight
  <2>7. p[k] = log[k].value * Decayed(Scale, d)
    BY <1>1, <2>1, <2>3 DEF Share
  <2> QED
    BY <2>5, <2>6, <2>7
<1>6. PICK g, h : g = [k \in D |-> b * f[k]] /\ h = [k \in D |-> p[k] - g[k]]
  OBVIOUS
<1>7. ASSUME NEW k \in D
      PROVE  /\ g[k] = b * f[k] /\ g[k] \in Nat /\ p[k] \in Nat /\ h[k] \in Nat
             /\ p[k] = g[k] + h[k]
             /\ b < log[k].value => h[k] > 0
  <2>1. PICK w \in Nat \ {0}, v \in Nat : w = f[k] /\ v = log[k].value
    BY <1>3, <1>5
  <2>2. b <= v
    BY <1>1, <2>1
  <2>3. g[k] = b * w /\ p[k] = v * w /\ h[k] = p[k] - g[k]
    BY <1>5, <1>6, <2>1
  <2>4. b * w <= v * w
    BY <2>1, <2>2, MulMono
  <2>5. ASSUME b < v PROVE b * w + w <= v * w
    <3>1. b \in Int /\ v \in Int
      OBVIOUS
    <3> QED
      BY <2>5, <3>1, MulStrict
  <2>6. PICK x \in Nat, y \in Nat : x = b * w /\ y = v * w
    OBVIOUS
  <2>7. g[k] = x /\ p[k] = y /\ h[k] = y - x /\ x <= y /\ (b < v => x + w <= y)
    BY <2>3, <2>4, <2>5, <2>6
  <2>8. y - x \in Nat /\ y = x + (y - x) /\ (b < v => y - x > 0)
    BY <2>7
  <2> QED
    BY <2>1, <2>3, <2>7, <2>8
<1>8. SumFunctionOnSet(g, D) = b * SumFunctionOnSet(f, D)
  <2>1. b \in Int /\ \A k \in D : f[k] \in Int /\ g[k] = b * f[k]
    BY <1>5, <1>7
  <2> QED
    BY ONLY <1>4, <2>1, SumScale
<1>9. SumFunctionOnSet(p, D) = SumFunctionOnSet(g, D) + SumFunctionOnSet(h, D)
  <2>1. \A k \in D : g[k] \in Int /\ h[k] \in Int /\ p[k] = g[k] + h[k]
    BY <1>7
  <2> QED
    BY ONLY <1>4, <2>1, SumPlus
<1>10. SumFunctionOnSet(h, D) \in Nat /\ \A k \in D : h[k] <= SumFunctionOnSet(h, D)
  <2>1. \A k \in D : h[k] \in Nat
    BY <1>7
  <2> QED
    BY ONLY <1>4, <2>1, SumNat
<1>11. SumFunctionOnSet(g, D) \in Nat
  <2>1. \A k \in D : g[k] \in Nat
    BY <1>7
  <2> QED
    BY ONLY <1>4, <2>1, SumNat
<1>12. SumFunctionOnSet(f, D) \in Nat \ {0}
  <2>1. \A k \in D : f[k] \in Nat
    BY <1>5
  <2>2. SumFunctionOnSet(f, D) \in Nat /\ \A k \in D : f[k] <= SumFunctionOnSet(f, D)
    BY ONLY <1>4, <2>1, SumNat
  <2>3. f[Len(log)] \in Nat \ {0} /\ f[Len(log)] <= SumFunctionOnSet(f, D)
    BY <1>3, <1>5, <2>2
  <2> QED
    BY <2>2, <2>3
<1>13. PICK c, s, y, z : /\ c = SumFunctionOnSet(f, D) /\ s = SumFunctionOnSet(p, D)
                         /\ y = SumFunctionOnSet(g, D) /\ z = SumFunctionOnSet(h, D)
  OBVIOUS
<1>14. y = b * c /\ s = y + z /\ z \in Nat /\ y \in Nat
  BY <1>8, <1>9, <1>10, <1>11, <1>13
<1>15. ASSUME NEW k \in D, b < log[k].value PROVE z > 0
  BY <1>7, <1>10, <1>13, <1>15
<1>16. pool.count = c /\ pool.sum = s /\ c \in Nat \ {0}
  BY <1>2, <1>12, <1>13
<1> QED
  BY <1>1, <1>14, <1>15, <1>16

(* An idle endpoint costs nothing or its estimate, which is no more than   *)
(* the greatest latency.                                                   *)
LEMMA IdleCost ==
  ASSUME ChoiceInv, strategy = "PeakEWMA", log # <<>>,
         NEW j \in Nodes, NEW now \in Times, inflight[j] = 0
  PROVE  /\ j \notin sampled => Cost(j, now).n = 0 /\ Cost(j, now).d = 1
         /\ j \in sampled => /\ Cost(j, now).n \in Nat /\ Cost(j, now).d = Scale
                             /\ Cost(j, now).n <= Max(Latencies) * Scale
<1>1. Cost(j, now) = PeakCost(j, now)
  BY DEF Cost
<1>2. ASSUME j \notin sampled PROVE Cost(j, now).n = 0 /\ Cost(j, now).d = 1
  BY <1>1, <1>2 DEF PeakCost
<1>3. ASSUME j \in sampled
      PROVE  /\ Cost(j, now).n \in Nat /\ Cost(j, now).d = Scale
             /\ Cost(j, now).n <= Max(Latencies) * Scale
  <2>1. PICK e, t, y : e = ewma[j] /\ t = Clamped(now - stamp[j]) /\ y = Decayed(e, t)
    OBVIOUS
  <2>2. e \in Nat /\ t \in Nat /\ Scale \in Nat
    <3>1. now \in Int /\ stamp[j] \in Int /\ e \in Nat /\ Scale \in Nat
      BY <2>1, ScaleNat DEF ChoiceInv, EstimatesOK
    <3>2. now - stamp[j] \in Int
      BY <3>1
    <3> QED
      BY <2>1, <3>1, <3>2, ClampedNat
  <2>3. y \in Nat /\ y <= e
    BY <2>1, <2>2, DecayNat, DecayShrinks
  <2>4. Cost(j, now) = [n |-> (inflight[j] + 1) * y, d |-> Scale]
    BY <1>1, <1>3, <2>1 DEF PeakCost
  <2>5. (inflight[j] + 1) * y = y
    BY <2>3
  <2>6. PICK k \in DOMAIN log : e <= log[k].value * Scale
    BY <1>3, <2>1 DEF ChoiceInv, EstimatesOK, Shown
  <2>7. PICK v \in Nat, m \in Nat : v = log[k].value /\ m = Max(Latencies) /\ v <= m
    <3>1. /\ \A q \in DOMAIN log : log[q].value \in Nat /\ log[q].value <= Max(Latencies)
          /\ \E q \in DOMAIN log : log[q].value = Max(Latencies)
      BY LogExtremes DEF ChoiceInv
    <3> QED
      BY <3>1
  <2>8. v * Scale <= m * Scale /\ v * Scale \in Nat /\ m * Scale \in Nat
    BY <2>2, <2>7, MulMono
  <2>9. y <= m * Scale
    BY <2>2, <2>3, <2>6, <2>7, <2>8
  <2> QED
    BY <2>3, <2>4, <2>5, <2>7, <2>9
<1> QED
  BY <1>2, <1>3

(* A busy one costs at least twice the time it has been silent, or has the *)
(* pool mean for each request.                                             *)
LEMMA BusyCost ==
  ASSUME ChoiceInv, strategy = "PeakEWMA", log # <<>>,
         NEW i \in Nodes, NEW now \in Times, inflight[i] > 0
  PROVE  /\ i \in sampled => /\ Cost(i, now).n \in Nat /\ Cost(i, now).d = Scale
                             /\ 2 * (Clamped(now - stamp[i]) * Scale) <= Cost(i, now).n
         /\ i \notin sampled => /\ Cost(i, now).n = (inflight[i] + 1) * pool.sum
                                /\ Cost(i, now).d = pool.count
<1>1. Cost(i, now) = PeakCost(i, now) /\ inflight[i] \in Nat
  BY DEF Cost, ChoiceInv, ChoosesOK
<1>2. ASSUME i \in sampled
      PROVE  /\ Cost(i, now).n \in Nat /\ Cost(i, now).d = Scale
             /\ 2 * (Clamped(now - stamp[i]) * Scale) <= Cost(i, now).n
  <2>1. PICK e, t, y : e = ewma[i] /\ t = Clamped(now - stamp[i]) /\ y = Decayed(e, t)
    OBVIOUS
  <2>2. e \in Nat /\ t \in Nat /\ Scale \in Nat
    <3>1. now \in Int /\ stamp[i] \in Int /\ e \in Nat /\ Scale \in Nat
      BY <2>1, ScaleNat DEF ChoiceInv, EstimatesOK
    <3>2. now - stamp[i] \in Int
      BY <3>1
    <3> QED
      BY <2>1, <3>1, <3>2, ClampedNat
  <2>3. y \in Nat
    BY <2>1, <2>2, DecayNat
  <2>4. PICK s \in Nat : s = t * Scale
    BY <2>2
  <2>5. PICK b : b = Max({y, s})
    OBVIOUS
  <2>6. b \in Nat /\ s <= b
    BY <2>3, <2>5, MaxTwo
  <2>7. Cost(i, now) = [n |-> (inflight[i] + 1) * b, d |-> Scale]
    BY <1>1, <1>2, <2>1, <2>4, <2>5 DEF PeakCost
  <2>8. 2 * s <= (inflight[i] + 1) * b /\ (inflight[i] + 1) * b \in Nat
    <3>1. PICK c \in Nat : c = inflight[i] + 1 /\ 2 <= c
      BY <1>1
    <3>2. 2 * b <= c * b
      BY <2>6, <3>1, MulMono
    <3>3. c * b \in Nat
      BY <2>6, <3>1
    <3>4. 2 * s <= c * b
      BY <2>6, <3>2, <3>3
    <3> QED
      BY <3>1, <3>3, <3>4
  <2> QED
    BY <2>1, <2>4, <2>7, <2>8
<1>3. ASSUME i \notin sampled
      PROVE  Cost(i, now).n = (inflight[i] + 1) * pool.sum /\ Cost(i, now).d = pool.count
  <2>1. pool.count > 0
    <3>1. 0 \in Nat /\ \A k \in DOMAIN log : 0 <= log[k].value
      BY LogExtremes DEF ChoiceInv
    <3> QED
      BY <3>1, MeanAbove DEF ChoiceInv
  <2>2. PICK r : r = PoolMean
    OBVIOUS
  <2>3. r = [n |-> pool.sum, d |-> pool.count]
    BY <2>1, <2>2 DEF PoolMean
  <2>4. PeakCost(i, now) = [r EXCEPT !.n = (inflight[i] + 1) * @]
    BY <1>3, <2>2 DEF PeakCost
  <2>5. PICK s, c, p : s = pool.sum /\ c = pool.count /\ p = (inflight[i] + 1) * s
    OBVIOUS
  <2>6. [r EXCEPT !.n = (inflight[i] + 1) * @] = [n |-> p, d |-> c]
    BY <2>3, <2>5
  <2> QED
    BY <1>1, <2>4, <2>5, <2>6
<1> QED
  BY <1>2, <1>3

(* A silent endpoint that is busy costs more than an idle one.             *)
LEMMA SilentDearer ==
  ASSUME ChoiceInv, strategy = "PeakEWMA", log # <<>>, NEW now \in Times,
         NEW i \in Nodes, inflight[i] > 0, i \in sampled, now - stamp[i] > Max(Latencies),
         NEW j \in Nodes, inflight[j] = 0
  PROVE  Cheaper(Cost(j, now), Cost(i, now))
<1>1. PICK m \in Nat : m = Max(Latencies)
  <2>1. /\ \A q \in DOMAIN log : log[q].value \in Nat
        /\ \E q \in DOMAIN log : log[q].value = Max(Latencies)
    BY LogExtremes DEF ChoiceInv
  <2> QED
    BY <2>1
<1>2. Scale \in Nat \ {0} /\ now \in Int /\ stamp[i] \in Int
  BY ScaleNat DEF ChoiceInv, EstimatesOK
<1>3. PICK t \in Nat : t = now - stamp[i] /\ t > m /\ Clamped(now - stamp[i]) = t
  <2>1. PICK t \in Int : t = now - stamp[i]
    BY <1>2
  <2>2. t > m /\ t \in Nat
    BY <1>1, <2>1
  <2>3. Clamped(t) = t
    BY <2>2, MaxTwo DEF Clamped
  <2> QED
    BY <2>1, <2>2, <2>3
<1>4. PICK p, q : p = Cost(i, now) /\ q = Cost(j, now)
  OBVIOUS
<1>5. p.n \in Nat /\ p.d = Scale /\ 2 * (t * Scale) <= p.n
  BY <1>3, <1>4, BusyCost
<1>6. PICK x \in Nat, y \in Nat : x = t * Scale /\ y = m * Scale
  BY <1>2
<1>7. y + Scale <= x
  <2>1. m \in Int /\ t \in Int /\ m < t
    BY <1>3
  <2> QED
    BY <1>2, <1>6, <2>1, MulStrict
<1>8. p.n > y /\ p.n > 0
  BY <1>2, <1>5, <1>6, <1>7
<1>9. q.n * p.d < p.n * q.d
  <2>1. CASE j \notin sampled
    <3>1. q.n = 0 /\ q.d = 1
      BY <1>4, <2>1, IdleCost
    <3>2. 0 * Scale = 0 /\ p.n * 1 = p.n
      BY <1>2, <1>5
    <3> QED
      BY <1>5, <1>8, <3>1, <3>2
  <2>2. CASE j \in sampled
    <3>1. q.n \in Nat /\ q.d = Scale /\ q.n <= y
      BY <1>1, <1>4, <1>6, <2>2, IdleCost
    <3>2. PICK a \in Int, b \in Int : a = q.n /\ b = p.n /\ a < b
      BY <1>5, <1>8, <3>1
    <3>3. a * Scale + Scale <= b * Scale
      BY <1>2, <3>2, MulStrict
    <3>4. a * Scale \in Int /\ b * Scale \in Int
      BY <1>2
    <3>5. a * Scale < b * Scale
      BY <1>2, <3>3, <3>4
    <3> QED
      BY <1>5, <3>1, <3>2, <3>5
  <2> QED
    BY <2>1, <2>2
<1> QED
  BY <1>4, <1>9 DEF Cheaper

(* The arithmetic of a busy endpoint at the pool mean s / c against an     *)
(* idle one at its estimate, both over all latencies.                      *)
LEMMA LoadSpreads ==
  ASSUME NEW k \in Nat, k >= 2, NEW s \in Nat, NEW c \in Nat \ {0}, NEW z \in Nat \ {0},
         NEW e \in Nat, NEW lo \in Nat \ {0}, NEW hi \in Nat, lo <= hi, e <= hi * z,
         lo * c <= s, lo < hi => lo * c < s, (k * s) * z <= e * c
  PROVE  k * lo < hi
<1>1. e * c <= (hi * z) * c
  <2>1. hi * z \in Int
    OBVIOUS
  <2> QED
    BY <2>1, MulMono
<1>2. PICK u \in Nat, v \in Nat : u = k * s /\ v = hi * c
  OBVIOUS
<1>3. (hi * z) * c = v * z
  BY <1>2
<1>4. u <= v
  <2> SUFFICES ASSUME v < u PROVE FALSE
    BY <1>2
  <2>1. v * z + z <= u * z
    BY MulStrict
  <2>2. PICK a \in Nat, b \in Nat, d \in Nat : a = v * z /\ b = u * z /\ d = e * c
    OBVIOUS
  <2>3. b <= d /\ d <= a /\ a + z <= b
    BY <1>1, <1>2, <1>3, <2>1, <2>2
  <2> QED
    BY <2>3
<1>5. PICK w \in Nat : w = lo * c
  OBVIOUS
<1>6. PICK x \in Nat : x = k * lo
  OBVIOUS
<1>7. x * c = k * w
  BY <1>5, <1>6
<1>8. w <= s /\ (lo < hi => w < s)
  BY <1>5
<1>9. CASE lo < hi
  <2>1. w * k + k <= s * k
    BY <1>8, <1>9, MulStrict
  <2>2. s * k = u /\ w * k = x * c
    BY <1>2, <1>7
  <2> SUFFICES ASSUME hi <= x PROVE FALSE
    BY <1>6
  <2>3. hi * c <= x * c
    BY MulMono
  <2>4. PICK y \in Nat : y = x * c
    OBVIOUS
  <2>5. v <= y /\ y + k <= u
    BY <1>2, <2>1, <2>2, <2>3, <2>4
  <2> QED
    BY <1>4, <2>5
<1>10. CASE lo = hi
  <2>1. v = w
    BY <1>2, <1>5, <1>10
  <2>2. 2 * s <= u
    <3>1. 2 * s <= k * s
      BY MulMono
    <3> QED
      BY <1>2, <3>1
  <2>3. w > 0
    BY <1>5
  <2> QED
    BY <1>4, <1>8, <2>1, <2>2, <2>3
<1> QED
  BY <1>9, <1>10

(* An endpoint without a sample is not taken for a fast one.               *)
LEMMA UnknownDearer ==
  ASSUME 0 \notin Samples, ChoiceInv, strategy = "PeakEWMA", log # <<>>, NEW now \in Times,
         NEW i \in Nodes, inflight[i] > 0, i \notin sampled,
         NEW j \in Nodes, inflight[j] = 0, ~ Cheaper(Cost(j, now), Cost(i, now))
  PROVE  j \in sampled /\ (inflight[i] + 1) * Min(Latencies) < Max(Latencies)
<1>1. PICK lo, hi, s, c, k : /\ lo = Min(Latencies) /\ hi = Max(Latencies)
                             /\ s = pool.sum /\ c = pool.count /\ k = inflight[i] + 1
  OBVIOUS
<1>2. /\ \A q \in DOMAIN log : log[q].value \in Nat /\ lo <= log[q].value /\ log[q].value <= hi
      /\ \E q \in DOMAIN log : log[q].value = lo
      /\ \E q \in DOMAIN log : log[q].value = hi
  BY <1>1, LogExtremes DEF ChoiceInv
<1>3. lo \in Nat \ {0} /\ hi \in Nat /\ lo <= hi
  <2>1. \A q \in DOMAIN log : log[q].value \in Samples
    <3>1. log \in Seq(Entry)
      BY DEF ChoiceInv, PoolOK
    <3> QED
      BY <3>1, LogRead
  <2> QED
    BY <1>2, <2>1
<1>4. k \in Nat /\ k >= 2
  <2>1. inflight[i] \in Nat
    BY DEF ChoiceInv, ChoosesOK
  <2> QED
    BY <1>1, <2>1
<1>5. c \in Nat \ {0} /\ s \in Nat /\ lo * c <= s /\ (lo < hi => lo * c < s)
  <2>1. lo \in Nat /\ (\A q \in DOMAIN log : lo <= log[q].value) /\ PoolOK
    BY <1>2, <1>3 DEF ChoiceInv
  <2>2. /\ pool.count \in Nat \ {0} /\ pool.sum \in Nat
        /\ lo * pool.count <= pool.sum
        /\ (\E q \in DOMAIN log : lo < log[q].value) => lo * pool.count < pool.sum
    BY <2>1, MeanAbove
  <2>3. lo < hi => \E q \in DOMAIN log : lo < log[q].value
    BY <1>2
  <2> QED
    BY <1>1, <2>2, <2>3
<1>6. Scale \in Nat \ {0}
  BY ScaleNat
<1>7. PICK p, r : p = Cost(i, now) /\ r = Cost(j, now)
  OBVIOUS
<1>8. p.n = k * s /\ p.d = c /\ ~(r.n * p.d < p.n * r.d)
  <2>1. p.n = k * s /\ p.d = c
    BY <1>1, <1>7, BusyCost
  <2>2. ~(r.n * p.d < p.n * r.d)
    BY <1>7 DEF Cheaper
  <2> QED
    BY <2>1, <2>2
<1>9. PICK u \in Nat : u = k * s /\ u > 0
  <2>1. PICK w \in Nat : w = lo * c /\ w > 0
    BY <1>3, <1>5
  <2>2. s > 0
    BY <1>5, <2>1
  <2>3. k * s \in Nat /\ k * s > 0
    BY <1>4, <1>5, <2>2
  <2> QED
    BY <2>3
<1>10. j \in sampled
  <2> SUFFICES ASSUME j \notin sampled PROVE FALSE
    OBVIOUS
  <2>1. r.n = 0 /\ r.d = 1
    BY <1>7, IdleCost
  <2>2. 0 * c = 0 /\ u * 1 = u
    BY <1>5
  <2> QED
    BY <1>8, <1>9, <2>1, <2>2
<1>11. PICK e \in Nat : e = r.n /\ r.d = Scale /\ e <= hi * Scale
  BY <1>1, <1>7, <1>10, IdleCost
<1>12. (k * s) * Scale <= e * c
  <2>1. u * Scale \in Nat /\ e * c \in Nat
    BY <1>5, <1>6
  <2>2. ~(e * c < u * Scale)
    BY <1>8, <1>9, <1>11
  <2> QED
    BY <1>9, <2>1, <2>2
<1>13. k * lo < hi
  BY ONLY <1>3, <1>4, <1>5, <1>6, <1>11, <1>12, LoadSpreads
<1> QED
  BY <1>1, <1>10, <1>13

(* The steps of NeverDearest and ShunsSilent.                              *)
NotDearest ==
  picks' # picks =>
    /\ last'.at \in eligible
    /\ \/ live = 1
       \/ \E j \in eligible \ {last'.at} :
            ~ Cheaper(Cost(j, last'.now), Cost(last'.at, last'.now))

Shuns ==
  (picks' # picks /\ strategy = "PeakEWMA" /\ log # <<>> /\ live = 2) =>
    LET i == last'.at
        j == CHOOSE k \in eligible : k # i
        worst == Max({log[k].value : k \in DOMAIN log})
        best == Min({log[k].value : k \in DOMAIN log})
    IN  (inflight[i] > 0 /\ inflight[j] = 0) =>
          IF i \in sampled
          THEN last'.now - stamp[i] <= worst
          ELSE j \in sampled /\ (inflight[i] + 1) * best < worst

(* With two endpoints up, there is one other.                              *)
LEMMA OneOther ==
  ASSUME ChoiceInv, live = 2, NEW i \in eligible, NEW j \in eligible, j # i
  PROVE  (CHOOSE k \in eligible : k # i) = j
<1>1. IsFiniteSet(eligible) /\ Cardinality(eligible) = 2
  <2>1. eligible \in SUBSET (0 .. N-1) /\ N \in Nat /\ live = Cardinality(eligible)
    BY CapacityAssumption DEF ChoiceInv, ChoosesOK, Nodes
  <2> QED
    BY <2>1, CountInRange
<1>2. IsFiniteSet(eligible \ {i}) /\ Cardinality(eligible \ {i}) = 1
  BY <1>1, FS_RemoveElement
<1>3. IsFiniteSet((eligible \ {i}) \ {j}) /\ Cardinality((eligible \ {i}) \ {j}) = 0
  BY <1>2, FS_RemoveElement
<1>4. (eligible \ {i}) \ {j} = {}
  BY <1>3, FS_EmptySet
<1>5. \A k \in eligible : k # i => k = j
  BY <1>4
<1> QED
  BY <1>5

LEMMA PickShuns ==
  ASSUME 0 \notin Samples, ChoiceInv, NEW now \in Times, Pick(now), ChoicesDiffer
  PROVE  Shuns
<1> SUFFICES ASSUME picks' # picks, strategy = "PeakEWMA", log # <<>>, live = 2
             PROVE  LET i == last'.at
                        j == CHOOSE k \in eligible : k # i
                        worst == Max({log[k].value : k \in DOMAIN log})
                        best == Min({log[k].value : k \in DOMAIN log})
                    IN  (inflight[i] > 0 /\ inflight[j] = 0) =>
                          IF i \in sampled
                          THEN last'.now - stamp[i] <= worst
                          ELSE j \in sampled /\ (inflight[i] + 1) * best < worst
  BY DEF Shuns
<1>1. last'.now = now
  BY DEF Pick, Dispatched
<1>2. PICK i, j : i = last'.at /\ i \in eligible /\ j \in eligible /\ j # i
                  /\ ~ Cheaper(Cost(j, now), Cost(i, now))
  <2>1. PickAfforded
    BY PickAffords
  <2> QED
    BY <1>1, <2>1 DEF PickAfforded, ChoicesDiffer
<1>3. (CHOOSE k \in eligible : k # i) = j /\ i \in Nodes /\ j \in Nodes
  BY <1>2, OneOther DEF ChoiceInv, ChoosesOK
<1>4. ASSUME inflight[i] > 0, inflight[j] = 0, i \in sampled
      PROVE  now - stamp[i] <= Max(Latencies)
  <2>1. ~(now - stamp[i] > Max(Latencies))
    BY <1>2, <1>3, <1>4, SilentDearer
  <2>2. Max(Latencies) \in Nat
    <3>1. /\ \A q \in DOMAIN log : log[q].value \in Nat
          /\ \E q \in DOMAIN log : log[q].value = Max(Latencies)
      BY LogExtremes DEF ChoiceInv
    <3> QED
      BY <3>1
  <2>3. now - stamp[i] \in Int
    BY <1>3, ScaleNat DEF ChoiceInv, EstimatesOK
  <2> QED
    BY <2>1, <2>2, <2>3
<1>5. ASSUME inflight[i] > 0, inflight[j] = 0, i \notin sampled
      PROVE  j \in sampled /\ (inflight[i] + 1) * Min(Latencies) < Max(Latencies)
  BY <1>2, <1>3, <1>5, UnknownDearer
<1> QED
  BY <1>1, <1>2, <1>3, <1>4, <1>5 DEF Latencies

(* A pick whose two choices are two is never of the dearest endpoint, for  *)
(* any capacity, loads, samples and readings of the clock (pick, _pickAt). *)
THEOREM NeverDearestOfTwo == ChoiceSpec /\ [][ChoicesDiffer]_choiceVars => NeverDearest
<1>1. ASSUME [PickAfforded]_choiceVars, [ChoicesDiffer]_choiceVars, ChoiceInv
      PROVE  [NotDearest]_choiceVars
  <2>1. CASE UNCHANGED choiceVars
    BY <2>1
  <2>2. CASE picks' = picks
    BY <2>2 DEF NotDearest
  <2>3. CASE picks' # picks /\ PickAfforded /\ ChoicesDiffer
    <3>1. live > 1 \/ live = 1 \/ eligible = {}
      <4>1. eligible \in SUBSET (0 .. N-1) /\ N \in Nat /\ live = Cardinality(eligible)
        BY <1>1, CapacityAssumption DEF ChoiceInv, ChoosesOK, Nodes
      <4>2. IsFiniteSet(eligible) /\ live \in Nat
        BY <4>1, CountInRange
      <4>3. live = 0 => eligible = {}
        BY <4>1, <4>2, FS_EmptySet
      <4> QED
        BY <4>2, <4>3
    <3> QED
      BY <2>3, <3>1 DEF PickAfforded, ChoicesDiffer, NotDearest
  <2> QED
    BY <1>1, <2>1, <2>2, <2>3
<1>2. ChoiceSpec /\ [][ChoicesDiffer]_choiceVars => [][NotDearest]_choiceVars
  BY <1>1, ChoiceInvAlways, PicksAfforded, PTL
<1> QED
  BY <1>2 DEF NeverDearest, NotDearest

(* And PeakEWMA passes over a busy endpoint that has gone silent, and does *)
(* not take one that never answered for a fast one, if no latency is 0     *)
(* (_pickAt's floor and its pool mean).                                    *)
THEOREM SilentShunned ==
  ASSUME 0 \notin Samples
  PROVE  ChoiceSpec /\ [][ChoicesDiffer]_choiceVars => ShunsSilent
<1>1. ASSUME ChoiceInv, [ChoiceNext]_choiceVars, [ChoicesDiffer]_choiceVars
      PROVE  [Shuns]_choiceVars
  <2>1. CASE UNCHANGED choiceVars
    BY <2>1
  <2>2. ASSUME NEW now \in Times, Pick(now), ChoicesDiffer PROVE Shuns
    BY <1>1, <2>2, PickShuns
  <2>3. ASSUME NEW i \in Nodes, NEW s \in Samples, NEW now \in Times, Settle(i, s, now)
        PROVE  Shuns
    BY <2>3 DEF Settle, Shuns
  <2>4. ASSUME NEW i \in Nodes, NEW up \in BOOLEAN, SetEligible(i, up)
        PROVE  Shuns
    BY <2>4 DEF SetEligible, Shuns
  <2> QED
    BY <1>1, <2>1, <2>2, <2>3, <2>4 DEF ChoiceNext
<1> QED
  BY <1>1, ChoiceInvAlways, PTL DEF ChoiceSpec, ShunsSilent, Shuns
===============================================================================
