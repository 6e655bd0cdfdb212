--------------------------------- MODULE Fleet ---------------------------------
(***************************************************************************)
(* Fleet of pickEcosystem/live/fleet.js: one circuit breaker, supervisor   *)
(* and health check per worker, and the tick that decides which workers    *)
(* the balancer may pick.  A worker's state is a record, each handler of   *)
(* the class is an operator on it, and each action runs the handlers the   *)
(* code runs in one turn of the event loop.                                *)
(*                                                                         *)
(* The worker set (a queue of jobs answered in order by one thread) and    *)
(* the supervisor are external libraries, modelled by what the fleet and   *)
(* the engines rely on: a death answers every job of the worker with       *)
(* LWP_WORKER_DOWN, and a worker past its restarts is escalated; a respawn *)
(* ends with its thread READY or dead, and may be refused where there is a *)
(* thread; a supervisor whose start rejects is not RUNNING.                *)
(***************************************************************************)
EXTENDS Integers, Sequences, FiniteSets, Functions

CONSTANTS
  Workers,          \* the workers
  MaxJobs,          \* a worker's slots and queue
  BreakerFailures,  \* the consecutive failures that trip a breaker
  MaxRestarts,      \* the restarts before an escalation
  MaxResets         \* bound on the resets

ASSUME FleetAssumption ==
  /\ MaxJobs \in Nat \ {0}
  /\ BreakerFailures \in Nat \ {0}
  /\ MaxRestarts \in Nat
  /\ MaxResets \in Nat

VARIABLES
  fleet,            \* fleet[w]: the state of worker w
  resets,           \* how many resets have begun
  drainsFirst       \* the scene: is a queue answered within the cool-down, as by default?

vars == <<fleet, resets, drainsFirst>>

(* worker: the thread ("starting" while a respawn waits for it).  hung:    *)
(* has its current job run for longer than hungMs ("hung"), than           *)
(* hungKillMs ("overdue")?  jobs: the jobs it has not answered, oldest     *)
(* first; a "probe" is one that armed probeOut.  cooled: has               *)
(* breakerCoolMs passed since openedAt?  sup: the supervisor in sups[i]    *)
(* ("none": a reset has taken it away; "failed": its start rejected).      *)
(* tearing: the resets that tear down the scope in place; late: those      *)
(* whose scope another reset has replaced meanwhile.  up: shared.up, what  *)
(* the balancer sees.  streak (history): the failed answers in a row.      *)
WorkerState ==
  [worker : {"ready", "starting", "down"}, hung : {"no", "hung", "overdue"},
   jobs : Seq({"job", "probe"}),
   breaker : {"closed", "open", "halfOpen"}, fails : 0 .. BreakerFailures,
   cooled : BOOLEAN, probeOut : BOOLEAN,
   sup : {"running", "restarting", "escalated", "none", "starting", "failed"},
   tearing : Nat, late : Nat,
   restarts : 0 .. MaxRestarts, up : BOOLEAN, streak : 0 .. BreakerFailures]

Started ==
  [worker |-> "ready", hung |-> "no", jobs |-> <<>>,
   breaker |-> "closed", fails |-> 0, cooled |-> FALSE, probeOut |-> FALSE,
   sup |-> "running", tearing |-> 0, late |-> 0, restarts |-> 0, up |-> FALSE, streak |-> 0]

Init ==
  /\ fleet = [w \in Workers |-> Started]
  /\ resets = 0
  /\ drainsFirst \in BOOLEAN

------------------------------------------------------------------------------
(* The handlers *)

(* onDispatch: in HalfOpen the job is the probe, and the worker goes out   *)
(* of the balancer at once.                                                *)
Bug_OnDispatch(s) ==
  IF s.breaker = "halfOpen" /\ ~s.probeOut THEN [s EXCEPT !.probeOut = TRUE] ELSE s
OnDispatch(s) ==
  IF s.breaker = "halfOpen" /\ ~s.probeOut THEN [s EXCEPT !.probeOut = TRUE, !.up = FALSE]
  ELSE s

(* onResult, no verdict (worker down, queue full, not ready). *)
Bug_NoVerdictKeeps(s) == s
Bug_NoVerdictFails(s) ==
  IF s.breaker = "closed"
  THEN [s EXCEPT !.fails = IF @ < BreakerFailures THEN @ + 1 ELSE @,
                 !.breaker = IF s.fails + 1 >= BreakerFailures THEN "open" ELSE @]
  ELSE IF s.breaker = "halfOpen" THEN [s EXCEPT !.probeOut = FALSE] ELSE s
NoVerdict(s) == IF s.breaker = "halfOpen" THEN [s EXCEPT !.probeOut = FALSE] ELSE s

Trip(s) == [s EXCEPT !.breaker = "open", !.cooled = FALSE]

(* onResult, the worker's own answer. *)
Verdict(s, ok) ==
  CASE s.breaker = "closed" /\ ok -> [s EXCEPT !.fails = 0]
    [] s.breaker = "closed" /\ ~ok /\ s.fails + 1 < BreakerFailures -> [s EXCEPT !.fails = @ + 1]
    [] s.breaker = "closed" /\ ~ok /\ s.fails + 1 >= BreakerFailures ->
         Trip([s EXCEPT !.fails = BreakerFailures])
    [] s.breaker = "halfOpen" /\ ok ->
         [s EXCEPT !.probeOut = FALSE, !.fails = 0, !.breaker = "closed"]
    [] s.breaker = "halfOpen" /\ ~ok -> Trip([s EXCEPT !.probeOut = FALSE])
    [] s.breaker = "open" -> s

(* A respawn has ended, and with it what the supervisor was awaiting: its  *)
(* restart, or its start.  One that fails is taken up again by the next    *)
(* tick, or never: tick faults the workers of RUNNING supervisors only.    *)
Awaited(s, ready) ==
  IF s.sup = "restarting" \/ (s.sup = "starting" /\ ready) THEN "running"
  ELSE IF s.sup = "starting" THEN "failed"
  ELSE s.sup

(* The thread is gone (a crash, a kill): its jobs have no verdict, and the *)
(* respawn that waited for it has failed.                                  *)
Dead(s) ==
  LET t == [s EXCEPT !.worker = "down", !.hung = "no", !.jobs = <<>>,
                     !.sup = IF s.worker = "starting" THEN Awaited(s, FALSE) ELSE @]
  IN  IF s.jobs = <<>> THEN t ELSE NoVerdict(t)

(* _bringUp, once the new thread is READY. *)
BroughtUp(s) ==
  [s EXCEPT !.worker = "ready", !.fails = 0, !.probeOut = FALSE,
            !.sup = Awaited(s, TRUE), !.streak = 0]

------------------------------------------------------------------------------
(* tick: what it does to one worker, in order *)

Reap(s) == IF s.worker = "ready" /\ s.hung = "overdue" THEN Dead(s) ELSE s

(* _fault: the supervisor restarts the worker, or gives it up. *)
Bug_Fault(s) ==
  IF s.worker = "down" /\ s.sup = "running"
  THEN IF s.restarts <= MaxRestarts
       THEN [s EXCEPT !.sup = "restarting", !.worker = "starting", !.restarts = @ + 1]
       ELSE [s EXCEPT !.sup = "escalated"]
  ELSE s
Fault(s) ==
  IF s.worker = "down" /\ s.sup = "running"
  THEN IF s.restarts < MaxRestarts
       THEN [s EXCEPT !.sup = "restarting", !.worker = "starting", !.restarts = @ + 1]
       ELSE [s EXCEPT !.sup = "escalated"]
  ELSE s

Cool(s) ==
  IF s.breaker = "open" /\ s.cooled THEN [s EXCEPT !.probeOut = FALSE, !.breaker = "halfOpen"]
  ELSE s

Healthy(s) == s.worker = "ready" /\ s.hung = "no" /\ s.sup = "running"

Bug_Admits(s) == s.breaker = "closed"
Admits(s) == s.breaker = "closed" \/ (s.breaker = "halfOpen" /\ ~s.probeOut)

Write(s) == [s EXCEPT !.up = (Healthy(s) /\ Admits(s))]

Ticked(s) == Write(Cool(Fault(Reap(s))))

------------------------------------------------------------------------------
(* The steps *)

Become(w, s) == fleet' = [fleet EXCEPT ![w] = s] /\ UNCHANGED <<resets, drainsFirst>>

(* An engine sends a job to a worker the balancer picked. *)
Dispatch(w) ==
  LET s == fleet[w]
      t == OnDispatch(s)
      mark == IF t.probeOut /\ ~s.probeOut THEN "probe" ELSE "job"
  IN  /\ s.up /\ s.worker = "ready" /\ Len(s.jobs) < MaxJobs
      /\ Become(w, [t EXCEPT !.jobs = Append(@, mark)])

(* Engine B tells the fleet before the worker set refuses the job: it is   *)
(* not ready, or its queue is full.  (Engine A tells it only of a job that *)
(* was accepted.)                                                          *)
Refused(w) ==
  LET s == fleet[w]
  IN  /\ s.up
      /\ s.worker # "ready" \/ Len(s.jobs) = MaxJobs
      /\ Become(w, NoVerdict(OnDispatch(s)))

(* The worker answers its oldest job. *)
Reply(w, ok) ==
  LET s == fleet[w]
  IN  /\ s.jobs # <<>>
      /\ Become(w, Verdict([s EXCEPT !.jobs = Tail(@), !.hung = "no",
                                     !.streak = IF ok THEN 0
                                                ELSE IF @ < BreakerFailures THEN @ + 1 ELSE @], ok))

(* A crash, or a visitor's kill, of a thread that may still be starting. *)
Die(w) == fleet[w].worker # "down" /\ Become(w, Dead(fleet[w]))

(* Time passes for a job: hungMs, then hungKillMs. *)
Hang(w) ==
  /\ fleet[w].jobs # <<>> /\ fleet[w].hung = "no"
  /\ Become(w, [fleet[w] EXCEPT !.hung = "hung"])
Overrun(w) == fleet[w].hung = "hung" /\ Become(w, [fleet[w] EXCEPT !.hung = "overdue"])

(* Time passes for an open breaker.  A tick comes sooner than the end of   *)
(* the cool-down, so the worker is out of the balancer by then.            *)
CoolDown(w) ==
  /\ fleet[w].breaker = "open" /\ ~fleet[w].cooled /\ ~fleet[w].up
  /\ drainsFirst => fleet[w].jobs = <<>>
  /\ Become(w, [fleet[w] EXCEPT !.cooled = TRUE])

Tick(w) == fleet[w].sup # "none" /\ Become(w, Ticked(fleet[w]))

(* A thread says READY, and the supervisor's restart or start resolves. *)
Restarted(w) == fleet[w].worker = "starting" /\ Become(w, BroughtUp(fleet[w]))

(* reset, up to its first await: at any time, in any state of the worker,  *)
(* other resets that have not ended included.                              *)
Reset(w) ==
  /\ resets < MaxResets
  /\ resets' = resets + 1
  /\ fleet' = [fleet EXCEPT ![w].sup = "none", ![w].tearing = @ + 1]
  /\ UNCHANGED drainsFirst

(* _build, up to the respawn: a new supervisor, whose start is refused at  *)
(* once where the set refuses to replace a thread that is there.           *)
Built(s) ==
  [s EXCEPT !.restarts = 0, !.breaker = "closed", !.fails = 0, !.probeOut = FALSE,
            !.late = @ + s.tearing - 1, !.tearing = 0]
Build(w, s) ==
  \/ Become(w, [Dead(Built(s)) EXCEPT !.worker = "starting", !.sup = "starting"])
  \/ s.worker # "down" /\ Become(w, [Built(s) EXCEPT !.sup = "failed"])

(* A reset's teardown ends and it builds.  The scope in place is torn down *)
(* with its worker; one that was replaced meanwhile had its worker killed  *)
(* already, or kills that of the scope that replaced it.                   *)
Rebuild(w) ==
  LET s == fleet[w]
  IN  \/ s.tearing > 0 /\ Build(w, Dead(s))
      \/ s.late > 0 /\ \E t \in {s, Dead(s)} : Build(w, t)

WorkerStep(w) ==
  \/ Dispatch(w) \/ Refused(w)
  \/ \E ok \in BOOLEAN : Reply(w, ok)
  \/ Die(w) \/ Hang(w) \/ Overrun(w) \/ CoolDown(w)
  \/ Tick(w) \/ Restarted(w)
  \/ Reset(w) \/ Rebuild(w)

Next == \E w \in Workers : WorkerStep(w)

Spec == Init /\ [][Next]_vars

(* The cron ticks, time passes, the workers answer or hang for too long,   *)
(* a respawn ends with its thread READY or dead, and so do the awaits of a *)
(* reset.                                                                  *)
Answers(w) == Overrun(w) \/ \E ok \in BOOLEAN : Reply(w, ok)
Boots(w) == Restarted(w) \/ (fleet[w].worker = "starting" /\ Die(w))
Fairness ==
  \A w \in Workers :
    /\ WF_vars(Tick(w))
    /\ WF_vars(CoolDown(w))
    /\ WF_vars(Answers(w))
    /\ WF_vars(Boots(w))
    /\ WF_vars(Rebuild(w))
FairSpec == Spec /\ Fairness

------------------------------------------------------------------------------
(* Properties *)

(* Every worker's state has its type, and only a thread that is there has  *)
(* jobs or a hung one.                                                     *)
TypeOK ==
  /\ fleet \in [Workers -> WorkerState]
  /\ resets \in 0 .. MaxResets
  /\ drainsFirst \in BOOLEAN
  /\ \A w \in Workers :
       LET s == fleet[w]
       IN  /\ Len(s.jobs) <= MaxJobs
           /\ s.worker # "ready" => s.jobs = <<>>
           /\ s.jobs = <<>> => s.hung = "no"

(* HalfOpen admits exactly one probe: no second job reaches the worker     *)
(* while it is unanswered (fleet.js onDispatch).                           *)
OneProbe ==
  \A w \in Workers :
    drainsFirst /\ fleet[w].breaker = "halfOpen" => Len(fleet[w].jobs) <= 1

(* The probe flag is neither leaked nor lost, and the probe is one: in     *)
(* HalfOpen the flag is up exactly while a probe is unanswered, through    *)
(* deaths, hangs, refusals and restarts (fleet.js onDispatch, onResult,    *)
(* _bringUp, tick).  Promised when a queue is answered within the          *)
(* cool-down: otherwise the answer of an older job is taken for the        *)
(* probe's.                                                                *)
ProbeTracked ==
  /\ TypeOK
  /\ OneProbe
  /\ \A w \in Workers :
       drainsFirst /\ fleet[w].breaker = "halfOpen" =>
         fleet[w].probeOut = ("probe" \in Range(fleet[w].jobs))

(* Only the worker's own failures trip its breaker, as many in a row as    *)
(* configured: a death, a full queue or a refusal never counts (onResult,  *)
(* no verdict).                                                            *)
TripsOnVerdicts ==
  [][\A w \in Workers :
       fleet[w].breaker = "closed" /\ fleet'[w].breaker = "open" =>
         fleet'[w].streak = BreakerFailures]_vars

(* No worker is lost in silence: again and again each is in the balancer,  *)
(* or its supervisor has escalated it, or the reset that built its         *)
(* supervisor has rejected, whatever crashes, hangs and refusals hit its   *)
(* probes, and however resets, restarts and deaths overlap (fleet.js,      *)
(* header; page.js fault, "reset failed").  The last case is not spare: a  *)
(* worker that dies while its reset respawns it stays dead, neither        *)
(* faulted nor escalated, for its supervisor is not RUNNING (tick).        *)
NeverStranded ==
  \A w \in Workers : []<>(fleet[w].up \/ fleet[w].sup \in {"escalated", "failed"})
===============================================================================
