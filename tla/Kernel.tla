--------------------------------- MODULE Kernel --------------------------------
(***************************************************************************)
(* The composition root (pickEcosystem/live, kernel.js) over virtual       *)
(* workers, as virtual.js runs it: the clock moves a millisecond at a      *)
(* time, the workers' events are delivered, then the cron jobs tick.       *)
(* Between two rounds anything else may run: the steps of a graceful       *)
(* shutdown, its deadline, a call of halt, a fault.                        *)
(*                                                                         *)
(* A request is one job here (tries = 1; Engine has the failover).  The    *)
(* worker set is lite-worker-pool's: a worker executes up to SetSlots jobs *)
(* and queues up to QueueCap behind them, and jobs of a worker that goes   *)
(* away fail at once.                                                      *)
(***************************************************************************)
EXTENDS VirtualWorkers, Sequences, Functions

CONSTANTS
  WorkerCount,   \* cfg.workers
  SetSlots,      \* cfg.slots
  QueueCap,      \* cfg.queue
  MaxThrows      \* bound on how often set.dispose() throws in halt

ASSUME KernelAssumption ==
  /\ WorkerCount \in Nat \ {0}
  /\ SetSlots \in 1 .. Ring      \* RING is at least the set's largest slots
  /\ QueueCap \in Nat
  /\ MaxThrows \in Nat
  /\ Jobs \subseteq Nat            \* the engine's request slots

Workers == 0 .. WorkerCount-1

VARIABLES
  tr,            \* the transport of each worker
  place,         \* the worker each job is at
  queue,         \* the jobs queued behind a worker's slots
  crash,         \* ctl[CTL_CRASH], a transient fault
  left,          \* the rest of the millisecond the clock is to move by
  admitting,     \* traffic.admitting
  draining,      \* engine.draining
  supervising,   \* the supervisors run
  orch,          \* the next step of the orchestrator, "off" before shutdown
  code,          \* what the shutdown's promise resolved with
  halted, halting,
  throws         \* history: the calls of dispose() that threw

workVars == <<tr, place, queue, crash>>
flowVars == <<admitting, draining, supervising>>
haltVars == <<halted, halting, throws>>
vars == <<workVars, left, flowVars, orch, code, haltVars>>

Pending == {j \in Jobs : place[j] # None}     \* engine.pending() counts these
JobsAt(i) == {j \in Jobs : place[j] = i}
Settled(S) == [j \in Jobs |-> IF j \in S THEN None ELSE place[j]]

(* bootKernel resolved: every worker said READY. *)
Init ==
  /\ tr = [i \in Workers |-> Delivered(Moved(Spawned, Startup))]
  /\ place = [j \in Jobs |-> None]
  /\ queue = [i \in Workers |-> <<>>]
  /\ crash = [i \in Workers |-> FALSE]
  /\ left = 0
  /\ admitting = TRUE /\ draining = FALSE /\ supervising = TRUE
  /\ orch = "off" /\ code = None
  /\ halted = FALSE /\ halting = FALSE /\ throws = 0

------------------------------------------------------------------------------
(* run(ms): advance(t), then tick(t) *)

Idle == left = None
Advance ==
  /\ Idle
  /\ left' = 1
  /\ UNCHANGED <<workVars, flowVars, orch, code, haltVars>>

(* The clock moves to the next event within the millisecond. *)
NextEvents == UNION {Events(tr[i]) : i \in Workers}
When(d) == [i \in Workers |-> Moved(tr[i], d)]
MoveClock ==
  /\ ~Idle
  /\ \E d \in NextEvents \ {0} :
       /\ d = Min(NextEvents) /\ d <= left
       /\ tr' = When(d)
       /\ left' = left - d
  /\ UNCHANGED <<place, queue, crash, flowVars, orch, code, haltVars>>

(* READY *)
Readied(w) ==
  /\ IsReadying(tr[w])
  /\ tr' = [tr EXCEPT ![w] = Delivered(@)]
  /\ UNCHANGED <<place, queue>>

(* A worker dies with all of its jobs. *)
Died(w) ==
  /\ ~IsReadying(tr[w]) /\ Oldest(tr[w]).crash
  /\ tr' = [tr EXCEPT ![w] = Delivered(@)]
  /\ place' = Settled(JobsAt(w))
  /\ queue' = [queue EXCEPT ![w] = <<>>]

(* A reply settles a job, and the set sends the next one of its queue from *)
(* inside the callback.                                                    *)
Replied(w) ==
  /\ ~IsReadying(tr[w]) /\ ~Oldest(tr[w]).crash
  /\ place' = Settled({Oldest(tr[w]).job})
  /\ IF queue[w] = <<>>
     THEN tr' = [tr EXCEPT ![w] = Delivered(@)] /\ UNCHANGED queue
     ELSE /\ \E s \in Service :
               tr' = [tr EXCEPT ![w] = Sent(Delivered(@), queue[w][1], s, crash[w])]
          /\ queue' = [queue EXCEPT ![w] = Tail(@)]

(* The first worker with an event that is due is served, by a callback of  *)
(* the worker set.                                                         *)
Deliver ==
  /\ ~Idle
  /\ \E w \in Workers :
       /\ Due(tr[w]) /\ \A v \in 0 .. w-1 : ~Due(tr[v])
       /\ Readied(w) \/ Died(w) \/ Replied(w)
  /\ UNCHANGED <<crash, left, flowVars, orch, code, haltVars>>

(* The traffic job: a request is sent to a worker that is up, or queued    *)
(* there.  The set passes it on while a slot is free.                      *)
Admit(i, now) ==
  /\ admitting /\ ~draining
  /\ Pending # Jobs /\ Ready(now[i])
  /\ LET j == Min(Jobs \ Pending)
     IN  /\ place' = [place EXCEPT ![j] = i]
         /\ \/ /\ now[i].count < SetSlots
               /\ \E s \in Service : tr' = [now EXCEPT ![i] = Sent(@, j, s, crash[i])]
               /\ UNCHANGED queue
            \/ /\ now[i].count >= SetSlots
               /\ Len(queue[i]) < QueueCap
               /\ queue' = [queue EXCEPT ![i] = Append(@, j)]
               /\ tr' = now

(* The rest of the millisecond passes and the cron jobs tick, none of them *)
(* in a halted kernel.                                                     *)
Tick ==
  /\ ~Idle
  /\ \A d \in NextEvents : d > left
  /\ left' = None
  /\ IF halted
     THEN tr' = When(left) /\ UNCHANGED <<place, queue, crash>>
     ELSE /\ \/ tr' = When(left) /\ UNCHANGED <<place, queue>>
             \/ \E i \in Workers : Admit(i, When(left))
          /\ UNCHANGED crash
  /\ UNCHANGED <<flowVars, orch, code, haltVars>>

(* A supervisor that the fleet job told of a death respawns the worker,    *)
(* cured of its transient faults, when its own awaits are over: any time   *)
(* later, if at all.  A set that is disposed of respawns nothing.          *)
Respawn(i) ==
  /\ Idle
  /\ supervising /\ ~halted
  /\ tr[i].dead
  /\ tr' = [tr EXCEPT ![i] = Spawned]
  /\ crash' = [crash EXCEPT ![i] = FALSE]
  /\ UNCHANGED <<place, queue, left, flowVars, orch, code, haltVars>>

------------------------------------------------------------------------------
(* Faults (fleet.fault, fleet.heal) *)

SetCrash(i, on) ==
  /\ Idle
  /\ crash' = [crash EXCEPT ![i] = on]
  /\ UNCHANGED <<tr, place, queue, left, flowVars, orch, code, haltVars>>

(* set.kill(i) *)
Killed(i) ==
  /\ tr' = [tr EXCEPT ![i] = Gone]
  /\ place' = Settled(JobsAt(i))
  /\ queue' = [queue EXCEPT ![i] = <<>>]
Kill(i) ==
  /\ Idle
  /\ Killed(i)
  /\ UNCHANGED <<crash, left, flowVars, orch, code, haltVars>>

------------------------------------------------------------------------------
(* halt() and shutdown() *)

(* set.dispose(): every worker is terminated and its jobs fail, or it      *)
(* throws first.                                                           *)
Disposes(done) ==
  IF done
  THEN /\ tr' = [i \in Workers |-> Gone]
       /\ place' = [j \in Jobs |-> None]
       /\ queue' = [i \in Workers |-> <<>>]
  ELSE UNCHANGED <<tr, place, queue>>

(* What halt leaves when the set is, or is not, disposed of in it. *)
Bug_HaltEnds(done) ==
  /\ halted' = TRUE
  /\ UNCHANGED halting
Bug_HaltEndsLatched(done) ==
  /\ halted' = done
  /\ halting' = ~done
HaltEnds(done) ==
  /\ halted' = done
  /\ UNCHANGED halting

(* halt() once the set was disposed of already, or not. *)
HaltBody(before) ==
  IF halted \/ halting
  THEN /\ Disposes(before)
       /\ UNCHANGED <<admitting, draining, haltVars>>
  ELSE \E ok \in IF throws < MaxThrows THEN BOOLEAN ELSE {TRUE} :
         /\ admitting' = FALSE
         /\ draining' = TRUE
         /\ Disposes(before \/ ok)
         /\ HaltEnds(ok)
         /\ throws' = IF ok THEN throws ELSE throws + 1

Halt ==
  /\ Idle
  /\ HaltBody(FALSE)
  /\ UNCHANGED <<crash, left, supervising, orch, code>>

(* The exit callback: halt, and resolve whatever halt does. *)
Bug_Exit(x, before) ==
  /\ HaltBody(before)
  /\ code' = IF code = None /\ halted' THEN x ELSE code
Exit(x, before) ==
  /\ HaltBody(before)
  /\ code' = IF code = None THEN x ELSE code

(* shutdown(): the orchestrator drains at once, then awaits its steps.     *)
Bug_Shutdown ==
  /\ Idle
  /\ orch = "off"
  /\ orch' = "supervisors"
  /\ UNCHANGED <<workVars, left, flowVars, code, haltVars>>
Shutdown ==
  /\ Idle
  /\ orch = "off"
  /\ admitting' = FALSE
  /\ draining' = TRUE
  /\ orch' = "supervisors"
  /\ UNCHANGED <<workVars, left, supervising, code, haltVars>>

StopSupervisors ==
  /\ Idle
  /\ orch = "supervisors"
  /\ supervising' = FALSE
  /\ orch' = "quiesce"
  /\ UNCHANGED <<workVars, left, admitting, draining, code, haltVars>>

Bug_Quiesce ==
  /\ Idle
  /\ orch = "quiesce"
  /\ orch' = "scopes"
  /\ UNCHANGED <<workVars, left, flowVars, code, haltVars>>
Quiesce ==
  /\ Idle
  /\ orch = "quiesce"
  /\ Pending = {}
  /\ orch' = "scopes"
  /\ UNCHANGED <<workVars, left, flowVars, code, haltVars>>

(* fleet.shutdownScopes(): the teardown of a scope kills its worker, one   *)
(* scope after another with an await between them, to the last.            *)
RetireScope(i) ==
  /\ Idle
  /\ orch = "scopes"
  /\ ~tr[i].dead /\ \A v \in 0 .. i-1 : tr[v].dead
  /\ Killed(i)
  /\ UNCHANGED <<crash, left, flowVars, orch, code, haltVars>>
ScopesRetired ==
  /\ Idle
  /\ orch = "scopes"
  /\ \A i \in Workers : tr[i].dead
  /\ orch' = "teardown"
  /\ UNCHANGED <<workVars, left, flowVars, code, haltVars>>

(* stop-cron, the root container's teardown (set.dispose) and exit(0), or  *)
(* exit(1) when that dispose throws.                                       *)
Teardown ==
  /\ Idle
  /\ orch = "teardown"
  /\ \E x \in {0, 1} : Exit(x, x = 0)
  /\ orch' = "over"
  /\ UNCHANGED <<crash, left, supervising>>

(* The deadline passes while a step hangs: exit(2).  The steps go on if    *)
(* the one that hung comes back after all.                                 *)
Deadline ==
  /\ Idle
  /\ orch \notin {"off", "over"} /\ code = None
  /\ Exit(2, FALSE)
  /\ UNCHANGED <<crash, left, supervising, orch>>

Orchestrate ==
  \/ StopSupervisors \/ Quiesce
  \/ \E i \in Workers : RetireScope(i)
  \/ ScopesRetired \/ Teardown

Next ==
  \/ Advance \/ MoveClock \/ Deliver \/ Tick
  \/ \E i \in Workers, on \in BOOLEAN : SetCrash(i, on)
  \/ \E i \in Workers : Kill(i) \/ Respawn(i)
  \/ Shutdown \/ Orchestrate \/ Deadline \/ Halt

Spec == Init /\ [][Next]_vars

(* The rounds of run() end, the deadline is a timer that fires, and a      *)
(* caller whose halt failed calls it again.  No step of the orchestrator   *)
(* is sure to end.                                                         *)
FairSpec ==
  /\ Spec
  /\ WF_vars(MoveClock \/ Deliver \/ Tick)
  /\ SF_vars(Deadline)
  /\ SF_vars(code # None /\ Halt)

------------------------------------------------------------------------------
(* Properties *)

(* No request is stranded, and none is answered twice: each is either in   *)
(* the ring of a live worker, once, in the order in which it will be       *)
(* answered, or queued behind a worker whose slots are all taken; and      *)
(* nothing else is in a ring (vworker.js send, deliverAt, terminate).      *)
NothingStranded ==
  \A i \in Workers :
    LET ring == [n \in 1 .. tr[i].count |-> tr[i].cell[(tr[i].head + n - 1) % Ring]]
        posted == {ring[n].job : n \in DOMAIN ring}
    IN  /\ Cardinality(posted) = tr[i].count
        /\ \A m, n \in DOMAIN ring : m < n => ring[m].due <= ring[n].due
        /\ posted \cup Range(queue[i]) = JobsAt(i)
        /\ posted \cap Range(queue[i]) = {}
        /\ queue[i] # <<>> => tr[i].count = SetSlots
        /\ tr[i].dead => JobsAt(i) = {}

(* The kernel keeps the promise of Lifecycle: it drains once and for all,  *)
(* admits nothing from then on, and in the very step that publishes halted *)
(* the last worker is gone and the last request settled, however deadline, *)
(* orchestrator, faults and other calls of halt interleave (kernel.js      *)
(* halt: published only after set.dispose(); a reboot is gated on it).     *)
L == INSTANCE Lifecycle WITH
       Requests <- Jobs, Threads <- Workers,
       phase <- IF halted THEN "halted" ELSE IF draining THEN "draining" ELSE "serving",
       pending <- Pending,
       up <- {i \in Workers : ~tr[i].dead}
LifecycleSpec == L!Spec

(* A graceful shutdown serves what it had admitted: the orchestrator       *)
(* retires the workers only when nothing is pending, whatever was admitted *)
(* or queued when it began (kernel.js, drain before quiesce before         *)
(* scopes).                                                                *)
RetiresIdle == [][(\E i \in Workers : RetireScope(i)) => Pending = {}]_vars

(* A shutdown ends: its promise resolves by the deadline at the latest,    *)
(* even if a step hangs and dispose throws, and the kernel is halted in    *)
(* the end: a halt that failed can be tried again (kernel.js shutdown, the *)
(* finally of exit and of halt).                                           *)
ShutdownEnds == orch # "off" ~> code # None /\ halted
===============================================================================
