------------------------------ MODULE KernelProofs -----------------------------
(***************************************************************************)
(* The kernel keeps the promise of Lifecycle, for any number of workers    *)
(* and jobs, any ring and queue, and however often dispose() throws; the   *)
(* orchestrator retires idle workers only; and no request is stranded or   *)
(* answered twice.                                                         *)
(*                                                                         *)
(* The first two: every shutdown and every halt stops admission and drains *)
(* in one step, and nothing takes that back, so from then on no step adds  *)
(* to what is pending; the orchestrator runs in a draining kernel only.    *)
(* A kernel is halted in a step that disposes of its workers, and in a     *)
(* halted kernel no worker has an event, none is respawned and nothing is  *)
(* pending.                                                                *)
(*                                                                         *)
(* The last: a worker's line is its ring, read from the head, and the      *)
(* queue behind it.  A send makes the line longer at the ring's end or the *)
(* queue's, a reply shortens it at the head and moves one job from the     *)
(* queue to the ring, and the clock brings all replies nearer by as much;  *)
(* so the line holds the jobs that are at the worker, each once, its       *)
(* replies in order and none due after the worker is free.                 *)
(*                                                                         *)
(* And WeightedRandom, whose balancer the kernel's engine may be given:    *)
(* its alias table and its fallback scan give every endpoint exactly its   *)
(* share of the built weights.  While the table is filled, the columns     *)
(* that are open hold the total on average, so that neither stack runs     *)
(* empty before the other but for columns that are full; and what is left  *)
(* of an endpoint's column and what others lend it are its share           *)
(* throughout.  The scan cuts 0 .. ew-1 into one stretch for each endpoint *)
(* that is up, as long as its weight.                                      *)
(***************************************************************************)
EXTENDS Kernel, WeightedRandom, DataProofs

------------------------------------------------------------------------------
(* What the operations on a transport do to its life. *)

IsTransport(t) == "dead" \in DOMAIN t /\ t.dead \in BOOLEAN

LEMMA MovedLives ==
  ASSUME NEW t, NEW d, IsTransport(t)
  PROVE  IsTransport(Moved(t, d)) /\ Moved(t, d).dead = t.dead
  BY DEF IsTransport, Moved

LEMMA SentLives ==
  ASSUME NEW t, NEW j, NEW s, NEW c, IsTransport(t)
  PROVE  IsTransport(Sent(t, j, s, c))
  BY DEF IsTransport, Sent

LEMMA FreshTransports ==
  IsTransport(Spawned) /\ IsTransport(Gone) /\ Gone.dead
  BY DEF IsTransport, Spawned, Gone

LEMMA DeliveredLives ==
  ASSUME NEW t, IsTransport(t)
  PROVE  IsTransport(Delivered(t))
  BY FreshTransports DEF IsTransport, Delivered, Popped

------------------------------------------------------------------------------
(* The invariant *)

Shape ==
  /\ tr = [i \in Workers |-> tr[i]]
  /\ \A i \in Workers : IsTransport(tr[i])
Flags == admitting \in BOOLEAN /\ draining \in BOOLEAN /\ halted \in BOOLEAN
AllDead == \A i \in Workers : tr[i].dead

IInv ==
  /\ Shape
  /\ Flags
  /\ draining => ~admitting
  /\ orch # "off" => draining
  /\ orch = "scopes" => Pending = {}
  /\ halted => draining /\ Pending = {} /\ AllDead

LEMMA InitOK == Init => IInv /\ L!Init
<1> SUFFICES ASSUME Init PROVE IInv /\ L!Init
  OBVIOUS
<1> DEFINE t == Delivered(Moved(Spawned, Startup))
<1>1. IsTransport(t) /\ \A i \in Workers : tr[i] = t
  BY FreshTransports, MovedLives, DeliveredLives DEF Init
<1>2. Shape
  BY <1>1 DEF Init, Shape
<1>3. Pending = {}
  BY DEF Init, Pending
<1>4. ~t.dead
  <2>1. Moved(Spawned, Startup).readyIn = 0 /\ ~Moved(Spawned, Startup).dead
    BY TransportAssumption DEF Moved, Spawned, None
  <2> QED
    BY <2>1 DEF Delivered, IsReadying, Moved, Spawned
<1>5. {i \in Workers : ~tr[i].dead} = Workers
  BY <1>1, <1>4
<1> QED
  BY <1>2, <1>3, <1>5 DEF Init, IInv, Flags, L!Init

------------------------------------------------------------------------------
(* The steps of Lifecycle that the steps of the kernel map to. *)

(* A step that adds to nothing pending and touches none of the flags. *)
LEMMA QuietStep ==
  ASSUME IInv, Shape', Pending' \subseteq Pending,
         UNCHANGED <<admitting, draining, halted>>,
         orch' # "off" => draining,
         orch' = "scopes" => Pending' = {},
         halted => AllDead'
  PROVE  IInv' /\ [L!Next]_L!vars
<1>1. IInv'
  BY DEF IInv, Flags
<1>2. CASE halted
  <2>1. Pending' = Pending
    BY <1>2 DEF IInv
  <2>2. {i \in Workers : ~tr'[i].dead} = {i \in Workers : ~tr[i].dead}
    BY <1>2 DEF IInv, AllDead
  <2> QED
    BY <1>1, <1>2, <2>1, <2>2 DEF L!vars
<1>3. CASE ~halted /\ draining
  <2>1. L!Settle
    BY <1>3 DEF L!Settle
  <2> QED
    BY <1>1, <2>1 DEF L!Next
<1>4. CASE ~halted /\ ~draining
  <2>1. L!Serve
    BY <1>4 DEF L!Serve, Pending
  <2> QED
    BY <1>1, <2>1 DEF L!Next
<1> QED
  BY <1>2, <1>3, <1>4

(* A step of a kernel that serves. *)
LEMMA ServingStep ==
  ASSUME IInv, Shape', ~draining, UNCHANGED <<admitting, draining, halted, orch>>
  PROVE  IInv' /\ [L!Next]_L!vars
<1>1. ~halted /\ orch = "off"
  BY DEF IInv
<1>2. IInv'
  BY <1>1 DEF IInv, Flags
<1>3. L!Serve
  BY <1>1 DEF L!Serve, Pending
<1> QED
  BY <1>2, <1>3 DEF L!Next

(* Jobs that are settled are not pending, and nothing else changes. *)
LEMMA SettledLeaves ==
  ASSUME NEW S, place' = Settled(S)
  PROVE  Pending' \subseteq Pending
  BY DEF Settled, Pending

(* What set.dispose() does, or leaves when it throws. *)
LEMMA DisposesAll ==
  ASSUME Disposes(TRUE)
  PROVE  Shape' /\ AllDead' /\ Pending' = {}
  BY FreshTransports DEF Disposes, Shape, AllDead, Pending

LEMMA DisposesNone ==
  ASSUME Shape, Disposes(FALSE)
  PROVE  Shape' /\ UNCHANGED <<tr, place>> /\ Pending' = Pending
  BY DEF Disposes, Shape, Pending

LEMMA DisposesAny ==
  ASSUME Shape, NEW b \in BOOLEAN, Disposes(b)
  PROVE  Shape' /\ Pending' \subseteq Pending /\ (AllDead => AllDead')
<1>1. CASE b
  BY <1>1, DisposesAll
<1>2. CASE ~b
  BY <1>2, DisposesNone DEF AllDead
<1> QED
  BY <1>1, <1>2

(* halt(): it halts when the set is disposed of, and drains when it throws.*)
(* A set that was disposed of before belongs to a kernel that drains.      *)
LEMMA HaltStep ==
  ASSUME IInv, NEW before \in BOOLEAN, HaltBody(before), before => draining,
         orch' # "off" => draining', orch' # "scopes" \/ orch' = orch
  PROVE  IInv' /\ [L!Next]_L!vars
<1>1. CASE halted \/ halting
  <2>1. Disposes(before) /\ UNCHANGED <<admitting, draining, halted>>
    BY <1>1 DEF HaltBody, haltVars
  <2>2. Shape' /\ Pending' \subseteq Pending /\ (AllDead => AllDead')
    BY <2>1, DisposesAny DEF IInv
  <2>3. halted => AllDead'
    BY <2>2 DEF IInv
  <2>4. orch' = "scopes" => Pending' = {}
    BY <2>2 DEF IInv
  <2> QED
    BY <2>1, <2>2, <2>3, <2>4, QuietStep
<1>2. CASE ~(halted \/ halting)
  <2>1. PICK ok \in BOOLEAN :
          /\ ~admitting' /\ draining'
          /\ Disposes(before \/ ok)
          /\ halted' = ok
    BY <1>2 DEF HaltBody, HaltEnds
  <2>2. admitting' = FALSE /\ draining' = TRUE
    BY <1>2 DEF HaltBody
  <2>3. Shape' /\ Pending' \subseteq Pending
    BY <2>1, DisposesAny DEF IInv
  <2>4. CASE ok
    <3>1. AllDead' /\ Pending' = {}
      BY <2>1, <2>4, DisposesAll
    <3>2. IInv'
      BY <2>1, <2>2, <2>3, <3>1 DEF IInv, Flags
    <3>3. L!Halt
      BY <1>2, <2>1, <2>2, <2>4, <3>1 DEF L!Halt, AllDead
    <3> QED
      BY <3>2, <3>3 DEF L!Next
  <2>5. CASE ~ok
    <3>1. IInv'
      BY <2>1, <2>2, <2>3, <2>5 DEF IInv, Flags
    <3>2. CASE draining
      <4>1. L!Settle
        BY <1>2, <2>1, <2>2, <2>3, <2>5, <3>2 DEF L!Settle
      <4> QED
        BY <3>1, <4>1 DEF L!Next
    <3>3. CASE ~draining
      <4>1. UNCHANGED <<tr, place>> /\ Pending' = Pending
        BY <2>1, <2>5, <3>3, DisposesNone DEF IInv
      <4>2. L!Drain
        BY <1>2, <2>1, <2>2, <2>5, <3>3, <4>1 DEF L!Drain
      <4> QED
        BY <3>1, <4>2 DEF L!Next
    <3> QED
      BY <3>2, <3>3
  <2> QED
    BY <2>4, <2>5
<1> QED
  BY <1>1, <1>2

------------------------------------------------------------------------------
(* The clock's rounds *)

LEMMA WhenLives ==
  ASSUME Shape, NEW d
  PROVE  \A i \in Workers : IsTransport(When(d)[i]) /\ When(d)[i].dead = tr[i].dead
  BY MovedLives DEF Shape, When

LEMMA MoveClockStep ==
  ASSUME IInv, MoveClock
  PROVE  IInv' /\ [L!Next]_L!vars
<1>1. PICK d : tr' = When(d)
  BY DEF MoveClock
<1>2. \A i \in Workers : IsTransport(tr'[i]) /\ tr'[i].dead = tr[i].dead
  BY <1>1, WhenLives DEF IInv
<1>3. Shape'
  BY <1>1, <1>2 DEF Shape, When
<1>4. halted => AllDead'
  BY <1>2 DEF IInv, AllDead
<1>5. Pending' = Pending /\ UNCHANGED <<admitting, draining, halted, orch>>
  BY DEF MoveClock, Pending, flowVars, haltVars
<1> QED
  BY <1>3, <1>4, <1>5, QuietStep DEF IInv

LEMMA DeliverStep ==
  ASSUME IInv, Deliver
  PROVE  IInv' /\ [L!Next]_L!vars
<1>1. PICK w \in Workers : Due(tr[w]) /\ (Readied(w) \/ Died(w) \/ Replied(w))
  BY DEF Deliver
<1>2. ~halted
  BY <1>1 DEF Due, Events, IInv, AllDead
<1>3. UNCHANGED <<admitting, draining, halted, orch>>
  BY DEF Deliver, flowVars, haltVars
<1>4. IsTransport(Delivered(tr[w]))
  BY DeliveredLives DEF IInv, Shape
<1>5. Shape' /\ Pending' \subseteq Pending
  <2>1. CASE Readied(w)
    BY <2>1, <1>4 DEF Readied, Shape, Pending, IInv
  <2>2. CASE Died(w)
    BY <2>2, <1>4, SettledLeaves DEF Died, Shape, IInv
  <2>3. CASE Replied(w) /\ queue[w] = <<>>
    BY <2>3, <1>4, SettledLeaves DEF Replied, Shape, IInv
  <2>4. CASE Replied(w) /\ queue[w] # <<>>
    <3>1. PICK s \in Service :
            tr' = [tr EXCEPT ![w] = Sent(Delivered(@), queue[w][1], s, crash[w])]
      BY <2>4 DEF Replied
    <3>2. IsTransport(Sent(Delivered(tr[w]), queue[w][1], s, crash[w]))
      BY <1>4, SentLives
    <3>3. Shape'
      BY <3>1, <3>2 DEF Shape, IInv
    <3> QED
      BY <2>4, <3>3, SettledLeaves DEF Replied
  <2> QED
    BY <1>1, <2>1, <2>2, <2>3, <2>4
<1> QED
  BY <1>2, <1>3, <1>5, QuietStep DEF IInv

LEMMA TickStep ==
  ASSUME IInv, Tick
  PROVE  IInv' /\ [L!Next]_L!vars
<1>1. UNCHANGED <<admitting, draining, halted, orch>>
  BY DEF Tick, flowVars, haltVars
<1> DEFINE now == When(left)
<1>2. /\ now = [i \in Workers |-> now[i]]
      /\ \A i \in Workers : IsTransport(now[i])
  BY WhenLives DEF When, IInv
<1>3. CASE halted
  <2>1. tr' = When(left) /\ Pending' = Pending
    BY <1>3 DEF Tick, Pending
  <2>2. \A i \in Workers : IsTransport(tr'[i]) /\ tr'[i].dead = tr[i].dead
    BY <2>1, WhenLives DEF IInv
  <2>3. Shape'
    BY <2>1, <2>2 DEF Shape, When
  <2>4. AllDead'
    BY <1>3, <2>2 DEF IInv, AllDead
  <2> QED
    BY <1>1, <2>1, <2>3, <2>4, QuietStep DEF IInv
<1>4. CASE ~halted /\ tr' = now /\ UNCHANGED place
  <2>1. Shape' /\ Pending' = Pending
    BY <1>2, <1>4 DEF Shape, Pending
  <2> QED
    BY <1>1, <1>4, <2>1, QuietStep DEF IInv
<1>5. CASE \E i \in Workers : Admit(i, now)
  <2>1. PICK i \in Workers : Admit(i, now)
    BY <1>5
  <2> DEFINE j == Min(Jobs \ Pending)
  <2>2. \/ tr' = now
        \/ \E s \in Service : tr' = [now EXCEPT ![i] = Sent(@, j, s, crash[i])]
    BY <2>1 DEF Admit
  <2>3. \A s \in Service : IsTransport(Sent(now[i], j, s, crash[i]))
    BY <1>2, SentLives
  <2> HIDE DEF now, j
  <2>4. Shape'
    <3>1. CASE tr' = now
      BY <1>2, <3>1 DEF Shape
    <3>2. CASE \E s \in Service : tr' = [now EXCEPT ![i] = Sent(@, j, s, crash[i])]
      BY <1>2, <2>3, <3>2 DEF Shape
    <3> QED
      BY <2>2, <3>1, <3>2
  <2>5. ~draining
    BY <2>1 DEF Admit
  <2> QED
    BY <1>1, <2>4, <2>5, ServingStep
<1> QED
  BY <1>3, <1>4, <1>5 DEF Tick

------------------------------------------------------------------------------
(* Faults, and the steps of a shutdown *)

LEMMA KillStep ==
  ASSUME IInv, NEW i \in Workers, Kill(i) \/ RetireScope(i)
  PROVE  IInv' /\ [L!Next]_L!vars
<1>1. tr' = [tr EXCEPT ![i] = Gone] /\ Pending' \subseteq Pending
  BY SettledLeaves DEF Kill, RetireScope, Killed
<1>2. Shape'
  BY <1>1, FreshTransports DEF Shape, IInv
<1>3. halted => AllDead'
  BY <1>1, FreshTransports DEF IInv, AllDead, Shape
<1>4. UNCHANGED <<admitting, draining, halted, orch>>
  BY DEF Kill, RetireScope, flowVars, haltVars
<1> QED
  BY <1>1, <1>2, <1>3, <1>4, QuietStep DEF IInv

LEMMA RespawnStep ==
  ASSUME IInv, NEW i \in Workers, Respawn(i)
  PROVE  IInv' /\ [L!Next]_L!vars
<1>1. tr' = [tr EXCEPT ![i] = Spawned] /\ Pending' = Pending /\ ~halted
  BY DEF Respawn, Pending
<1>2. Shape'
  BY <1>1, FreshTransports DEF Respawn, Shape, IInv
<1>3. UNCHANGED <<admitting, draining, halted, orch>>
  BY DEF Respawn, flowVars, haltVars
<1> QED
  BY <1>1, <1>2, <1>3, QuietStep DEF IInv

(* The steps that touch neither a worker nor a request. *)
LEMMA IdleStep ==
  ASSUME IInv, UNCHANGED <<tr, place, admitting, draining, halted>>,
         orch' # "off" => orch # "off",
         orch' = "scopes" => Pending = {}
  PROVE  IInv' /\ [L!Next]_L!vars
<1>1. Shape' /\ Pending' = Pending /\ (halted => AllDead')
  BY DEF IInv, Shape, Pending, AllDead
<1> QED
  BY <1>1, QuietStep DEF IInv

LEMMA ShutdownStep ==
  ASSUME IInv, Shutdown
  PROVE  IInv' /\ [L!Next]_L!vars
<1>1. /\ UNCHANGED <<tr, place, halted>>
      /\ ~admitting' /\ draining' /\ orch' = "supervisors"
      /\ admitting' \in BOOLEAN /\ draining' \in BOOLEAN
  BY DEF Shutdown, workVars, haltVars
<1>2. Shape' /\ Pending' = Pending /\ (AllDead => AllDead')
  BY <1>1 DEF IInv, Shape, Pending, AllDead
<1>3. IInv'
  BY <1>1, <1>2 DEF IInv, Flags
<1>4. CASE draining
  <2>1. (IF halted' THEN "halted" ELSE IF draining' THEN "draining" ELSE "serving")
          = (IF halted THEN "halted" ELSE IF draining THEN "draining" ELSE "serving")
    BY <1>1, <1>4
  <2> QED
    BY <1>1, <1>2, <1>3, <2>1 DEF L!vars
<1>5. CASE ~draining
  <2>1. L!Drain
    BY <1>1, <1>2, <1>5 DEF L!Drain, IInv
  <2> QED
    BY <1>3, <2>1 DEF L!Next
<1> QED
  BY <1>4, <1>5

LEMMA HaltDrains ==
  ASSUME NEW before, HaltBody(before)
  PROVE  draining => draining'
<1>1. CASE halted \/ halting
  <2>1. UNCHANGED <<admitting, draining, haltVars>>
    BY <1>1 DEF HaltBody
  <2> QED
    BY <2>1
<1>2. CASE ~(halted \/ halting)
  <2>1. draining' = TRUE
    BY <1>2 DEF HaltBody
  <2> QED
    BY <2>1
<1> QED
  BY <1>1, <1>2

LEMMA ExitStep ==
  ASSUME IInv, Teardown \/ Deadline \/ Halt
  PROVE  IInv' /\ [L!Next]_L!vars
<1>1. CASE Teardown
  <2>1. PICK x \in {0, 1} : HaltBody(x = 0)
    BY <1>1 DEF Teardown, Exit
  <2>2. orch = "teardown" /\ orch' = "over"
    BY <1>1 DEF Teardown
  <2>3. draining /\ draining'
    BY <2>1, <2>2, HaltDrains DEF IInv
  <2>4. (x = 0) \in BOOLEAN
    OBVIOUS
  <2> QED
    BY <2>1, <2>2, <2>3, <2>4, HaltStep
<1>2. CASE Deadline \/ Halt
  <2>1. HaltBody(FALSE) /\ orch' = orch
    BY <1>2 DEF Deadline, Halt, Exit
  <2>2. orch' # "off" => draining'
    BY <2>1, HaltDrains DEF IInv
  <2> QED
    BY <2>1, <2>2, HaltStep
<1> QED
  BY <1>1, <1>2

(* Every step keeps the invariant and is a step of Lifecycle or a stutter. *)
LEMMA StepOK == IInv /\ [Next]_vars => IInv' /\ [L!Next]_L!vars
<1> SUFFICES ASSUME IInv, [Next]_vars PROVE IInv' /\ [L!Next]_L!vars
  OBVIOUS
<1>1. CASE Advance \/ \E i \in Workers, on \in BOOLEAN : SetCrash(i, on)
  BY <1>1, IdleStep DEF Advance, SetCrash, workVars, flowVars, haltVars, IInv
<1>2. CASE StopSupervisors \/ Quiesce \/ ScopesRetired
  BY <1>2, IdleStep DEF StopSupervisors, Quiesce, ScopesRetired, workVars, flowVars, haltVars
<1>3. CASE UNCHANGED vars
  BY <1>3, IdleStep DEF vars, workVars, flowVars, haltVars, IInv
<1>4. CASE \E i \in Workers : Kill(i) \/ RetireScope(i) \/ Respawn(i)
  BY <1>4, KillStep, RespawnStep
<1> QED
  BY <1>1, <1>2, <1>3, <1>4, MoveClockStep, DeliverStep, TickStep, ShutdownStep,
     ExitStep DEF Next, Orchestrate

------------------------------------------------------------------------------
(* Whatever the orchestrator, its deadline, the faults and the callers of  *)
(* halt do, and however often dispose() throws, the kernel keeps the       *)
(* promise of Lifecycle: it drains for good, and is halted only in a step  *)
(* that leaves no worker and no request (kernel.js halt, shutdown).        *)
THEOREM ImplementsLifecycle == Spec => LifecycleSpec
<1>1. Init => IInv /\ L!Init
  BY InitOK
<1>2. IInv /\ [Next]_vars => IInv' /\ [L!Next]_L!vars
  BY StepOK
<1> QED
  BY <1>1, <1>2, PTL DEF Spec, LifecycleSpec, L!Spec

(* The orchestrator retires the workers only when nothing is pending: what *)
(* was admitted before the drain has been served, and nothing was admitted *)
(* since (kernel.js, the order of the shutdown's steps).                   *)
THEOREM RetiresIdleAlways == Spec => RetiresIdle
<1>1. Init => IInv
  BY InitOK
<1>2. IInv /\ [Next]_vars => IInv'
  BY StepOK
<1>3. IInv => [(\E i \in Workers : RetireScope(i)) => Pending = {}]_vars
  BY DEF IInv, RetireScope
<1> QED
  BY <1>1, <1>2, <1>3, PTL DEF Spec, RetiresIdle

------------------------------------------------------------------------------
(* A worker's line: its ring, in the order of the replies, and its queue *)

Cell == [job : Jobs \cup {None}, due : Int, crash : BOOLEAN]
Transport ==
  [dead : BOOLEAN, readyIn : Int, busy : Int, head : Cells, count : 0 .. Ring,
   cell : [Cells -> Cell]]

(* The jobs in the ring, in order of arrival. *)
Line(t) == [n \in 1 .. t.count |-> t.cell[At(t, n - 1)]]

(* The replies come in that order, and none after the worker is free. *)
Sorted(z, k, busy) ==
  /\ \A m, n \in 1 .. k : m < n => z[m].due <= z[n].due
  /\ \A n \in 1 .. k : z[n].due <= busy

(* The k jobs of the ring and those of the queue are the jobs P, each once.*)
Holds(z, k, q, P) ==
  /\ k \in Nat /\ z \in [1 .. k -> Cell] /\ q \in Seq(Jobs)
  /\ \A m, n \in 1 .. k : m # n => z[m].job # z[n].job
  /\ \A m, n \in 1 .. Len(q) : m # n => q[m] # q[n]
  /\ \A m \in 1 .. k, n \in 1 .. Len(q) : z[m].job # q[n]
  /\ P = {z[m].job : m \in 1 .. k} \cup {q[n] : n \in 1 .. Len(q)}

Serves(t, q, P) ==
  /\ t \in Transport
  /\ Sorted(Line(t), t.count, t.busy)
  /\ Holds(Line(t), t.count, q, P)
  /\ t.count <= SetSlots
  /\ q # <<>> => t.count = SetSlots
  /\ t.dead => P = {}

(* The ring's places. *)
LEMMA RingAt ==
  ASSUME NEW t \in Transport, NEW n \in 0 .. Ring
  PROVE  /\ t.head \in Cells /\ At(t, n) \in Cells
         /\ At(t, n) = IF t.head + n < Ring THEN t.head + n ELSE t.head + n - Ring
<1>1. PICK h \in 0 .. Ring-1 : h = t.head
  BY DEF Transport, Cells
<1>2. Ring \in Nat \ {0}
  BY TransportAssumption
<1>3. (h + n) % Ring = IF h + n < Ring THEN h + n ELSE h + n - Ring
  <2>1. CASE h + n < Ring
    BY <1>2, <2>1
  <2>2. CASE h + n >= Ring
    BY <1>2, <2>2
  <2> QED
    BY <1>2, <2>1, <2>2
<1> QED
  BY <1>1, <1>2, <1>3 DEF At, Cells

LEMMA RingApart ==
  ASSUME NEW t \in Transport, NEW m \in 0 .. Ring-1, NEW n \in 0 .. Ring-1, m # n
  PROVE  At(t, m) # At(t, n)
<1>1. Ring \in Nat \ {0}
  BY TransportAssumption
<1>2. t.head \in 0 .. Ring-1
  BY DEF Transport, Cells
<1> QED
  BY <1>1, <1>2, RingAt

LEMMA LineType ==
  ASSUME NEW t \in Transport
  PROVE  /\ t.count \in 0 .. Ring /\ t.count \in Nat /\ t.busy \in Int
         /\ Line(t) \in [1 .. t.count -> Cell]
         /\ \A n \in 1 .. t.count : Line(t)[n] = t.cell[At(t, n - 1)]
<1>1. t.count \in 0 .. Ring /\ t.cell \in [Cells -> Cell] /\ t.busy \in Int
  BY DEF Transport
<1>2. Ring \in Nat \ {0}
  BY TransportAssumption
<1>3. ASSUME NEW n \in 1 .. t.count PROVE At(t, n - 1) \in Cells
  BY <1>1, <1>2, RingAt
<1> QED
  BY <1>1, <1>2, <1>3 DEF Line

LEMMA HeadFirst ==
  ASSUME NEW t \in Transport, t.count > 0
  PROVE  Line(t)[1] = Oldest(t)
<1>1. At(t, 0) = t.head
  BY RingAt, TransportAssumption DEF Transport, Cells
<1>2. 1 \in 1 .. t.count
  BY LineType
<1> QED
  BY <1>1, <1>2, LineType DEF Oldest

(* send: the job goes behind the others. *)
LEMMA SentLine ==
  ASSUME NEW t \in Transport, t.count < Ring,
         NEW j \in Jobs, NEW s \in Service, NEW c \in BOOLEAN
  PROVE  LET u == Sent(t, j, s, c)
             k == t.count
         IN  /\ u \in Transport /\ u.count = k + 1 /\ u.dead = t.dead
             /\ \A n \in 1 .. k : Line(u)[n] = Line(t)[n]
             /\ Line(u)[k + 1].job = j
             /\ Line(u)[k + 1].due = u.busy /\ u.busy >= t.busy
<1> DEFINE done == t.busy + IF c THEN 0 ELSE s
<1> DEFINE r == [job |-> j, due |-> done, crash |-> c]
<1>0. PICK u : u = Sent(t, j, s, c)
  OBVIOUS
<1>1. done \in Int /\ done >= t.busy
  BY LineType, TransportAssumption
<1>2. r \in Cell /\ r.job = j /\ r.due = done
  BY <1>1 DEF Cell
<1>3. /\ t.count \in Nat /\ t.count + 1 \in 0 .. Ring
      /\ t.cell \in [Cells -> Cell]
      /\ At(t, t.count) \in Cells
  BY LineType, RingAt, TransportAssumption DEF Transport
<1>4. /\ u.dead = t.dead /\ u.readyIn = t.readyIn /\ u.busy = done /\ u.head = t.head
      /\ u.count = t.count + 1
      /\ u.cell = [t.cell EXCEPT ![At(t, t.count)] = r]
  BY <1>0 DEF Sent, Transport
<1>5. u.cell \in [Cells -> Cell]
  BY <1>2, <1>3, <1>4
<1>6. u \in Transport
  <2>1. u = [dead |-> u.dead, readyIn |-> u.readyIn, busy |-> u.busy, head |-> u.head,
             count |-> u.count, cell |-> u.cell]
    <3>1. t = [dead |-> t.dead, readyIn |-> t.readyIn, busy |-> t.busy, head |-> t.head,
               count |-> t.count, cell |-> t.cell]
      BY DEF Transport
    <3> QED
      BY <1>0, <3>1 DEF Sent
  <2> QED
    BY <1>1, <1>3, <1>4, <1>5, <2>1 DEF Transport
<1>7. \A n \in 0 .. Ring : At(u, n) = At(t, n)
  BY <1>4 DEF At
<1>8. ASSUME NEW n \in 1 .. t.count PROVE Line(u)[n] = Line(t)[n]
  <2>1. /\ n - 1 \in 0 .. Ring-1 /\ t.count \in 0 .. Ring-1
        /\ n - 1 # t.count /\ n \in 1 .. u.count
    BY <1>3, <1>4, TransportAssumption
  <2>2. PICK m \in 0 .. Ring-1, k \in 0 .. Ring-1 : m = n - 1 /\ k = t.count
    BY <2>1
  <2>3. m \in 0 .. Ring
    BY <2>2, TransportAssumption
  <2>4. At(t, m) # At(t, k) /\ At(t, m) \in Cells
    <3>1. m # k
      BY <2>1, <2>2
    <3> QED
      BY <2>3, <3>1, RingApart, RingAt
  <2>5. Line(u)[n] = u.cell[At(u, m)] /\ Line(t)[n] = t.cell[At(t, m)]
    BY <1>6, <2>1, <2>2, LineType
  <2>6. u.cell[At(t, m)] = t.cell[At(t, m)]
    BY <1>3, <1>4, <2>2, <2>4
  <2> QED
    BY <1>7, <2>3, <2>5, <2>6
<1>9. Line(u)[t.count + 1] = r
  <2>1. t.count + 1 \in 1 .. u.count /\ (t.count + 1) - 1 = t.count
    BY <1>3, <1>4
  <2>2. Line(u)[t.count + 1] = u.cell[At(u, t.count)]
    BY <1>6, <2>1, LineType
  <2>3. At(u, t.count) = At(t, t.count)
    BY <1>4 DEF At
  <2> QED
    BY <1>3, <1>4, <2>2, <2>3
<1> QED
  BY <1>0, <1>1, <1>2, <1>4, <1>6, <1>8, <1>9

(* A reply takes the job at the head. *)
LEMMA PoppedLine ==
  ASSUME NEW t \in Transport, t.count > 0
  PROVE  LET u == Popped(t)
             k == t.count
         IN  /\ u \in Transport /\ u.count = k - 1 /\ u.dead = t.dead /\ u.busy = t.busy
             /\ \A n \in 1 .. k - 1 : Line(u)[n] = Line(t)[n + 1]
<1>0. PICK u : u = Popped(t)
  OBVIOUS
<1>1. /\ t.count \in Nat /\ t.count - 1 \in 0 .. Ring /\ t.cell \in [Cells -> Cell]
      /\ t.head \in Cells /\ Ring \in Nat \ {0} /\ t.count <= Ring
  BY LineType, TransportAssumption DEF Transport
<1>2. /\ u.dead = t.dead /\ u.readyIn = t.readyIn /\ u.busy = t.busy
      /\ u.head = (t.head + 1) % Ring
      /\ u.count = t.count - 1
      /\ u.cell = [t.cell EXCEPT ![t.head] = Empty]
  BY <1>0 DEF Popped, Transport
<1>3. u.head = At(t, 1) /\ u.head \in Cells
  BY <1>1, <1>2, RingAt DEF At
<1>4. Empty \in Cell
  BY DEF Empty, Cell, None
<1>5. u.cell \in [Cells -> Cell]
  BY <1>1, <1>2, <1>4
<1>6. u \in Transport
  <2>1. u = [dead |-> u.dead, readyIn |-> u.readyIn, busy |-> u.busy, head |-> u.head,
             count |-> u.count, cell |-> u.cell]
    <3>1. t = [dead |-> t.dead, readyIn |-> t.readyIn, busy |-> t.busy, head |-> t.head,
               count |-> t.count, cell |-> t.cell]
      BY DEF Transport
    <3> QED
      BY <1>0, <3>1 DEF Popped
  <2> QED
    BY <1>1, <1>2, <1>3, <1>5, <2>1 DEF Transport
<1>7. ASSUME NEW n \in 1 .. t.count - 1 PROVE Line(u)[n] = Line(t)[n + 1]
  <2>1. /\ n - 1 \in 0 .. Ring /\ n \in 0 .. Ring /\ n \in 0 .. Ring-1 /\ 0 \in 0 .. Ring-1
        /\ n # 0 /\ n + 1 \in 1 .. t.count /\ (n + 1) - 1 = n /\ n \in 1 .. u.count
    BY <1>1, <1>2
  <2>2. PICK h \in Nat, p \in Nat, m \in 0 .. Ring : h = t.head /\ p = u.head /\ m = n - 1
    BY <1>1, <1>3, <2>1 DEF Cells
  <2>3. /\ At(t, 0) = IF h + 0 < Ring THEN h + 0 ELSE h + 0 - Ring
        /\ At(t, 1) = IF h + 1 < Ring THEN h + 1 ELSE h + 1 - Ring
        /\ At(t, n) = IF h + n < Ring THEN h + n ELSE h + n - Ring
        /\ At(u, m) = IF p + m < Ring THEN p + m ELSE p + m - Ring
        /\ At(t, n) \in Cells
    <3>1. 0 \in 0 .. Ring /\ 1 \in 0 .. Ring
      BY <1>1
    <3> QED
      BY <1>6, <2>1, <2>2, <3>1, RingAt
  <2>4. h < Ring /\ p = At(t, 1)
    BY <1>1, <1>3, <2>2 DEF Cells
  <2>5. At(u, m) = At(t, n)
    <3>1. n = m + 1 /\ m < Ring /\ Ring \in Nat
      BY <1>1, <2>1, <2>2
    <3> QED
      BY <2>2, <2>3, <2>4, <3>1
  <2>6. At(t, n) # t.head
    <3>1. At(t, 0) = h
      BY <1>1, <2>2, <2>3, <2>4
    <3>2. At(t, 0) # At(t, n)
      BY <2>1, RingApart
    <3> QED
      BY <2>2, <3>1, <3>2
  <2>7. Line(u)[n] = u.cell[At(u, n - 1)]
    BY <1>6, <2>1, LineType
  <2>8. Line(t)[n + 1] = t.cell[At(t, n)]
    BY <2>1, LineType
  <2>9. u.cell[At(t, n)] = t.cell[At(t, n)]
    BY <1>1, <1>2, <2>3, <2>6
  <2> QED
    BY <2>2, <2>5, <2>7, <2>8, <2>9
<1> QED
  BY <1>0, <1>2, <1>6, <1>7

(* Moving the clock keeps the order: every reply comes nearer by as much.  *)
LEMMA MovedLine ==
  ASSUME NEW t \in Transport, NEW d \in Int
  PROVE  LET u == Moved(t, d)
             k == t.count
         IN  /\ u \in Transport /\ u.count = k /\ u.dead = t.dead
             /\ \A n \in 1 .. k : Line(u)[n] = [Line(t)[n] EXCEPT !.due = @ - d]
             /\ u.busy >= t.busy - d
<1>0. PICK u : u = Moved(t, d)
  OBVIOUS
<1> DEFINE shifted(c) == IF c \in InUse(t) THEN [t.cell[c] EXCEPT !.due = @ - d] ELSE Empty
<1>1. /\ u.dead = t.dead /\ u.head = t.head /\ u.count = t.count
      /\ u.readyIn = (IF t.readyIn = None THEN None ELSE t.readyIn - d)
      /\ u.busy = Less(t.busy, d)
      /\ u.cell = [c \in Cells |-> shifted(c)]
  BY <1>0 DEF Moved, Transport
<1>2. /\ t.busy \in Int /\ t.readyIn \in Int /\ t.count \in 0 .. Ring /\ t.count \in Nat
      /\ t.cell \in [Cells -> Cell] /\ Ring \in Nat \ {0}
  BY LineType, TransportAssumption DEF Transport
<1>3. u.busy \in Int /\ u.readyIn \in Int /\ u.busy >= t.busy - d
  BY <1>1, <1>2 DEF Less, None
<1>4. ASSUME NEW c \in Cells PROVE shifted(c) \in Cell
  <2>1. t.cell[c] \in Cell
    BY <1>2
  <2>2. PICK r \in Cell : r = t.cell[c]
    BY <2>1
  <2>3. [r EXCEPT !.due = @ - d] \in Cell
    BY DEF Cell
  <2>4. Empty \in Cell
    BY DEF Empty, Cell, None
  <2> QED
    BY <2>2, <2>3, <2>4
<1>5. u.cell \in [Cells -> Cell]
  <2> HIDE DEF shifted
  <2> QED
    BY <1>1, <1>4
<1>6. u \in Transport
  <2>1. u = [dead |-> u.dead, readyIn |-> u.readyIn, busy |-> u.busy, head |-> u.head,
             count |-> u.count, cell |-> u.cell]
    <3>1. t = [dead |-> t.dead, readyIn |-> t.readyIn, busy |-> t.busy, head |-> t.head,
               count |-> t.count, cell |-> t.cell]
      BY DEF Transport
    <3> QED
      BY <1>0, <3>1 DEF Moved
  <2> QED
    BY <1>1, <1>3, <1>5, <2>1 DEF Transport
<1>7. ASSUME NEW n \in 1 .. t.count PROVE Line(u)[n] = [Line(t)[n] EXCEPT !.due = @ - d]
  <2>1. PICK m \in 0 .. t.count - 1 : m = n - 1
    BY <1>2
  <2>2. m \in 0 .. Ring
    BY <1>2
  <2>3. At(t, m) \in InUse(t) /\ At(t, m) \in Cells /\ At(u, m) = At(t, m)
    BY <1>1, <2>2, RingAt DEF InUse, At
  <2>4. Line(u)[n] = u.cell[At(u, m)] /\ Line(t)[n] = t.cell[At(t, m)]
    BY <1>1, <1>6, <2>1, LineType
  <2> QED
    BY <1>1, <2>3, <2>4
<1> QED
  BY <1>0, <1>1, <1>3, <1>6, <1>7

------------------------------------------------------------------------------
(* What happens to a line *)

(* An empty one. *)
LEMMA HoldsNothing ==
  ASSUME NEW z \in [1 .. 0 -> Cell]
  PROVE  Holds(z, 0, <<>>, {})
  BY DEF Holds

LEMMA HoldsEmpty ==
  ASSUME NEW z, NEW k, NEW q, Holds(z, k, q, {})
  PROVE  k = 0 /\ q = <<>>
<1>1. k \in Nat /\ q \in Seq(Jobs)
  BY DEF Holds
<1>2. k = 0
  <2>1. SUFFICES ASSUME k # 0 PROVE FALSE
    OBVIOUS
  <2>2. 1 \in 1 .. k
    BY <1>1, <2>1
  <2> QED
    BY <2>2 DEF Holds
<1>3. Len(q) = 0
  <2>1. SUFFICES ASSUME Len(q) # 0 PROVE FALSE
    OBVIOUS
  <2>2. 1 \in 1 .. Len(q)
    BY <1>1, <2>1
  <2> QED
    BY <2>2 DEF Holds
<1> QED
  BY <1>1, <1>2, <1>3

(* The same jobs, due at other times. *)
LEMMA HoldsLater ==
  ASSUME NEW z, NEW k, NEW q, NEW P, Holds(z, k, q, P), NEW y \in [1 .. k -> Cell],
         \A n \in 1 .. k : y[n].job = z[n].job
  PROVE  Holds(y, k, q, P)
<1>1. {y[n].job : n \in 1 .. k} = {z[n].job : n \in 1 .. k}
  OBVIOUS
<1> QED
  BY <1>1 DEF Holds

(* A job that is new goes to the end of the ring, or of the queue. *)
LEMMA HoldsSent ==
  ASSUME NEW z, NEW k, NEW P, Holds(z, k, <<>>, P), NEW j \in Jobs \ P,
         NEW y \in [1 .. k + 1 -> Cell],
         \A n \in 1 .. k : y[n] = z[n], y[k + 1].job = j
  PROVE  Holds(y, k + 1, <<>>, P \cup {j})
<1>1. k \in Nat /\ 1 .. k + 1 = (1 .. k) \cup {k + 1} /\ 1 .. Len(<<>>) = {}
  BY DEF Holds
<1>2. P = {z[n].job : n \in 1 .. k}
  BY <1>1 DEF Holds
<1>3. {y[n].job : n \in 1 .. k + 1} = P \cup {j}
  BY <1>1, <1>2
<1>4. ASSUME NEW m \in 1 .. k + 1, NEW n \in 1 .. k + 1, m # n PROVE y[m].job # y[n].job
  <2>1. \A l \in 1 .. k : y[l].job \in P
    BY <1>2
  <2>2. \A l, o \in 1 .. k : l # o => y[l].job # y[o].job
    BY DEF Holds
  <2>3. CASE m = k + 1
    BY <1>1, <1>4, <2>1, <2>3
  <2>4. CASE n = k + 1
    BY <1>1, <1>4, <2>1, <2>4
  <2>5. CASE m \in 1 .. k /\ n \in 1 .. k
    BY <1>4, <2>2, <2>5
  <2> QED
    BY <1>1, <2>3, <2>4, <2>5
<1>5. <<>> \in Seq(Jobs) /\ {<<>>[n] : n \in 1 .. Len(<<>>)} = {}
  BY <1>1
<1> QED
  BY <1>1, <1>3, <1>4, <1>5 DEF Holds

LEMMA HoldsQueued ==
  ASSUME NEW z, NEW k, NEW q, NEW P, Holds(z, k, q, P), NEW j \in Jobs \ P
  PROVE  Holds(z, k, Append(q, j), P \cup {j})
<1>1. PICK r : r = Append(q, j)
  OBVIOUS
<1>2. /\ k \in Nat /\ q \in Seq(Jobs) /\ Len(q) \in Nat
      /\ r \in Seq(Jobs) /\ Len(r) = Len(q) + 1
      /\ \A n \in 1 .. Len(q) : r[n] = q[n]
      /\ r[Len(q) + 1] = j
  BY <1>1 DEF Holds
<1>3. 1 .. Len(r) = (1 .. Len(q)) \cup {Len(q) + 1}
  BY <1>2
<1>4. /\ \A n \in 1 .. Len(q) : r[n] \in P
      /\ \A n \in 1 .. k : z[n].job \in P
  BY <1>2 DEF Holds
<1>5. {r[n] : n \in 1 .. Len(r)} = {q[n] : n \in 1 .. Len(q)} \cup {j}
  BY <1>2, <1>3
<1>6. \A m, n \in 1 .. Len(q) : m # n => r[m] # r[n]
  BY <1>2 DEF Holds
<1>7. \A m, n \in 1 .. Len(r) : m # n => r[m] # r[n]
  BY <1>2, <1>3, <1>4, <1>6
<1>8. \A m \in 1 .. k, n \in 1 .. Len(q) : z[m].job # r[n]
  BY <1>2 DEF Holds
<1>9. \A m \in 1 .. k, n \in 1 .. Len(r) : z[m].job # r[n]
  BY <1>2, <1>3, <1>4, <1>8
<1>10. P \cup {j} = {z[m].job : m \in 1 .. k} \cup {r[n] : n \in 1 .. Len(r)}
  BY <1>5 DEF Holds
<1> QED
  BY <1>1, <1>2, <1>7, <1>9, <1>10 DEF Holds

(* The first job of the ring leaves. *)
LEMMA HoldsAnswered ==
  ASSUME NEW z, NEW k, NEW q, NEW P, Holds(z, k, q, P), k > 0,
         NEW y \in [1 .. k - 1 -> Cell], \A n \in 1 .. k - 1 : y[n] = z[n + 1]
  PROVE  Holds(y, k - 1, q, P \ {z[1].job})
<1>1. PICK l \in Nat : k = l + 1
  <2>1. k - 1 \in Nat /\ k = (k - 1) + 1
    BY DEF Holds
  <2> QED
    BY <2>1
<1>2. /\ k - 1 = l /\ \A n \in 1 .. l : n + 1 \in 1 .. k /\ n + 1 # 1
      /\ 1 \in 1 .. k /\ \A m \in 1 .. k : m = 1 \/ (m - 1 \in 1 .. l /\ (m - 1) + 1 = m)
  BY <1>1
<1>3. \A n \in 1 .. l : y[n] = z[n + 1]
  BY <1>2
<1>4. {y[n].job : n \in 1 .. l} = {z[m].job : m \in 1 .. k} \ {z[1].job}
  <2>1. ASSUME NEW n \in 1 .. l PROVE y[n].job \in {z[m].job : m \in 1 .. k} \ {z[1].job}
    <3>1. z[n + 1].job # z[1].job
      BY <1>2 DEF Holds
    <3> QED
      BY <1>2, <1>3, <3>1
  <2>2. ASSUME NEW m \in 1 .. k, z[m].job # z[1].job
        PROVE  z[m].job \in {y[n].job : n \in 1 .. l}
    <3>1. m # 1
      BY <2>2
    <3>2. m - 1 \in 1 .. l /\ y[m - 1] = z[m]
      BY <1>2, <1>3, <3>1
    <3> QED
      BY <3>2
  <2> QED
    BY <2>1, <2>2
<1>5. z[1].job \notin {q[n] : n \in 1 .. Len(q)}
  BY <1>2 DEF Holds
<1>6. P \ {z[1].job} = {y[n].job : n \in 1 .. l} \cup {q[n] : n \in 1 .. Len(q)}
  BY <1>4, <1>5 DEF Holds
<1>7. \A m, n \in 1 .. l : m # n => y[m].job # y[n].job
  <2>1. ASSUME NEW m \in 1 .. l, NEW n \in 1 .. l, m # n PROVE y[m].job # y[n].job
    <3>1. m + 1 # n + 1
      BY <2>1
    <3> QED
      BY <1>2, <1>3, <3>1 DEF Holds
  <2> QED
    BY <2>1
<1>8. \A m \in 1 .. l, n \in 1 .. Len(q) : y[m].job # q[n]
  BY <1>2, <1>3 DEF Holds
<1> QED
  BY <1>2, <1>6, <1>7, <1>8 DEF Holds

(* The first job of the queue moves to the end of the ring. *)
LEMMA HoldsPromoted ==
  ASSUME NEW z, NEW k, NEW q, NEW P, Holds(z, k, q, P), q # <<>>,
         NEW y \in [1 .. k + 1 -> Cell],
         \A n \in 1 .. k : y[n] = z[n], y[k + 1].job = q[1]
  PROVE  Holds(y, k + 1, Tail(q), P)
<1>1. PICK r : r = Tail(q)
  OBVIOUS
<1>2. /\ k \in Nat /\ q \in Seq(Jobs) /\ Len(q) \in Nat \ {0}
      /\ r \in Seq(Jobs) /\ Len(r) = Len(q) - 1
      /\ \A n \in 1 .. Len(r) : r[n] = q[n + 1]
  BY <1>1 DEF Holds
<1>3. PICK l \in Nat : l = Len(r) /\ Len(q) = l + 1
  BY <1>2
<1>4. /\ 1 .. k + 1 = (1 .. k) \cup {k + 1} /\ k + 1 \notin 1 .. k
      /\ \A n \in 1 .. l : n + 1 \in 1 .. Len(q) /\ n + 1 # 1
      /\ 1 \in 1 .. Len(q)
      /\ \A m \in 1 .. Len(q) : m = 1 \/ (m - 1 \in 1 .. l /\ (m - 1) + 1 = m)
  BY <1>2, <1>3
<1>5. {y[n].job : n \in 1 .. k + 1} = {z[n].job : n \in 1 .. k} \cup {q[1]}
  BY <1>4
<1>6. {q[n] : n \in 1 .. Len(q)} = {r[n] : n \in 1 .. l} \cup {q[1]}
  <2>1. ASSUME NEW m \in 1 .. Len(q) PROVE q[m] \in {r[n] : n \in 1 .. l} \cup {q[1]}
    <3>1. CASE m = 1
      BY <3>1
    <3>2. CASE m - 1 \in 1 .. l /\ (m - 1) + 1 = m
      <4>1. r[m - 1] = q[m]
        BY <1>2, <1>3, <3>2
      <4> QED
        BY <3>2, <4>1
    <3> QED
      BY <1>4, <3>1, <3>2
  <2>2. \A n \in 1 .. l : r[n] \in {q[m] : m \in 1 .. Len(q)}
    BY <1>2, <1>3, <1>4
  <2>3. q[1] \in {q[m] : m \in 1 .. Len(q)}
    BY <1>4
  <2> QED
    BY <2>1, <2>2, <2>3
<1>7. P = {y[n].job : n \in 1 .. k + 1} \cup {r[n] : n \in 1 .. l}
  BY <1>5, <1>6 DEF Holds
<1>8. \A m, n \in 1 .. l : m # n => r[m] # r[n]
  <2>1. ASSUME NEW m \in 1 .. l, NEW n \in 1 .. l, m # n PROVE r[m] # r[n]
    <3>1. m + 1 # n + 1
      BY <2>1
    <3> QED
      BY <1>2, <1>3, <1>4, <3>1 DEF Holds
  <2> QED
    BY <2>1
<1>9. \A n \in 1 .. l : q[1] # r[n]
  BY <1>2, <1>3, <1>4 DEF Holds
<1>10. \A n \in 1 .. k : z[n].job # q[1]
  BY <1>4 DEF Holds
<1>11. \A m, n \in 1 .. k + 1 : m # n => y[m].job # y[n].job
  <2>1. \A m, n \in 1 .. k : m # n => y[m].job # y[n].job
    BY DEF Holds
  <2>2. \A n \in 1 .. k : y[n].job # y[k + 1].job
    BY <1>10
  <2> QED
    BY <1>4, <2>1, <2>2
<1>12. \A m \in 1 .. k + 1, n \in 1 .. l : y[m].job # r[n]
  <2>1. \A m \in 1 .. k, n \in 1 .. l : z[m].job # r[n]
    BY <1>2, <1>3, <1>4 DEF Holds
  <2> QED
    BY <1>4, <1>9, <2>1
<1>13. k + 1 \in Nat
  BY <1>2
<1> QED
  <2>1. y \in [1 .. k + 1 -> Cell] /\ r \in Seq(Jobs)
    BY <1>2
  <2>2. Holds(y, k + 1, r, P)
    BY <1>3, <1>7, <1>8, <1>11, <1>12, <1>13, <2>1 DEF Holds
  <2> QED
    BY <1>1, <2>2

------------------------------------------------------------------------------
(* What happens to a worker *)

LEMMA DueType ==
  ASSUME NEW t \in Transport
  PROVE  \A n \in 1 .. t.count : Line(t)[n] \in Cell /\ Line(t)[n].due \in Int
<1>1. ASSUME NEW n \in 1 .. t.count PROVE Line(t)[n] \in Cell
  BY LineType
<1>2. ASSUME NEW c \in Cell PROVE c.due \in Int
  BY DEF Cell
<1> QED
  BY <1>1, <1>2

LEMMA ServesFresh == Serves(Spawned, <<>>, {}) /\ Serves(Gone, <<>>, {})
<1>1. Empty \in Cell /\ 0 \in Cells /\ 0 \in 0 .. Ring /\ Startup \in Int /\ None \in Int
  BY TransportAssumption DEF Empty, Cell, Cells, None
<1>2. [c \in Cells |-> Empty] \in [Cells -> Cell]
  BY <1>1
<1>3. Spawned \in Transport
  BY <1>1, <1>2 DEF Spawned, Transport
<1>4. Gone \in Transport
  <2>1. PICK t \in Transport : t = Spawned
    BY <1>3
  <2>2. [t EXCEPT !.dead = TRUE, !.readyIn = None] \in Transport
    BY <1>1 DEF Transport
  <2> QED
    BY <2>1, <2>2 DEF Gone
<1>5. Spawned.count = 0 /\ Gone.count = 0
  BY DEF Spawned, Gone
<1>6. ASSUME NEW t \in Transport, t.count = 0 PROVE Serves(t, <<>>, {})
  <2>1. Line(t) \in [1 .. 0 -> Cell]
    BY <1>6, LineType
  <2>2. Holds(Line(t), 0, <<>>, {})
    BY <2>1, HoldsNothing
  <2>3. Sorted(Line(t), 0, t.busy)
    BY DEF Sorted
  <2>4. 0 <= SetSlots
    BY KernelAssumption
  <2> QED
    BY <1>6, <2>2, <2>3, <2>4 DEF Serves
<1> QED
  BY <1>3, <1>4, <1>5, <1>6

LEMMA ServesMoved ==
  ASSUME NEW t, NEW q, NEW P, Serves(t, q, P), NEW d \in Int
  PROVE  Serves(Moved(t, d), q, P)
<1>1. t \in Transport
  BY DEF Serves
<1>2. PICK u \in Transport :
        /\ u = Moved(t, d) /\ u.count = t.count /\ u.dead = t.dead
        /\ \A n \in 1 .. t.count : Line(u)[n] = [Line(t)[n] EXCEPT !.due = @ - d]
        /\ u.busy >= t.busy - d
  BY <1>1, MovedLine
<1>3. /\ t.count \in Nat /\ t.busy \in Int /\ u.busy \in Int
      /\ Line(u) \in [1 .. t.count -> Cell]
      /\ \A n \in 1 .. t.count : Line(t)[n] \in Cell /\ Line(t)[n].due \in Int
  BY <1>1, <1>2, LineType, DueType
<1>4. \A n \in 1 .. t.count :
        Line(u)[n].job = Line(t)[n].job /\ Line(u)[n].due = Line(t)[n].due - d
  <2>1. ASSUME NEW c \in Cell
        PROVE  /\ [c EXCEPT !.due = @ - d].job = c.job
               /\ [c EXCEPT !.due = @ - d].due = c.due - d
    BY DEF Cell
  <2> QED
    BY <1>2, <1>3, <2>1
<1>5. Holds(Line(u), t.count, q, P)
  BY <1>3, <1>4, HoldsLater DEF Serves
<1>6. Sorted(Line(u), t.count, u.busy)
  <2>1. Sorted(Line(t), t.count, t.busy)
    BY DEF Serves
  <2>2. ASSUME NEW m \in 1 .. t.count, NEW n \in 1 .. t.count, m < n
        PROVE  Line(u)[m].due <= Line(u)[n].due
    <3>1. PICK x \in Int, y \in Int : x = Line(t)[m].due /\ y = Line(t)[n].due
      BY <1>3
    <3>2. x <= y
      BY <2>1, <2>2, <3>1 DEF Sorted
    <3> QED
      BY <1>4, <3>1, <3>2
  <2>3. ASSUME NEW n \in 1 .. t.count PROVE Line(u)[n].due <= u.busy
    <3>1. PICK x \in Int, b \in Int, e \in Int : x = Line(t)[n].due /\ b = t.busy /\ e = u.busy
      BY <1>3
    <3>2. x <= b /\ e >= b - d
      BY <1>2, <2>1, <3>1 DEF Sorted
    <3>3. x - d <= e
      BY <3>2
    <3> QED
      BY <1>4, <3>1, <3>3
  <2> QED
    BY <2>2, <2>3 DEF Sorted
<1> QED
  BY <1>2, <1>5, <1>6 DEF Serves

(* READY *)
LEMMA ServesReadied ==
  ASSUME NEW t, NEW q, NEW P, Serves(t, q, P)
  PROVE  Serves([t EXCEPT !.readyIn = None], q, P)
<1>1. t \in Transport
  BY DEF Serves
<1>2. PICK u : u = [t EXCEPT !.readyIn = None]
  OBVIOUS
<1>3. /\ u.count = t.count /\ u.dead = t.dead /\ u.busy = t.busy /\ u.head = t.head
      /\ u.cell = t.cell
  BY <1>1, <1>2 DEF Transport
<1>4. u \in Transport
  BY <1>1, <1>2 DEF Transport, None
<1>5. Line(u) = Line(t)
  BY <1>3 DEF Line, At
<1> QED
  BY <1>2, <1>3, <1>4, <1>5 DEF Serves

(* A job is sent on behind the others. *)
LEMMA SentSorted ==
  ASSUME NEW z, NEW k \in Nat, NEW b \in Int, Sorted(z, k, b), NEW c \in Int, c >= b, NEW y,
         \A n \in 1 .. k : y[n] = z[n] /\ z[n].due \in Int, y[k + 1].due = c
  PROVE  Sorted(y, k + 1, c)
<1>1. 1 .. k + 1 = (1 .. k) \cup {k + 1} /\ \A n \in 1 .. k : ~(k + 1 < n)
  OBVIOUS
<1>2. ASSUME NEW n \in 1 .. k + 1 PROVE y[n].due <= c
  BY <1>1 DEF Sorted
<1>3. ASSUME NEW m \in 1 .. k + 1, NEW n \in 1 .. k + 1, m < n PROVE y[m].due <= y[n].due
  <2>1. CASE n = k + 1
    BY <1>2, <2>1
  <2>2. CASE n \in 1 .. k
    <3>1. m \in 1 .. k
      BY <1>3, <2>2
    <3> QED
      BY <1>3, <2>2, <3>1 DEF Sorted
  <2> QED
    BY <1>1, <2>1, <2>2
<1> QED
  BY <1>2, <1>3 DEF Sorted

LEMMA AnsweredSorted ==
  ASSUME NEW z, NEW k \in Nat, k > 0, NEW b, Sorted(z, k, b), NEW y,
         \A n \in 1 .. k - 1 : y[n] = z[n + 1]
  PROVE  Sorted(y, k - 1, b)
<1>1. \A n \in 1 .. k - 1 : n + 1 \in 1 .. k
  OBVIOUS
<1>2. \A m, n \in 1 .. k - 1 : m < n => m + 1 < n + 1
  OBVIOUS
<1> QED
  BY <1>1, <1>2 DEF Sorted

LEMMA ServesSent ==
  ASSUME NEW t, NEW q, NEW P, Serves(t, q, P), ~t.dead, t.count < SetSlots,
         NEW j \in Jobs \ P, NEW s \in Service, NEW c \in BOOLEAN
  PROVE  q = <<>> /\ Serves(Sent(t, j, s, c), <<>>, P \cup {j})
<1>1. t \in Transport /\ t.count < Ring /\ t.count \in Nat /\ t.busy \in Int
  BY LineType, KernelAssumption, TransportAssumption DEF Serves
<1>2. q = <<>>
  BY <1>1, KernelAssumption, TransportAssumption DEF Serves
<1>3. PICK u \in Transport :
        /\ u = Sent(t, j, s, c) /\ u.count = t.count + 1 /\ u.dead = t.dead
        /\ \A n \in 1 .. t.count : Line(u)[n] = Line(t)[n]
        /\ Line(u)[t.count + 1].job = j
        /\ Line(u)[t.count + 1].due = u.busy /\ u.busy >= t.busy
  BY <1>1, SentLine
<1>4. Line(u) \in [1 .. t.count + 1 -> Cell] /\ u.busy \in Int
  BY <1>3, LineType
<1>5. Holds(Line(u), t.count + 1, <<>>, P \cup {j})
  BY <1>2, <1>3, <1>4, HoldsSent DEF Serves
<1>6. Sorted(Line(u), t.count + 1, u.busy)
  <2>1. Sorted(Line(t), t.count, t.busy)
    BY DEF Serves
  <2>2. \A n \in 1 .. t.count : Line(t)[n].due \in Int
    BY <1>1, DueType
  <2> QED
    BY <1>1, <1>3, <1>4, <2>1, <2>2, SentSorted
<1>7. t.count + 1 <= SetSlots
  BY <1>1, KernelAssumption, TransportAssumption
<1> QED
  BY <1>2, <1>3, <1>5, <1>6, <1>7 DEF Serves

LEMMA ServesQueued ==
  ASSUME NEW t, NEW q, NEW P, Serves(t, q, P), ~t.dead, ~(t.count < SetSlots),
         NEW j \in Jobs \ P
  PROVE  Serves(t, Append(q, j), P \cup {j})
<1>1. t.count = SetSlots
  BY LineType, KernelAssumption, TransportAssumption DEF Serves
<1>2. Holds(Line(t), t.count, Append(q, j), P \cup {j})
  BY HoldsQueued DEF Serves
<1> QED
  BY <1>1, <1>2 DEF Serves

(* The reply to the first job. *)
LEMMA AnsweredHolds ==
  ASSUME NEW t, NEW q, NEW P, Serves(t, q, P), t.count > 0
  PROVE  LET u == Popped(t)
         IN  /\ u \in Transport /\ u.count = t.count - 1 /\ u.dead = t.dead
             /\ Holds(Line(u), u.count, q, P \ {Oldest(t).job})
             /\ Sorted(Line(u), u.count, u.busy)
<1>1. t \in Transport /\ t.count \in Nat /\ t.busy \in Int
  BY LineType DEF Serves
<1>2. PICK u \in Transport :
        /\ u = Popped(t) /\ u.count = t.count - 1 /\ u.dead = t.dead /\ u.busy = t.busy
        /\ \A n \in 1 .. t.count - 1 : Line(u)[n] = Line(t)[n + 1]
  BY <1>1, PoppedLine
<1>3. Line(t)[1] = Oldest(t)
  BY <1>1, HeadFirst
<1>4. Line(u) \in [1 .. t.count - 1 -> Cell]
  BY <1>2, LineType
<1>5. Holds(Line(u), t.count - 1, q, P \ {Oldest(t).job})
  BY <1>2, <1>3, <1>4, HoldsAnswered DEF Serves
<1>6. Sorted(Line(u), t.count - 1, t.busy)
  BY <1>1, <1>2, AnsweredSorted DEF Serves
<1> QED
  BY <1>2, <1>5, <1>6

LEMMA ServesAnswered ==
  ASSUME NEW t, NEW P, Serves(t, <<>>, P), ~t.dead, t.count > 0
  PROVE  Serves(Popped(t), <<>>, P \ {Oldest(t).job})
<1>1. t.count - 1 <= SetSlots
  BY LineType, KernelAssumption, TransportAssumption DEF Serves
<1> QED
  BY <1>1, AnsweredHolds DEF Serves

(* The next job of the queue takes the slot that a reply has freed. *)
LEMMA ServesReplied ==
  ASSUME NEW t, NEW q, NEW P, Serves(t, q, P), q # <<>>, ~t.dead, t.count > 0,
         NEW s \in Service, NEW c \in BOOLEAN
  PROVE  Serves(Sent(Popped(t), q[1], s, c), Tail(q), P \ {Oldest(t).job})
<1> DEFINE O == P \ {Oldest(t).job}
<1>1. PICK u \in Transport :
        /\ u = Popped(t) /\ u.count = t.count - 1 /\ u.dead = t.dead
        /\ Holds(Line(u), u.count, q, O)
        /\ Sorted(Line(u), u.count, u.busy)
  BY AnsweredHolds
<1> HIDE DEF O
<1>2. u.count \in Nat /\ u.count < Ring /\ u.count + 1 = SetSlots
  <2>1. t.count = SetSlots
    BY DEF Serves
  <2> QED
    BY <1>1, <2>1, KernelAssumption, TransportAssumption
<1>3. q[1] \in Jobs
  <2>1. q \in Seq(Jobs)
    BY DEF Serves, Holds
  <2> QED
    BY <2>1
<1>4. PICK v \in Transport :
        /\ v = Sent(u, q[1], s, c) /\ v.count = u.count + 1 /\ v.dead = u.dead
        /\ \A n \in 1 .. u.count : Line(v)[n] = Line(u)[n]
        /\ Line(v)[u.count + 1].job = q[1]
        /\ Line(v)[u.count + 1].due = v.busy /\ v.busy >= u.busy
  BY <1>2, <1>3, SentLine
<1>5. Line(v) \in [1 .. u.count + 1 -> Cell] /\ v.busy \in Int /\ u.busy \in Int
  BY <1>4, LineType
<1>6. Holds(Line(v), u.count + 1, Tail(q), O)
  BY <1>1, <1>4, <1>5, HoldsPromoted
<1>7. Sorted(Line(v), u.count + 1, v.busy)
  <2>1. \A n \in 1 .. u.count : Line(u)[n].due \in Int
    BY DueType
  <2> QED
    BY <1>1, <1>2, <1>4, <1>5, <2>1, SentSorted
<1>8. Serves(v, Tail(q), O)
  <2>1. v.count = SetSlots /\ v.count <= SetSlots /\ ~v.dead
    BY <1>1, <1>2, <1>4, KernelAssumption, TransportAssumption
  <2> QED
    BY <1>4, <1>6, <1>7, <2>1 DEF Serves
<1> QED
  BY <1>1, <1>4, <1>8 DEF O

(* A worker that is down has nothing. *)
LEMMA ServesDead ==
  ASSUME NEW t, NEW q, NEW P, Serves(t, q, P), t.dead
  PROVE  P = {} /\ q = <<>>
  BY HoldsEmpty DEF Serves

------------------------------------------------------------------------------
(* Every worker serves exactly the jobs that are at it. *)

ServedInv ==
  /\ tr \in [Workers -> Transport]
  /\ queue \in [Workers -> Seq(Jobs)]
  /\ place \in [Jobs -> Workers \cup {None}]
  /\ crash \in [Workers -> BOOLEAN]
  /\ left \in Int
  /\ \A i \in Workers : Serves(tr[i], queue[i], JobsAt(i))

LEMMA NoneIsNoWorker == None \notin Workers /\ None \in Int
  BY KernelAssumption DEF None, Workers

LEMMA ServedInit == Init => ServedInv
<1> SUFFICES ASSUME Init PROVE ServedInv
  OBVIOUS
<1>1. PICK t : t = Moved(Spawned, Startup)
  OBVIOUS
<1>2. Serves(t, <<>>, {})
  BY <1>1, ServesFresh, ServesMoved, TransportAssumption
<1>3. t.readyIn = 0
  BY <1>1, TransportAssumption DEF Moved, Spawned, None
<1>4. Serves(Delivered(t), <<>>, {})
  BY <1>2, <1>3, ServesReadied DEF Delivered, IsReadying
<1>5. \A i \in Workers : tr[i] = Delivered(t) /\ queue[i] = <<>> /\ JobsAt(i) = {}
  BY <1>1, NoneIsNoWorker DEF Init, JobsAt
<1>6. Delivered(t) \in Transport /\ <<>> \in Seq(Jobs)
  BY <1>4 DEF Serves
<1>7. /\ tr \in [Workers -> Transport] /\ queue \in [Workers -> Seq(Jobs)]
      /\ place \in [Jobs -> Workers \cup {None}] /\ crash \in [Workers -> BOOLEAN]
      /\ left \in Int
  BY <1>1, <1>6 DEF Init
<1> QED
  BY <1>4, <1>5, <1>7 DEF ServedInv

(* Jobs that are settled are nowhere, the others where they were. *)
LEMMA SettledJobs ==
  ASSUME ServedInv, NEW S, place' = Settled(S)
  PROVE  /\ place' \in [Jobs -> Workers \cup {None}]
         /\ \A i \in Workers : JobsAt(i)' = JobsAt(i) \ S
<1>1. \A j \in Jobs : place'[j] = IF j \in S THEN None ELSE place[j]
  BY DEF Settled
<1>2. place' \in [Jobs -> Workers \cup {None}]
  BY DEF Settled, ServedInv
<1>3. ASSUME NEW i \in Workers PROVE JobsAt(i)' = JobsAt(i) \ S
  BY <1>1, NoneIsNoWorker DEF JobsAt
<1> QED
  BY <1>2, <1>3

(* A job is at one worker. *)
LEMMA JobsApart ==
  ASSUME NEW i \in Workers, NEW k \in Workers, i # k
  PROVE  JobsAt(i) \cap JobsAt(k) = {}
  BY DEF JobsAt

(* The clock moves, for all of them alike. *)
LEMMA WhenServed ==
  ASSUME ServedInv, NEW d \in Int
  PROVE  /\ When(d) \in [Workers -> Transport]
         /\ \A i \in Workers : Serves(When(d)[i], queue[i], JobsAt(i))
<1>1. ASSUME NEW i \in Workers
      PROVE  When(d)[i] = Moved(tr[i], d) /\ Serves(Moved(tr[i], d), queue[i], JobsAt(i))
  BY ServesMoved DEF ServedInv, When
<1>2. ASSUME NEW i \in Workers PROVE Moved(tr[i], d) \in Transport
  BY <1>1 DEF Serves
<1> QED
  BY <1>1, <1>2 DEF When

LEMMA EventsTyped ==
  ASSUME ServedInv
  PROVE  NextEvents \subseteq Int
<1>1. ASSUME NEW i \in Workers PROVE Events(tr[i]) \subseteq Int
  <2>1. PICK t \in Transport : t = tr[i]
    BY DEF ServedInv
  <2>2. t.readyIn \in Int /\ t.head \in Cells /\ t.cell \in [Cells -> Cell]
    BY DEF Transport
  <2>3. t.cell[t.head] \in Cell
    BY <2>2
  <2>4. t.cell[t.head].due \in Int
    BY <2>3 DEF Cell
  <2> QED
    BY <2>1, <2>2, <2>4 DEF Events
<1> QED
  BY <1>1 DEF NextEvents

LEMMA MoveClockServed == ASSUME ServedInv, MoveClock PROVE ServedInv'
<1>1. PICK d \in Int : tr' = When(d) /\ left' = left - d
  BY EventsTyped DEF MoveClock
<1>2. UNCHANGED <<place, queue, crash>>
  BY DEF MoveClock
<1>3. \A i \in Workers : JobsAt(i)' = JobsAt(i)
  BY <1>2 DEF JobsAt
<1>4. tr' \in [Workers -> Transport] /\ \A i \in Workers : Serves(tr'[i], queue[i], JobsAt(i))
  BY <1>1, WhenServed
<1>5. left' \in Int
  BY <1>1 DEF ServedInv
<1> QED
  BY <1>2, <1>3, <1>4, <1>5 DEF ServedInv

(* One worker changes, and with it what is at it. *)
LEMMA OneWorker ==
  ASSUME ServedInv, NEW w \in Workers, NEW t, NEW q, NEW P, Serves(t, q, P),
         tr' = [tr EXCEPT ![w] = t], queue' = [queue EXCEPT ![w] = q],
         place' \in [Jobs -> Workers \cup {None}],
         JobsAt(w)' = P, \A i \in Workers : i # w => JobsAt(i)' = JobsAt(i),
         crash' \in [Workers -> BOOLEAN], left' \in Int
  PROVE  ServedInv'
<1>1. t \in Transport /\ q \in Seq(Jobs)
  BY DEF Serves, Holds
<1>2. tr' \in [Workers -> Transport] /\ queue' \in [Workers -> Seq(Jobs)]
  BY <1>1 DEF ServedInv
<1>3. ASSUME NEW i \in Workers PROVE Serves(tr'[i], queue'[i], JobsAt(i)')
  <2>1. CASE i = w
    <3>1. tr'[i] = t /\ queue'[i] = q
      BY <2>1 DEF ServedInv
    <3> QED
      BY <2>1, <3>1
  <2>2. CASE i # w
    <3>1. tr'[i] = tr[i] /\ queue'[i] = queue[i] /\ JobsAt(i)' = JobsAt(i)
      BY <2>2 DEF ServedInv
    <3> QED
      BY <3>1 DEF ServedInv
  <2> QED
    BY <2>1, <2>2
<1> QED
  BY <1>2, <1>3 DEF ServedInv

LEMMA DeliverServed == ASSUME ServedInv, Deliver PROVE ServedInv'
<1>1. PICK w \in Workers : Due(tr[w]) /\ (Readied(w) \/ Died(w) \/ Replied(w))
  BY DEF Deliver
<1>2. UNCHANGED <<crash, left>>
  BY DEF Deliver
<1>3. /\ Serves(tr[w], queue[w], JobsAt(w))
      /\ crash' \in [Workers -> BOOLEAN] /\ left' \in Int /\ crash[w] \in BOOLEAN
      /\ queue = [queue EXCEPT ![w] = queue[w]]
  BY <1>2 DEF ServedInv
<1>4. CASE Readied(w)
  <2>1. /\ tr' = [tr EXCEPT ![w] = [tr[w] EXCEPT !.readyIn = None]]
        /\ UNCHANGED <<place, queue>>
    BY <1>4 DEF Readied, Delivered, ServedInv
  <2>2. \A i \in Workers : JobsAt(i)' = JobsAt(i)
    BY <2>1 DEF JobsAt
  <2>3. Serves([tr[w] EXCEPT !.readyIn = None], queue[w], JobsAt(w))
    BY <1>3, ServesReadied
  <2>4. place' \in [Jobs -> Workers \cup {None}]
    BY <2>1 DEF ServedInv
  <2>5. queue' = [queue EXCEPT ![w] = queue[w]]
    BY <1>3, <2>1
  <2> QED
    BY <1>3, <2>1, <2>2, <2>3, <2>4, <2>5, OneWorker
<1>5. CASE Died(w)
  <2>1. tr' = [tr EXCEPT ![w] = Gone] /\ queue' = [queue EXCEPT ![w] = <<>>]
    BY <1>5 DEF Died, Delivered, ServedInv
  <2>2. /\ place' \in [Jobs -> Workers \cup {None}]
        /\ \A i \in Workers : JobsAt(i)' = JobsAt(i) \ JobsAt(w)
    BY <1>5, SettledJobs DEF Died
  <2>3. JobsAt(w)' = {} /\ \A i \in Workers : i # w => JobsAt(i)' = JobsAt(i)
    BY <2>2, JobsApart
  <2> QED
    BY <1>3, <2>1, <2>2, <2>3, ServesFresh, OneWorker
<1>6. CASE Replied(w)
  <2> DEFINE j == Oldest(tr[w]).job
  <2>1. ~tr[w].dead /\ tr[w].count > 0 /\ Delivered(tr[w]) = Popped(tr[w])
    <3>1. ~IsReadying(tr[w]) /\ ~Oldest(tr[w]).crash
      BY <1>6 DEF Replied
    <3> QED
      BY <1>1, <3>1 DEF Due, Events, IsReadying, Delivered
  <2>2. j \in JobsAt(w)
    <3>1. tr[w] \in Transport /\ 1 \in 1 .. tr[w].count
      BY <1>3, <2>1, LineType DEF Serves
    <3>2. Line(tr[w])[1].job \in JobsAt(w)
      BY <1>3, <3>1 DEF Serves, Holds
    <3> QED
      BY <2>1, <3>1, <3>2, HeadFirst
  <2>3. /\ place' \in [Jobs -> Workers \cup {None}]
        /\ \A i \in Workers : JobsAt(i)' = JobsAt(i) \ {j}
    BY <1>6, SettledJobs DEF Replied
  <2>4. \A i \in Workers : i # w => JobsAt(i)' = JobsAt(i)
    BY <2>2, <2>3, JobsApart
  <2>5. CASE queue[w] = <<>>
    <3>1. /\ tr' = [tr EXCEPT ![w] = Popped(tr[w])]
          /\ queue' = [queue EXCEPT ![w] = <<>>]
      BY <1>3, <1>6, <2>1, <2>5 DEF Replied
    <3>3. Serves(Popped(tr[w]), <<>>, JobsAt(w) \ {j})
      BY <1>3, <2>1, <2>5, ServesAnswered
    <3> QED
      BY <1>3, <2>3, <2>4, <3>1, <3>3, OneWorker
  <2>6. CASE queue[w] # <<>>
    <3>1. PICK s \in Service :
            tr' = [tr EXCEPT ![w] = Sent(Popped(tr[w]), queue[w][1], s, crash[w])]
      BY <1>6, <2>1, <2>6 DEF Replied
    <3>2. queue' = [queue EXCEPT ![w] = Tail(queue[w])]
      BY <1>6, <2>6 DEF Replied
    <3>3. Serves(Sent(Popped(tr[w]), queue[w][1], s, crash[w]), Tail(queue[w]), JobsAt(w) \ {j})
      BY <1>3, <2>1, <2>6, ServesReplied
    <3> QED
      BY <1>3, <2>3, <2>4, <3>1, <3>2, <3>3, OneWorker
  <2> QED
    BY <2>5, <2>6
<1> QED
  BY <1>1, <1>4, <1>5, <1>6

(* The first free job is one, if there is any. *)
LEMMA FirstFree ==
  ASSUME Pending # Jobs
  PROVE  Min(Jobs \ Pending) \in Jobs \ Pending
<1>1. PICK F : F = Jobs \ Pending
  OBVIOUS
<1>2. F \in SUBSET Nat /\ F # {}
  BY <1>1, KernelAssumption DEF Pending
<1>3. PICK x \in F : \A y \in F : x <= y
  BY <1>2, LeastExists
<1>4. Min(F) \in F
  BY <1>3 DEF Min
<1> QED
  BY <1>1, <1>4

(* A request is sent to a worker that is up, or queued there. *)
LEMMA AdmitServed ==
  ASSUME ServedInv, NEW now \in [Workers -> Transport],
         \A i \in Workers : Serves(now[i], queue[i], JobsAt(i)),
         NEW w \in Workers, Admit(w, now),
         crash' \in [Workers -> BOOLEAN], left' \in Int
  PROVE  ServedInv'
<1>1. PICK j : j = Min(Jobs \ Pending)
  OBVIOUS
<1>2. /\ Ready(now[w]) /\ j \in Jobs \ Pending /\ place' = [place EXCEPT ![j] = w]
      /\ \/ /\ now[w].count < SetSlots
            /\ \E s \in Service : tr' = [now EXCEPT ![w] = Sent(now[w], j, s, crash[w])]
            /\ UNCHANGED queue
         \/ /\ now[w].count >= SetSlots
            /\ queue' = [queue EXCEPT ![w] = Append(queue[w], j)]
            /\ tr' = now
  BY <1>1, FirstFree DEF Admit
<1>3. /\ Serves(now[w], queue[w], JobsAt(w)) /\ ~now[w].dead
      /\ j \in Jobs \ JobsAt(w) /\ place[j] = None /\ crash[w] \in BOOLEAN
      /\ now[w].count \in Nat
  <2>1. now[w].count \in Nat
    BY LineType
  <2>2. w # None
    BY NoneIsNoWorker
  <2> QED
    BY <1>2, <2>1, <2>2 DEF ServedInv, Ready, Pending, JobsAt
<1>4. place' \in [Jobs -> Workers \cup {None}]
  BY <1>2 DEF ServedInv
<1>5. /\ JobsAt(w)' = JobsAt(w) \cup {j}
      /\ \A i \in Workers : i # w => JobsAt(i)' = JobsAt(i)
  <2>1. place \in [Jobs -> Workers \cup {None}]
    BY DEF ServedInv
  <2>2. place'[j] = w /\ \A k \in Jobs : k # j => place'[k] = place[k]
    BY <1>2, <2>1
  <2>3. \A i \in Workers : i # None
    BY NoneIsNoWorker
  <2> QED
    BY <1>2, <1>3, <2>2, <2>3 DEF JobsAt
<1>6. PICK t, q :
        /\ Serves(t, q, JobsAt(w) \cup {j})
        /\ tr' = [now EXCEPT ![w] = t] /\ queue' = [queue EXCEPT ![w] = q]
  <2>1. CASE now[w].count < SetSlots
    <3>0. ~(now[w].count >= SetSlots)
      <4>1. SetSlots \in Nat /\ now[w].count \in Nat
        BY <1>3, KernelAssumption, TransportAssumption
      <4> QED
        BY <2>1, <4>1
    <3>1. PICK s \in Service : tr' = [now EXCEPT ![w] = Sent(now[w], j, s, crash[w])]
      BY <1>2, <3>0
    <3>2. queue[w] = <<>> /\ Serves(Sent(now[w], j, s, crash[w]), <<>>, JobsAt(w) \cup {j})
      BY <1>3, <2>1, ServesSent
    <3>3. UNCHANGED queue
      BY <1>2, <3>0
    <3>4. queue' = [queue EXCEPT ![w] = <<>>]
      BY <3>2, <3>3 DEF ServedInv
    <3> QED
      BY <3>1, <3>2, <3>4
  <2>2. CASE ~(now[w].count < SetSlots)
    <3>1. /\ queue' = [queue EXCEPT ![w] = Append(queue[w], j)]
          /\ tr' = now
      BY <1>2, <2>2
    <3>2. Serves(now[w], Append(queue[w], j), JobsAt(w) \cup {j})
      BY <1>3, <2>2, ServesQueued
    <3>3. tr' = [now EXCEPT ![w] = now[w]]
      BY <3>1
    <3> QED
      BY <3>1, <3>2, <3>3
  <2> QED
    BY <2>1, <2>2
<1>7. t \in Transport /\ q \in Seq(Jobs)
  BY <1>6 DEF Serves, Holds
<1>8. tr' \in [Workers -> Transport] /\ queue' \in [Workers -> Seq(Jobs)]
  BY <1>6, <1>7 DEF ServedInv
<1>9. ASSUME NEW i \in Workers PROVE Serves(tr'[i], queue'[i], JobsAt(i)')
  <2>1. CASE i = w
    <3>1. tr'[i] = t /\ queue'[i] = q
      BY <1>6, <2>1 DEF ServedInv
    <3> QED
      BY <1>5, <1>6, <2>1, <3>1
  <2>2. CASE i # w
    <3>1. tr'[i] = now[i] /\ queue'[i] = queue[i] /\ JobsAt(i)' = JobsAt(i)
      BY <1>5, <1>6, <2>2 DEF ServedInv
    <3> QED
      BY <3>1
  <2> QED
    BY <2>1, <2>2
<1> QED
  BY <1>4, <1>8, <1>9 DEF ServedInv

LEMMA TickServed == ASSUME ServedInv, Tick PROVE ServedInv'
<1>1. left \in Int /\ left' \in Int
  BY NoneIsNoWorker DEF ServedInv, Tick
<1>2. PICK now : now = When(left)
  OBVIOUS
<1>3. /\ When(left) \in [Workers -> Transport]
      /\ \A i \in Workers : Serves(When(left)[i], queue[i], JobsAt(i))
  BY <1>1, WhenServed
<1>4. \A i \in Workers : Serves(now[i], queue[i], JobsAt(i))
  BY <1>2, <1>3
<1>5. now \in [Workers -> Transport]
  BY <1>2, <1>3
<1>6. ASSUME tr' \in [Workers -> Transport], UNCHANGED <<place, queue>>,
             crash' \in [Workers -> BOOLEAN],
             \A i \in Workers : Serves(tr'[i], queue[i], JobsAt(i))
      PROVE  ServedInv'
  <2>1. \A i \in Workers : JobsAt(i)' = JobsAt(i)
    BY <1>6 DEF JobsAt
  <2> QED
    BY <1>1, <1>6, <2>1 DEF ServedInv
<1>7. CASE halted
  <2>1. tr' = When(left) /\ UNCHANGED <<place, queue, crash>>
    BY <1>7 DEF Tick
  <2>2. crash' \in [Workers -> BOOLEAN]
    BY <2>1 DEF ServedInv
  <2> QED
    BY <1>3, <1>6, <2>1, <2>2
<1>8. CASE ~halted
  <2>1. crash' \in [Workers -> BOOLEAN]
    BY <1>8 DEF Tick, ServedInv
  <2>2. CASE tr' = now /\ UNCHANGED <<place, queue>>
    BY <1>4, <1>5, <1>6, <2>1, <2>2
  <2>3. CASE \E i \in Workers : Admit(i, now)
    BY <1>1, <1>4, <1>5, <2>1, <2>3, AdmitServed
  <2> QED
    BY <1>2, <1>8, <2>2, <2>3 DEF Tick
<1> QED
  BY <1>7, <1>8

(* A respawn gives a worker without jobs an empty ring. *)
LEMMA RespawnServed == ASSUME ServedInv, NEW i \in Workers, Respawn(i) PROVE ServedInv'
<1>1. /\ tr' = [tr EXCEPT ![i] = Spawned] /\ crash' = [crash EXCEPT ![i] = FALSE]
      /\ UNCHANGED <<place, queue, left>>
  BY DEF Respawn
<1>2. JobsAt(i) = {} /\ queue[i] = <<>>
  BY ServesDead DEF Respawn, ServedInv
<1>3. Serves(Spawned, <<>>, {}) /\ Spawned \in Transport
  BY ServesFresh DEF Serves
<1>4. \A k \in Workers : JobsAt(k)' = JobsAt(k)
  BY <1>1 DEF JobsAt
<1>5. /\ tr' \in [Workers -> Transport] /\ crash' \in [Workers -> BOOLEAN]
      /\ \A k \in Workers : tr'[k] = IF k = i THEN Spawned ELSE tr[k]
  BY <1>1, <1>3 DEF ServedInv
<1>6. ASSUME NEW k \in Workers PROVE Serves(tr'[k], queue'[k], JobsAt(k)')
  BY <1>1, <1>2, <1>3, <1>4, <1>5 DEF ServedInv
<1> QED
  BY <1>1, <1>5, <1>6 DEF ServedInv

LEMMA KillServed ==
  ASSUME ServedInv, NEW i \in Workers, Kill(i) \/ RetireScope(i)
  PROVE  ServedInv'
<1>1. /\ tr' = [tr EXCEPT ![i] = Gone] /\ queue' = [queue EXCEPT ![i] = <<>>]
      /\ place' = Settled(JobsAt(i)) /\ UNCHANGED <<crash, left>>
  BY DEF Kill, RetireScope, Killed
<1>2. /\ place' \in [Jobs -> Workers \cup {None}]
      /\ \A k \in Workers : JobsAt(k)' = JobsAt(k) \ JobsAt(i)
  BY <1>1, SettledJobs
<1>3. JobsAt(i)' = {} /\ \A k \in Workers : k # i => JobsAt(k)' = JobsAt(k)
  BY <1>2, JobsApart
<1>4. crash' \in [Workers -> BOOLEAN] /\ left' \in Int
  BY <1>1 DEF ServedInv
<1> QED
  BY <1>1, <1>2, <1>3, <1>4, ServesFresh, OneWorker

(* The steps that touch neither a worker nor a request. *)
LEMMA RestServed ==
  ASSUME ServedInv, UNCHANGED <<tr, place, queue>>,
         crash' \in [Workers -> BOOLEAN], left' \in Int
  PROVE  ServedInv'
<1>1. \A i \in Workers : JobsAt(i)' = JobsAt(i)
  BY DEF JobsAt
<1> QED
  BY <1>1 DEF ServedInv

LEMMA DisposesServed ==
  ASSUME ServedInv, NEW b \in BOOLEAN, Disposes(b), UNCHANGED <<crash, left>>
  PROVE  ServedInv'
<1>1. crash' \in [Workers -> BOOLEAN] /\ left' \in Int
  BY DEF ServedInv
<1>2. CASE b
  <2>1. /\ tr' = [i \in Workers |-> Gone] /\ place' = [j \in Jobs |-> None]
        /\ queue' = [i \in Workers |-> <<>>]
    BY <1>2 DEF Disposes
  <2>2. Serves(Gone, <<>>, {}) /\ Gone \in Transport /\ <<>> \in Seq(Jobs)
    BY ServesFresh DEF Serves
  <2>3. \A i \in Workers : JobsAt(i)' = {}
    BY <2>1, NoneIsNoWorker DEF JobsAt
  <2>4. /\ tr' \in [Workers -> Transport] /\ queue' \in [Workers -> Seq(Jobs)]
        /\ place' \in [Jobs -> Workers \cup {None}]
    BY <2>1, <2>2
  <2>5. ASSUME NEW i \in Workers PROVE Serves(tr'[i], queue'[i], JobsAt(i)')
    BY <2>1, <2>2, <2>3
  <2> QED
    BY <1>1, <2>4, <2>5 DEF ServedInv
<1>3. CASE ~b
  BY <1>1, <1>3, RestServed DEF Disposes
<1> QED
  BY <1>2, <1>3

LEMMA HaltServed ==
  ASSUME ServedInv, NEW b \in BOOLEAN, HaltBody(b), UNCHANGED <<crash, left>>
  PROVE  ServedInv'
<1>1. PICK d \in BOOLEAN : Disposes(d)
  <2>1. CASE halted \/ halting
    BY <2>1 DEF HaltBody
  <2>2. CASE ~(halted \/ halting)
    <3>1. PICK ok \in BOOLEAN : Disposes(b \/ ok)
      BY <2>2 DEF HaltBody
    <3>2. (b \/ ok) \in BOOLEAN
      OBVIOUS
    <3> QED
      BY <3>1, <3>2
  <2> QED
    BY <2>1, <2>2
<1> QED
  BY <1>1, DisposesServed

LEMMA NextServed == ServedInv /\ [Next]_vars => ServedInv'
<1> SUFFICES ASSUME ServedInv, [Next]_vars PROVE ServedInv'
  OBVIOUS
<1>1. crash \in [Workers -> BOOLEAN] /\ left \in Int
  BY DEF ServedInv
<1>2. CASE Advance
  BY <1>1, <1>2, RestServed DEF Advance, workVars
<1>3. CASE \E i \in Workers, on \in BOOLEAN : SetCrash(i, on)
  BY <1>1, <1>3, RestServed DEF SetCrash
<1>4. CASE Shutdown \/ StopSupervisors \/ Quiesce
  BY <1>1, <1>4, RestServed DEF Shutdown, StopSupervisors, Quiesce, workVars
<1>5. CASE ScopesRetired
  BY <1>1, <1>5, RestServed DEF ScopesRetired, workVars
<1>6. CASE Teardown
  <2>1. PICK x \in {0, 1} : HaltBody(x = 0) /\ UNCHANGED <<crash, left>>
    BY <1>6 DEF Teardown, Exit
  <2>2. (x = 0) \in BOOLEAN
    OBVIOUS
  <2> QED
    BY <2>1, <2>2, HaltServed
<1>7. CASE Deadline \/ Halt
  <2>1. HaltBody(FALSE) /\ UNCHANGED <<crash, left>>
    BY <1>7 DEF Deadline, Halt, Exit
  <2> QED
    BY <2>1, HaltServed
<1>8. CASE UNCHANGED vars
  BY <1>1, <1>8, RestServed DEF vars, workVars
<1> QED
  BY <1>2, <1>3, <1>4, <1>5, <1>6, <1>7, <1>8, MoveClockServed, DeliverServed,
     TickServed, KillServed, RespawnServed DEF Next, Orchestrate

LEMMA ServedAlways == Spec => []ServedInv
  BY ServedInit, NextServed, PTL DEF Spec

(* A ring of distinct jobs has as many as places. *)
LEMMA DistinctCount ==
  ASSUME NEW k \in Nat, NEW f, \A m, n \in 1 .. k : m # n => f[m] # f[n]
  PROVE  Cardinality({f[n] : n \in 1 .. k}) = k
<1>1. PICK S : S = {f[n] : n \in 1 .. k}
  OBVIOUS
<1>2. PICK h : h = [n \in 1 .. k |-> f[n]]
  OBVIOUS
<1>3. h \in Seq(S) /\ Len(h) = k /\ DOMAIN h = 1 .. k
  BY <1>1, <1>2
<1>4. \A m, n \in DOMAIN h : h[m] = h[n] => m = n
  BY <1>2, <1>3
<1>5. Range(h) = S
  BY <1>1, <1>2 DEF Range
<1> QED
  BY <1>1, <1>3, <1>4, <1>5, CountDistinct

LEMMA ServedStrandsNothing == ServedInv => NothingStranded
<1> SUFFICES ASSUME ServedInv, NEW i \in Workers
             PROVE  LET ring == [n \in 1 .. tr[i].count |->
                                   tr[i].cell[(tr[i].head + n - 1) % Ring]]
                        posted == {ring[n].job : n \in DOMAIN ring}
                    IN  /\ Cardinality(posted) = tr[i].count
                        /\ \A m, n \in DOMAIN ring : m < n => ring[m].due <= ring[n].due
                        /\ posted \cup Range(queue[i]) = JobsAt(i)
                        /\ posted \cap Range(queue[i]) = {}
                        /\ queue[i] # <<>> => tr[i].count = SetSlots
                        /\ tr[i].dead => JobsAt(i) = {}
  BY DEF NothingStranded
<1>1. Serves(tr[i], queue[i], JobsAt(i))
  BY DEF ServedInv
<1> DEFINE ring == [n \in 1 .. tr[i].count |-> tr[i].cell[(tr[i].head + n - 1) % Ring]]
<1>2. tr[i] \in Transport /\ tr[i].count \in Nat /\ tr[i].head \in Int
  BY <1>1, LineType DEF Serves, Transport, Cells
<1>3. ASSUME NEW n \in 1 .. tr[i].count
      PROVE  tr[i].cell[(tr[i].head + n - 1) % Ring] = Line(tr[i])[n]
  <2>1. tr[i].head + n - 1 = tr[i].head + (n - 1)
    BY <1>2
  <2> QED
    BY <1>2, <2>1, LineType DEF At
<1>4. DOMAIN ring = 1 .. tr[i].count /\ \A n \in 1 .. tr[i].count : ring[n] = Line(tr[i])[n]
  BY <1>3
<1> HIDE DEF ring
<1> DEFINE posted == {ring[n].job : n \in DOMAIN ring}
<1>5. posted = {Line(tr[i])[n].job : n \in 1 .. tr[i].count}
  BY <1>4
<1> HIDE DEF posted
<1>6. Cardinality(posted) = tr[i].count
  <2>1. PICK f : f = [n \in 1 .. tr[i].count |-> Line(tr[i])[n].job]
    OBVIOUS
  <2>2. \A m, n \in 1 .. tr[i].count : m # n => f[m] # f[n]
    BY <1>1, <2>1 DEF Serves, Holds
  <2>3. posted = {f[n] : n \in 1 .. tr[i].count}
    BY <1>5, <2>1
  <2> QED
    BY <1>2, <2>2, <2>3, DistinctCount
<1>7. Range(queue[i]) = {queue[i][n] : n \in 1 .. Len(queue[i])}
  <2>1. queue[i] \in Seq(Jobs)
    BY <1>1 DEF Serves, Holds
  <2> QED
    BY <2>1 DEF Range
<1>8. posted \cup Range(queue[i]) = JobsAt(i) /\ posted \cap Range(queue[i]) = {}
  BY <1>1, <1>5, <1>7 DEF Serves, Holds
<1>9. \A m, n \in DOMAIN ring : m < n => ring[m].due <= ring[n].due
  BY <1>1, <1>4 DEF Serves, Sorted
<1>10. (queue[i] # <<>> => tr[i].count = SetSlots) /\ (tr[i].dead => JobsAt(i) = {})
  BY <1>1 DEF Serves
<1>11. /\ Cardinality(posted) = tr[i].count
       /\ \A m, n \in DOMAIN ring : m < n => ring[m].due <= ring[n].due
       /\ posted \cup Range(queue[i]) = JobsAt(i)
       /\ posted \cap Range(queue[i]) = {}
       /\ queue[i] # <<>> => tr[i].count = SetSlots
       /\ tr[i].dead => JobsAt(i) = {}
  BY <1>6, <1>8, <1>9, <1>10
<1> QED
  BY ONLY <1>11 DEF ring, posted

(* No request is stranded and none answered twice, for any number of       *)
(* workers, jobs, slots and service times, whatever crashes, is killed,    *)
(* respawned or shut down (vworker.js send, deliverAt, terminate).         *)
THEOREM NothingStrandedAlways == Spec => []NothingStranded
  BY ServedAlways, ServedStrandsNothing, PTL

------------------------------------------------------------------------------
(* WeightedRandom: the alias table *)

(* The local definitions of Vose: a column is put on its stack, and one    *)
(* pair after another is made until a stack is empty (_build).             *)
Low(w, low, v, i) == v < SumFunction(w) \/ (v = SumFunction(w) /\ i \in low)
Sort(w, low, v, i) ==
  IF Low(w, low, w[i] * N, i) THEN [v EXCEPT !.small = Append(v.small, i)]
  ELSE [v EXCEPT !.large = Append(v.large, i)]
Sides(g, n, w, low) ==
  g = [k \in 0 .. n |-> IF k = 0 THEN [small |-> <<>>, large |-> <<>>]
                         ELSE Sort(w, low, g[k-1], k-1)]
Start(w, sides) ==
  [scaled |-> [i \in Nodes |-> w[i] * N],
   small |-> sides.small,
   large |-> sides.large,
   prob |-> [i \in Nodes |-> SumFunction(w)],
   alias |-> [i \in Nodes |-> i]]
Pair(w, low, v) ==
  LET s == Last(v.small)
      l == Last(v.large)
      rem == v.scaled[l] + v.scaled[s] - SumFunction(w)
  IN  [scaled |-> [v.scaled EXCEPT ![l] = rem],
       small |-> Front(v.small) \o IF Low(w, low, rem, l) THEN <<l>> ELSE <<>>,
       large |-> Front(v.large) \o IF Low(w, low, rem, l) THEN <<>> ELSE <<l>>,
       prob |-> [v.prob EXCEPT ![s] = v.scaled[s]],
       alias |-> [v.alias EXCEPT ![s] = l]]
Over(v) == v.small = <<>> \/ v.large = <<>>
Paired(g, n, w, low, start) ==
  g = [t \in 0 .. n |->
         IF t = 0 THEN start ELSE IF Over(g[t-1]) THEN g[t-1] ELSE Pair(w, low, g[t-1])]

(* Vose, with its two recursive functions named.                           *)
LEMMA VoseUnfold ==
  ASSUME NEW w, NEW low
  PROVE  Vose(w, low) =
           LET done == (CHOOSE g : Paired(g, N, w, low,
                                          Start(w, (CHOOSE h : Sides(h, N, w, low))[N])))[N]
           IN  [prob |-> done.prob, alias |-> done.alias]
  BY DEF Vose, Paired, Sides, Sort, Start, Pair, Over, Low

(* Both recursions have a solution, over any range.                        *)
LEMMA SidesExist ==
  ASSUME NEW w, NEW low, NEW n \in Nat
  PROVE  \E g : Sides(g, n, w, low)
<1> DEFINE T == {m \in Nat : \E g : Sides(g, m, w, low)}
           none == [small |-> <<>>, large |-> <<>>]
<1>1. 0 \in T
  <2>1. Sides([t \in 0 .. 0 |-> none], 0, w, low)
    BY DEF Sides
  <2> QED
    BY <2>1
<1>2. ASSUME NEW m \in T PROVE m + 1 \in T
  <2>1. PICK g : Sides(g, m, w, low)
    OBVIOUS
  <2>2. m \in Nat
    OBVIOUS
  <2> DEFINE h == [t \in 0 .. m+1 |-> IF t <= m THEN g[t] ELSE Sort(w, low, g[m], m)]
  <2>3. ASSUME NEW t \in 0 .. m+1
        PROVE  h[t] = IF t = 0 THEN none ELSE Sort(w, low, h[t-1], t-1)
    <3>1. CASE t = 0
      <4>1. h[t] = g[0] /\ g[0] = none
        BY <2>1, <2>2, <3>1 DEF Sides
      <4> QED
        BY <3>1, <4>1
    <3>2. CASE t \in 1 .. m
      <4>1. h[t] = g[t] /\ h[t-1] = g[t-1] /\ t # 0
        BY <2>2, <3>2
      <4>2. g[t] = IF t = 0 THEN none ELSE Sort(w, low, g[t-1], t-1)
        BY <2>1, <2>2, <3>2 DEF Sides
      <4> QED
        BY <4>1, <4>2
    <3>3. CASE t = m + 1
      <4>1. t - 1 = m /\ t # 0 /\ ~(t <= m) /\ m \in 0 .. m+1 /\ m <= m
        BY <2>2, <3>3
      <4>2. h[t] = Sort(w, low, g[m], m) /\ h[t-1] = g[m]
        BY <3>3, <4>1
      <4> HIDE DEF none, h
      <4> QED
        BY <4>1, <4>2
    <3> QED
      BY <2>2, <3>1, <3>2, <3>3
  <2>4. Sides(h, m + 1, w, low)
    <3>1. h = [t \in 0 .. m+1 |-> IF t = 0 THEN none ELSE Sort(w, low, h[t-1], t-1)]
      <4>1. DOMAIN h = 0 .. m+1 /\ h = [t \in 0 .. m+1 |-> h[t]]
        OBVIOUS
      <4> HIDE DEF h, none
      <4> QED
        BY <2>3, <4>1
    <3> HIDE DEF h
    <3> QED
      BY <3>1 DEF Sides
  <2> QED
    BY <2>2, <2>4
<1>3. T = Nat
  <2> HIDE DEF T
  <2> QED
    BY <1>1, <1>2, NatInduct DEF T
<1> QED
  BY <1>3

LEMMA PairedExists ==
  ASSUME NEW w, NEW low, NEW start, NEW n \in Nat
  PROVE  \E g : Paired(g, n, w, low, start)
<1> DEFINE T == {m \in Nat : \E g : Paired(g, m, w, low, start)}
           Longer(v) == IF Over(v) THEN v ELSE Pair(w, low, v)
<1>1. 0 \in T
  <2>1. Paired([t \in 0 .. 0 |-> start], 0, w, low, start)
    BY DEF Paired
  <2> QED
    BY <2>1
<1>2. ASSUME NEW m \in T PROVE m + 1 \in T
  <2>1. PICK g : Paired(g, m, w, low, start)
    OBVIOUS
  <2>2. m \in Nat
    OBVIOUS
  <2> DEFINE h == [t \in 0 .. m+1 |-> IF t <= m THEN g[t] ELSE Longer(g[m])]
  <2>3. ASSUME NEW t \in 0 .. m+1
        PROVE  h[t] = IF t = 0 THEN start ELSE Longer(h[t-1])
    <3>1. CASE t = 0
      BY <2>1, <2>2, <3>1 DEF Paired
    <3>2. CASE t \in 1 .. m
      <4>1. h[t] = g[t] /\ h[t-1] = g[t-1] /\ t # 0
        BY <2>2, <3>2
      <4>2. g[t] = IF t = 0 THEN start ELSE Longer(g[t-1])
        BY <2>1, <2>2, <3>2 DEF Paired
      <4> HIDE DEF Longer, h
      <4> QED
        BY <4>1, <4>2
    <3>3. CASE t = m + 1
      <4>1. t - 1 = m /\ t # 0 /\ ~(t <= m) /\ m \in 0 .. m+1 /\ m <= m
        BY <2>2, <3>3
      <4>2. h[t] = Longer(g[m]) /\ h[t-1] = g[m]
        BY <3>3, <4>1
      <4> HIDE DEF Longer, h
      <4> QED
        BY <4>1, <4>2
    <3> QED
      BY <2>2, <3>1, <3>2, <3>3
  <2>4. Paired(h, m + 1, w, low, start)
    <3>1. h = [t \in 0 .. m+1 |-> IF t = 0 THEN start ELSE Longer(h[t-1])]
      <4>1. DOMAIN h = 0 .. m+1 /\ h = [t \in 0 .. m+1 |-> h[t]]
        OBVIOUS
      <4> HIDE DEF h, Longer
      <4> QED
        BY <2>3, <4>1
    <3> HIDE DEF h
    <3> QED
      BY <3>1 DEF Paired
  <2> QED
    BY <2>2, <2>4
<1>3. T = Nat
  <2> HIDE DEF T
  <2> QED
    BY <1>1, <1>2, NatInduct DEF T
<1> QED
  BY <1>3

------------------------------------------------------------------------------
(* The stacks *)

(* A stack holds columns, each once. *)
Stack(q) == q \in Seq(Nodes) /\ \A j, k \in DOMAIN q : q[j] = q[k] => j = k

(* The endpoints are the numbers below N, and PICK_NONE is not one of them. *)
LEMMA NodeSet == /\ N \in Nat \ {0} /\ Nodes = 0 .. N-1 /\ IsFiniteSet(Nodes)
                 /\ Cardinality(Nodes) = N /\ NONE = -1 /\ NONE \notin Nodes
<1>1. N \in Nat \ {0} /\ Nodes = 0 .. N-1 /\ NONE = -1
  BY CapacityAssumption DEF Nodes, NONE
<1> QED
  BY <1>1, BelowFinite

(* What becomes of a stack that is pushed and popped.                      *)
LEMMA EmptyStack == Stack(<<>>) /\ Range(<<>>) = {}
  BY DEF Stack, Range

LEMMA PushedStack ==
  ASSUME NEW q, Stack(q), NEW i \in Nodes, i \notin Range(q)
  PROVE  Stack(Append(q, i)) /\ Range(Append(q, i)) = Range(q) \cup {i}
<1>1. q \in Seq(Nodes) /\ \A j, k \in DOMAIN q : q[j] = q[k] => j = k
  BY DEF Stack
<1>2. /\ Append(q, i) \in Seq(Nodes) /\ Range(Append(q, i)) = Range(q) \cup {i}
      /\ \A j, k \in DOMAIN Append(q, i) : Append(q, i)[j] = Append(q, i)[k] => j = k
  BY <1>1, AppendOnce
<1> QED
  BY <1>2 DEF Stack

LEMMA PoppedStack ==
  ASSUME NEW q, Stack(q), q # <<>>
  PROVE  /\ Last(q) \in Nodes /\ Last(q) \in Range(q)
         /\ Stack(Front(q)) /\ Range(Front(q)) = Range(q) \ {Last(q)}
         /\ Front(q) \in Seq(Nodes)
<1>1. q \in Seq(Nodes) /\ \A j, k \in DOMAIN q : q[j] = q[k] => j = k
  BY DEF Stack
<1> DEFINE t == SubSeq(q, 1, Len(q) - 1)
<1>2. /\ q[Len(q)] \in Nodes /\ q[Len(q)] \in Range(q)
      /\ t \in Seq(Nodes) /\ Range(t) = Range(q) \ {q[Len(q)]}
      /\ \A j, k \in DOMAIN t : t[j] = t[k] => j = k
  BY <1>1, FrontOnce
<1> QED
  BY <1>2 DEF Stack, Front, Last

LEMMA ConcatOne ==
  ASSUME NEW q \in Seq(Nodes), NEW i \in Nodes
  PROVE  q \o <<i>> = Append(q, i) /\ q \o <<>> = q
  OBVIOUS

LEMMA SortOne ==
  ASSUME NEW w, NEW low, NEW p, NEW q, NEW i
  PROVE  LET v == Sort(w, low, [small |-> p, large |-> q], i)
         IN  /\ v = [small |-> v.small, large |-> v.large]
             /\ v.small = IF Low(w, low, w[i] * N, i) THEN Append(p, i) ELSE p
             /\ v.large = IF Low(w, low, w[i] * N, i) THEN q ELSE Append(q, i)
  BY DEF Sort

(* The columns are sorted by what they hold. *)
LEMMA SidesOK ==
  ASSUME NEW w, NEW low, NEW g, Sides(g, N, w, low)
  PROVE  /\ Stack(g[N].small) /\ Stack(g[N].large)
         /\ Range(g[N].small) = {i \in Nodes : Low(w, low, w[i] * N, i)}
         /\ Range(g[N].large) = {i \in Nodes : ~Low(w, low, w[i] * N, i)}
<1> DEFINE short(i) == Low(w, low, w[i] * N, i)
           OK(v, k) ==
             /\ v = [small |-> v.small, large |-> v.large]
             /\ Stack(v.small) /\ Stack(v.large)
             /\ Range(v.small) = {i \in Nodes : i < k /\ short(i)}
             /\ Range(v.large) = {i \in Nodes : i < k /\ ~short(i)}
           T == {k \in Nat : k <= N => OK(g[k], k)}
<1>1. 0 \in T
  <2>1. g[0] = [small |-> <<>>, large |-> <<>>]
    BY NodeSet DEF Sides
  <2>2. \A i \in Nodes : ~(i < 0)
    BY NodeSet
  <2> QED
    BY <2>1, <2>2, EmptyStack
<1>2. ASSUME NEW k \in T PROVE k + 1 \in T
  <2> SUFFICES ASSUME k + 1 <= N PROVE OK(g[k+1], k + 1)
    OBVIOUS
  <2>1. k \in Nat /\ k \in Nodes /\ k + 1 \in 0 .. N /\ k + 1 # 0 /\ (k + 1) - 1 = k
        /\ OK(g[k], k) /\ ~(k < k)
    BY NodeSet
  <2>2. PICK v, u : v = g[k] /\ u = g[k+1]
    OBVIOUS
  <2>3. k \notin Range(v.small) /\ k \notin Range(v.large)
        /\ Stack(v.small) /\ Stack(v.large) /\ v = [small |-> v.small, large |-> v.large]
    BY <2>1, <2>2
  <2>4. u = Sort(w, low, v, k)
    BY <2>1, <2>2 DEF Sides
  <2>5. \A i \in Nodes : i < k + 1 <=> (i < k \/ i = k)
    BY <2>1, NodeSet
  <2>6. /\ u = [small |-> u.small, large |-> u.large]
        /\ u.small = IF short(k) THEN Append(v.small, k) ELSE v.small
        /\ u.large = IF short(k) THEN v.large ELSE Append(v.large, k)
    <3>1. PICK p, q : p = v.small /\ q = v.large
      OBVIOUS
    <3>2. u = Sort(w, low, [small |-> p, large |-> q], k)
      BY <2>3, <2>4, <3>1
    <3>3. /\ u = [small |-> u.small, large |-> u.large]
          /\ u.small = IF short(k) THEN Append(p, k) ELSE p
          /\ u.large = IF short(k) THEN q ELSE Append(q, k)
      BY ONLY <3>2, SortOne
    <3> QED
      BY <3>1, <3>3
  <2>7. /\ Range(v.small) = {i \in Nodes : i < k /\ short(i)}
        /\ Range(v.large) = {i \in Nodes : i < k /\ ~short(i)}
    BY <2>1, <2>2
  <2> HIDE DEF short
  <2>8. CASE short(k)
    <3>1. Stack(u.small) /\ Range(u.small) = Range(v.small) \cup {k}
      BY <2>1, <2>3, <2>6, <2>8, PushedStack
    <3>2. Stack(u.large) /\ Range(u.large) = Range(v.large)
      BY <2>3, <2>6, <2>8
    <3>3. Range(u.small) = {i \in Nodes : i < k + 1 /\ short(i)}
      BY <2>1, <2>5, <2>7, <2>8, <3>1
    <3>4. Range(u.large) = {i \in Nodes : i < k + 1 /\ ~short(i)}
      BY <2>1, <2>5, <2>7, <2>8, <3>2
    <3> QED
      BY <2>2, <2>6, <3>1, <3>2, <3>3, <3>4
  <2>9. CASE ~short(k)
    <3>1. Stack(u.large) /\ Range(u.large) = Range(v.large) \cup {k}
      BY <2>1, <2>3, <2>6, <2>9, PushedStack
    <3>2. Stack(u.small) /\ Range(u.small) = Range(v.small)
      BY <2>3, <2>6, <2>9
    <3>3. Range(u.small) = {i \in Nodes : i < k + 1 /\ short(i)}
      BY <2>1, <2>5, <2>7, <2>9, <3>2
    <3>4. Range(u.large) = {i \in Nodes : i < k + 1 /\ ~short(i)}
      BY <2>1, <2>5, <2>7, <2>9, <3>1
    <3> QED
      BY <2>2, <2>6, <3>1, <3>2, <3>3, <3>4
  <2> QED
    BY <2>8, <2>9
<1>3. T = Nat
  <2> HIDE DEF T
  <2> QED
    BY <1>1, <1>2, NatInduct DEF T
<1>4. N \in T
  BY <1>3, NodeSet
<1>5. \A i \in Nodes : i < N
  BY NodeSet
<1> QED
  BY <1>4, <1>5, NodeSet

------------------------------------------------------------------------------
(* The pairing *)

(* A column on a stack is open, and what it holds is not given away yet.   *)
Open(v) == Range(v.small) \cup Range(v.large)

(* What the columns give to endpoint i as their alternate. *)
Lent(p, a, T, i) == [c \in Nodes |-> IF a[c] = i THEN T - p[c] ELSE 0]

(* What is left of an endpoint's own column and what the others lend it add *)
(* up to its weight N times over, and ...                                  *)
Shares(v, w) ==
  \A i \in Nodes :
    (IF i \in Open(v) THEN v.scaled[i] ELSE v.prob[i])
      + SumFunction(Lent(v.prob, v.alias, SumFunction(w), i)) = w[i] * N

(* ... the columns still open hold the total on average, those on small no *)
(* more and those on large no less: the invariant of the pairing.          *)
Filling(v, w) ==
  /\ v.scaled \in [Nodes -> Nat]
  /\ v.prob \in [Nodes -> 0 .. SumFunction(w)] /\ v.alias \in [Nodes -> Nodes]
  /\ Stack(v.small) /\ Stack(v.large) /\ Range(v.small) \cap Range(v.large) = {}
  /\ \A i \in Range(v.small) : v.scaled[i] <= SumFunction(w)
  /\ \A i \in Range(v.large) : v.scaled[i] >= SumFunction(w)
  /\ \A i \in Open(v) : v.prob[i] = SumFunction(w) /\ v.alias[i] = i
  /\ SumFunctionOnSet(v.scaled, Open(v)) = SumFunction(w) * Cardinality(Open(v))
  /\ Shares(v, w)

LEMMA StackInNodes ==
  ASSUME NEW q, Stack(q)
  PROVE  Range(q) \in SUBSET Nodes
  BY DEF Stack, Range

LEMMA StartFills ==
  ASSUME NEW w \in [Nodes -> Nat], NEW low, NEW sides, Stack(sides.small), Stack(sides.large),
         Range(sides.small) = {i \in Nodes : Low(w, low, w[i] * N, i)},
         Range(sides.large) = {i \in Nodes : ~Low(w, low, w[i] * N, i)}
  PROVE  Filling(Start(w, sides), w) /\ Open(Start(w, sides)) = Nodes
<1>1. SumFunction(w) \in Nat /\ N \in Nat /\ IsFiniteSet(Nodes) /\ Cardinality(Nodes) = N
  BY NodeSet, SumAllNat
<1>2. PICK T \in Nat : T = SumFunction(w)
  BY <1>1
<1>3. PICK v : v = Start(w, sides)
  OBVIOUS
<1>4. /\ v.scaled = [i \in Nodes |-> w[i] * N] /\ v.small = sides.small
      /\ v.large = sides.large /\ v.prob = [i \in Nodes |-> T] /\ v.alias = [i \in Nodes |-> i]
  BY <1>2, <1>3 DEF Start
<1>5. Open(v) = Nodes /\ Range(v.small) \cap Range(v.large) = {}
  BY <1>4 DEF Open
<1>6. \A i \in Nodes : w[i] * N \in Nat
  BY <1>1
<1>7. /\ \A i \in Range(v.small) : v.scaled[i] <= T
      /\ \A i \in Range(v.large) : v.scaled[i] >= T
  BY <1>2, <1>4, <1>6 DEF Low
<1>8. SumFunctionOnSet(v.scaled, Nodes) = T * N
  <2>1. SumFunctionOnSet(w, Nodes) = T
    <3>1. DOMAIN w = Nodes
      OBVIOUS
    <3> QED
      BY <1>2, <3>1 DEF SumFunction
  <2>2. \A i \in Nodes : w[i] \in Int /\ v.scaled[i] = N * w[i]
    BY <1>1, <1>4
  <2>3. SumFunctionOnSet(v.scaled, Nodes) = N * SumFunctionOnSet(w, Nodes)
    BY <1>1, <2>2, SumScale
  <2> QED
    BY <1>1, <1>2, <2>1, <2>3
<1>9. Shares(v, w)
  <2> SUFFICES ASSUME NEW i \in Nodes
               PROVE  v.scaled[i] + SumFunction(Lent(v.prob, v.alias, T, i)) = w[i] * N
    BY <1>2, <1>5 DEF Shares
  <2>1. Lent(v.prob, v.alias, T, i) = [c \in Nodes |-> 0]
    BY <1>4 DEF Lent
  <2>2. SumFunction(Lent(v.prob, v.alias, T, i)) = 0
    BY <1>1, <2>1, SumAllZero
  <2> QED
    BY <1>4, <1>6, <2>2
<1>10. /\ v.scaled \in [Nodes -> Nat] /\ v.prob \in [Nodes -> 0 .. T]
       /\ v.alias \in [Nodes -> Nodes]
       /\ \A i \in Open(v) : v.prob[i] = T /\ v.alias[i] = i
  BY <1>4, <1>5, <1>6
<1> QED
  BY <1>1, <1>2, <1>3, <1>4, <1>5, <1>7, <1>8, <1>9, <1>10 DEF Filling

(* A pair of columns: the small one, s, is closed, the large one, l, goes  *)
(* on with what it has left.                                               *)
LEMMA PairFills ==
  ASSUME NEW w \in [Nodes -> Nat], NEW low, NEW v, Filling(v, w), ~Over(v)
  PROVE  /\ Filling(Pair(w, low, v), w)
         /\ Cardinality(Open(Pair(w, low, v))) = Cardinality(Open(v)) - 1
         /\ Cardinality(Open(v)) \in Nat
<1>1. PICK T \in Nat : T = SumFunction(w)
  BY NodeSet, SumAllNat
<1>2. /\ v.scaled \in [Nodes -> Nat]
      /\ v.prob \in [Nodes -> 0 .. T] /\ v.alias \in [Nodes -> Nodes]
      /\ Stack(v.small) /\ Stack(v.large) /\ Range(v.small) \cap Range(v.large) = {}
      /\ \A i \in Range(v.small) : v.scaled[i] <= T
      /\ \A i \in Range(v.large) : v.scaled[i] >= T
      /\ \A i \in Open(v) : v.prob[i] = T /\ v.alias[i] = i
      /\ SumFunctionOnSet(v.scaled, Open(v)) = T * Cardinality(Open(v))
      /\ Shares(v, w) /\ v.small # <<>> /\ v.large # <<>>
  BY <1>1 DEF Filling, Over
<1>3. PICK s, l, u, fs, fl : /\ s = Last(v.small) /\ l = Last(v.large) /\ u = Pair(w, low, v)
                             /\ fs = Front(v.small) /\ fl = Front(v.large)
  OBVIOUS
<1>4. /\ s \in Nodes /\ s \in Range(v.small) /\ Stack(fs) /\ Range(fs) = Range(v.small) \ {s}
      /\ fs \in Seq(Nodes)
  BY ONLY <1>2, <1>3, PoppedStack
<1>5. /\ l \in Nodes /\ l \in Range(v.large) /\ Stack(fl) /\ Range(fl) = Range(v.large) \ {l}
      /\ fl \in Seq(Nodes)
  BY ONLY <1>2, <1>3, PoppedStack
<1>6. PICK rem \in Nat : rem = v.scaled[l] + v.scaled[s] - T
  <2>1. v.scaled[l] \in Nat /\ v.scaled[s] \in Nat /\ v.scaled[l] >= T
    BY <1>2, <1>4, <1>5
  <2> QED
    BY <2>1
<1>7. /\ s # l /\ s \notin Range(v.large) /\ l \notin Range(v.small)
      /\ s \in Open(v) /\ l \in Open(v)
  BY <1>2, <1>4, <1>5 DEF Open
<1>8. /\ u.scaled = [v.scaled EXCEPT ![l] = rem]
      /\ u.small = fs \o IF Low(w, low, rem, l) THEN <<l>> ELSE <<>>
      /\ u.large = fl \o IF Low(w, low, rem, l) THEN <<>> ELSE <<l>>
      /\ u.prob = [v.prob EXCEPT ![s] = v.scaled[s]]
      /\ u.alias = [v.alias EXCEPT ![s] = l]
  BY <1>1, <1>3, <1>6 DEF Pair
<1>9. /\ Stack(u.small) /\ Stack(u.large)
      /\ Range(u.small) = (Range(v.small) \ {s}) \cup (IF Low(w, low, rem, l) THEN {l} ELSE {})
      /\ Range(u.large) = (Range(v.large) \ {l}) \cup (IF Low(w, low, rem, l) THEN {} ELSE {l})
  <2>1. l \notin Range(fs) /\ l \notin Range(fl)
    BY <1>4, <1>5, <1>7
  <2>2. CASE Low(w, low, rem, l)
    <3>1. u.small = Append(fs, l) /\ u.large = fl
      BY <1>4, <1>5, <1>8, <2>2, ConcatOne
    <3> QED
      BY <1>4, <1>5, <2>1, <2>2, <3>1, PushedStack
  <2>3. CASE ~Low(w, low, rem, l)
    <3>1. u.small = fs /\ u.large = Append(fl, l)
      BY <1>4, <1>5, <1>8, <2>3, ConcatOne
    <3> QED
      BY <1>4, <1>5, <2>1, <2>3, <3>1, PushedStack
  <2> QED
    BY <2>2, <2>3
<1>10. Open(u) = Open(v) \ {s} /\ Range(u.small) \cap Range(u.large) = {}
  <2>1. CASE Low(w, low, rem, l)
    BY <1>2, <1>4, <1>5, <1>7, <1>9, <2>1 DEF Open
  <2>2. CASE ~Low(w, low, rem, l)
    BY <1>2, <1>4, <1>5, <1>7, <1>9, <2>2 DEF Open
  <2> QED
    BY <2>1, <2>2
<1>11. IsFiniteSet(Open(v)) /\ Open(v) \in SUBSET Nodes
  <2>1. Open(v) \in SUBSET Nodes
    BY <1>2, StackInNodes DEF Open
  <2> QED
    BY <2>1, NodeSet, FS_Subset
<1>12. Cardinality(Open(u)) = Cardinality(Open(v)) - 1 /\ Cardinality(Open(v)) \in Nat
  BY <1>7, <1>10, <1>11, FS_RemoveElement, FS_CardinalityType
<1>13. /\ \A i \in Range(u.small) : u.scaled[i] <= T
       /\ \A i \in Range(u.large) : u.scaled[i] >= T
  <2>1. \A i \in Nodes : u.scaled[i] = IF i = l THEN rem ELSE v.scaled[i]
    BY <1>2, <1>8
  <2>2. Range(v.small) \in SUBSET Nodes /\ Range(v.large) \in SUBSET Nodes
    BY <1>2, StackInNodes
  <2>3. Low(w, low, rem, l) => rem <= T
    BY <1>1 DEF Low
  <2>4. ~Low(w, low, rem, l) => rem >= T
    BY <1>1 DEF Low
  <2>5. CASE Low(w, low, rem, l)
    BY <1>2, <1>5, <1>7, <1>9, <2>1, <2>2, <2>3, <2>5
  <2>6. CASE ~Low(w, low, rem, l)
    BY <1>2, <1>5, <1>7, <1>9, <2>1, <2>2, <2>4, <2>6
  <2> QED
    BY <2>5, <2>6
<1>14. SumFunctionOnSet(u.scaled, Open(u)) = T * Cardinality(Open(u))
  <2>1. \A i \in Open(v) : v.scaled[i] \in Int /\ u.scaled[i] \in Int
    BY <1>2, <1>8, <1>11
  <2>2. SumFunctionOnSet(u.scaled, Open(v))
          = SumFunctionOnSet(v.scaled, Open(v)) + (u.scaled[l] - v.scaled[l])
    <3>1. \A i \in Open(v) \ {l} : v.scaled[i] = u.scaled[i]
      BY <1>2, <1>8, <1>11
    <3>2. PICK p, q, O : p = v.scaled /\ q = u.scaled /\ O = Open(v)
      OBVIOUS
    <3>3. /\ IsFiniteSet(O) /\ l \in O /\ \A i \in O : p[i] \in Int /\ q[i] \in Int
          /\ \A i \in O \ {l} : p[i] = q[i]
      BY <1>7, <1>11, <2>1, <3>1, <3>2
    <3>4. SumFunctionOnSet(q, O) = SumFunctionOnSet(p, O) + (q[l] - p[l])
      BY ONLY <3>3, SumChange
    <3> QED
      BY <3>2, <3>4
  <2>3. SumFunctionOnSet(u.scaled, Open(v)) = u.scaled[s] + SumFunctionOnSet(u.scaled, Open(u))
    BY <1>7, <1>10, <1>11, <2>1, SumRemove
  <2>4. u.scaled[l] = rem /\ u.scaled[s] = v.scaled[s]
        /\ v.scaled[l] \in Nat /\ v.scaled[s] \in Nat
    BY <1>2, <1>4, <1>5, <1>7, <1>8
  <2>5. SumFunctionOnSet(u.scaled, Open(u)) \in Int
    <3>1. IsFiniteSet(Open(u)) /\ \A i \in Open(u) : u.scaled[i] \in Int
      BY <1>10, <1>11, <2>1, FS_Subset
    <3> QED
      BY <3>1, SumType
  <2>6. SumFunctionOnSet(u.scaled, Open(u)) = T * Cardinality(Open(v)) - T
    <3>1. PICK k \in Int : k = T * Cardinality(Open(v))
      BY <1>12
    <3>2. SumFunctionOnSet(v.scaled, Open(v)) = k
      BY <1>2, <3>1
    <3> QED
      BY <1>6, <2>2, <2>3, <2>4, <2>5, <3>1, <3>2
  <2>7. PICK k \in Nat : k = Cardinality(Open(v)) /\ Cardinality(Open(u)) = k - 1
    BY <1>12
  <2>8. T * (k - 1) = T * k - T
    BY <2>7
  <2> QED
    BY <2>6, <2>7, <2>8
<1>15. /\ u.scaled \in [Nodes -> Nat] /\ u.prob \in [Nodes -> 0 .. T]
       /\ u.alias \in [Nodes -> Nodes]
  <2>1. v.scaled[s] \in 0 .. T
    BY <1>2, <1>4
  <2> QED
    BY <1>2, <1>4, <1>5, <1>8, <2>1
<1>16. \A i \in Open(u) : u.prob[i] = T /\ u.alias[i] = i
  BY <1>2, <1>8, <1>10, <1>11
<1>17. Shares(u, w)
  <2> SUFFICES ASSUME NEW i \in Nodes
               PROVE  (IF i \in Open(u) THEN u.scaled[i] ELSE u.prob[i])
                        + SumFunction(Lent(u.prob, u.alias, T, i)) = w[i] * N
    BY <1>1 DEF Shares
  <2> DEFINE was == Lent(v.prob, v.alias, T, i)
             is == Lent(u.prob, u.alias, T, i)
  <2>1. (IF i \in Open(v) THEN v.scaled[i] ELSE v.prob[i]) + SumFunction(was) = w[i] * N
    BY <1>1, <1>2 DEF Shares
  <2>2. /\ DOMAIN was = Nodes /\ DOMAIN is = Nodes
        /\ \A c \in Nodes : was[c] \in Int /\ is[c] \in Int
        /\ \A c \in Nodes \ {s} : was[c] = is[c]
        /\ was[s] = 0 /\ is[s] = IF i = l THEN T - v.scaled[s] ELSE 0
    <3>1. \A c \in Nodes \ {s} : u.prob[c] = v.prob[c] /\ u.alias[c] = v.alias[c]
      BY <1>2, <1>8
    <3>2. u.prob[s] = v.scaled[s] /\ u.alias[s] = l /\ v.prob[s] = T /\ v.alias[s] = s
      BY <1>2, <1>4, <1>7, <1>8
    <3>3. \A c \in Nodes : v.prob[c] \in Nat /\ u.prob[c] \in Nat
      BY <1>2, <1>15
    <3>4. /\ DOMAIN was = Nodes /\ DOMAIN is = Nodes
          /\ \A c \in Nodes : /\ was[c] = IF v.alias[c] = i THEN T - v.prob[c] ELSE 0
                             /\ is[c] = IF u.alias[c] = i THEN T - u.prob[c] ELSE 0
      BY DEF Lent
    <3> HIDE DEF was, is
    <3>5. \A c \in Nodes : was[c] \in Int /\ is[c] \in Int
      BY <3>3, <3>4
    <3>6. \A c \in Nodes \ {s} : was[c] = is[c]
      BY <3>1, <3>4
    <3>7. s \in Nodes /\ s # l
      BY <1>4, <1>7
    <3>8. was[s] = 0
      BY <3>2, <3>4, <3>7
    <3>9. is[s] = IF i = l THEN T - v.scaled[s] ELSE 0
      BY <3>2, <3>4, <3>7
    <3> QED
      BY <3>4, <3>5, <3>6, <3>8, <3>9
  <2>3. SumFunction(is) = SumFunction(was) + (is[s] - was[s]) /\ SumFunction(was) \in Int
    <3> HIDE DEF was, is
    <3>1. SumFunctionOnSet(is, Nodes) = SumFunctionOnSet(was, Nodes) + (is[s] - was[s])
      <4>1. PICK p, q : p = was /\ q = is
        OBVIOUS
      <4>2. \A c \in Nodes : p[c] \in Int /\ q[c] \in Int
        BY <2>2, <4>1
      <4>3. \A c \in Nodes \ {s} : p[c] = q[c]
        BY <2>2, <4>1
      <4>4. PICK rest : rest = Nodes \ {s}
        OBVIOUS
      <4>5. SumFunctionOnSet(p, rest) = SumFunctionOnSet(q, rest)
            /\ SumFunctionOnSet(p, rest) \in Int
        <5>1. IsFiniteSet(rest) /\ \A c \in rest : p[c] \in Int /\ p[c] = q[c]
          BY <4>2, <4>3, <4>4, NodeSet, FS_Subset
        <5> QED
          BY ONLY <5>1, SumAgree, SumType
      <4>6. /\ SumFunctionOnSet(p, Nodes) = p[s] + SumFunctionOnSet(p, rest)
            /\ SumFunctionOnSet(q, Nodes) = q[s] + SumFunctionOnSet(q, rest)
        BY <1>4, <4>2, <4>4, NodeSet, SumRemove
      <4>7. p[s] \in Int /\ q[s] \in Int
        BY <1>4, <4>2
      <4> QED
        BY <4>1, <4>5, <4>6, <4>7
    <3>2. SumFunctionOnSet(was, Nodes) \in Int
      BY <2>2, NodeSet, SumType
    <3> QED
      BY <2>2, <3>1, <3>2 DEF SumFunction
  <2>4. /\ u.scaled[l] = rem /\ u.prob[s] = v.scaled[s]
        /\ i # l => u.scaled[i] = v.scaled[i]
        /\ i # s => u.prob[i] = v.prob[i]
        /\ v.scaled[i] \in Nat /\ v.scaled[s] \in Nat /\ v.scaled[l] \in Nat
        /\ v.prob[i] \in Nat
    BY <1>2, <1>4, <1>5, <1>8
  <2> HIDE DEF was, is
  <2>5. CASE i = s
    BY <1>7, <1>10, <2>1, <2>2, <2>3, <2>4, <2>5 DEF is, was
  <2>6. CASE i = l
    <3>1. l \in Open(u)
      BY <1>7, <1>10
    <3>2. SumFunction(is) = SumFunction(was) + (T - v.scaled[s])
      BY <2>2, <2>3, <2>4, <2>6
    <3>3. v.scaled[l] + SumFunction(was) = w[i] * N
      BY <1>7, <2>1, <2>6
    <3>4. rem + SumFunction(is) = v.scaled[l] + SumFunction(was)
      BY <1>6, <2>3, <2>4, <3>2
    <3> QED
      BY <2>4, <2>6, <3>1, <3>3, <3>4 DEF is
  <2>7. CASE i # s /\ i # l
    <3>1. i \in Open(u) <=> i \in Open(v)
      BY <1>10, <2>7
    <3>2. SumFunction(is) = SumFunction(was)
      BY <2>2, <2>3, <2>7
    <3> QED
      BY <2>1, <2>4, <2>7, <3>1, <3>2 DEF is
  <2> QED
    BY <2>5, <2>6, <2>7
<1>18. Filling(u, w)
  BY <1>1, <1>9, <1>10, <1>13, <1>14, <1>15, <1>16, <1>17 DEF Filling
<1> QED
  BY <1>3, <1>12, <1>18

(* When one stack is empty, the columns on the other hold the total each,  *)
(* and every share is exact.                                               *)
LEMMA OverExact ==
  ASSUME NEW w \in [Nodes -> Nat], NEW v, Filling(v, w), Over(v), NEW i \in Nodes
  PROVE  v.prob[i] + SumFunction(Lent(v.prob, v.alias, SumFunction(w), i)) = w[i] * N
<1>1. PICK T \in Nat : T = SumFunction(w)
  BY NodeSet, SumAllNat
<1>2. PICK O : O = Open(v)
  OBVIOUS
<1>3. /\ v.scaled \in [Nodes -> Nat]
      /\ \A j \in O : v.prob[j] = T
      /\ SumFunctionOnSet(v.scaled, O) = T * Cardinality(O)
      /\ (IF i \in O THEN v.scaled[i] ELSE v.prob[i]) + SumFunction(Lent(v.prob, v.alias, T, i))
           = w[i] * N
  BY <1>1, <1>2 DEF Filling, Shares
<1>4. IsFiniteSet(O) /\ O \in SUBSET Nodes
  <2>1. O \in SUBSET Nodes
    BY <1>2, StackInNodes DEF Open, Filling
  <2> QED
    BY <2>1, NodeSet, FS_Subset
<1>5. (\A j \in O : v.scaled[j] <= T) \/ (\A j \in O : v.scaled[j] >= T)
  <2>1. v.small = <<>> => \A j \in O : v.scaled[j] >= T
    BY <1>1, <1>2, EmptyStack DEF Filling, Open
  <2>2. v.large = <<>> => \A j \in O : v.scaled[j] <= T
    BY <1>1, <1>2, EmptyStack DEF Filling, Open
  <2> QED
    BY <2>1, <2>2 DEF Over
<1>6. PICK p, full : p = v.scaled /\ full = [j \in O |-> T]
  OBVIOUS
<1>7. SumFunctionOnSet(full, O) = T * Cardinality(O) /\ \A j \in O : full[j] = T /\ p[j] \in Nat
  <2>1. \A j \in O : full[j] = T /\ p[j] \in Nat
    BY <1>3, <1>4, <1>6
  <2>2. SumFunctionOnSet(full, O) = T * Cardinality(O)
    BY ONLY <1>1, <1>4, <2>1, SumConst
  <2> QED
    BY <2>1, <2>2
<1>8. SumFunctionOnSet(p, O) = SumFunctionOnSet(full, O) /\ SumFunctionOnSet(p, O) \in Int
  <2>1. SumFunctionOnSet(p, O) \in Int
    BY ONLY <1>4, <1>7, SumType
  <2> QED
    BY <1>3, <1>6, <1>7, <2>1
<1>9. \A j \in O : p[j] = T
  <2>1. CASE \A j \in O : v.scaled[j] <= T
    <3>1. PICK g : g = [j \in O |-> T - p[j]]
      OBVIOUS
    <3>2. \A j \in O : g[j] \in Nat /\ full[j] = p[j] + g[j]
      BY <1>6, <1>7, <2>1, <3>1
    <3>3. SumFunctionOnSet(full, O) = SumFunctionOnSet(p, O) + SumFunctionOnSet(g, O)
      <4>1. \A j \in O : p[j] \in Int /\ g[j] \in Int /\ full[j] = p[j] + g[j]
        BY <1>7, <3>2
      <4> QED
        BY ONLY <1>4, <4>1, SumPlus
    <3>4. SumFunctionOnSet(g, O) \in Nat
      BY ONLY <1>4, <3>2, SumNat
    <3>5. SumFunctionOnSet(g, O) = 0
      BY <1>8, <3>3, <3>4
    <3>6. \A j \in O : g[j] = 0
      BY ONLY <1>4, <3>2, <3>5, SumZero
    <3> QED
      BY <1>7, <3>2, <3>6
  <2>2. CASE \A j \in O : v.scaled[j] >= T
    <3>1. PICK g : g = [j \in O |-> p[j] - T]
      OBVIOUS
    <3>2. \A j \in O : g[j] \in Nat /\ p[j] = full[j] + g[j]
      BY <1>6, <1>7, <2>2, <3>1
    <3>3. SumFunctionOnSet(p, O) = SumFunctionOnSet(full, O) + SumFunctionOnSet(g, O)
      <4>1. \A j \in O : full[j] \in Int /\ g[j] \in Int /\ p[j] = full[j] + g[j]
        BY <1>7, <3>2
      <4> QED
        BY ONLY <1>4, <4>1, SumPlus
    <3>4. SumFunctionOnSet(g, O) \in Nat
      BY ONLY <1>4, <3>2, SumNat
    <3>5. SumFunctionOnSet(g, O) = 0
      BY <1>8, <3>3, <3>4
    <3>6. \A j \in O : g[j] = 0
      BY ONLY <1>4, <3>2, <3>5, SumZero
    <3> QED
      BY <1>7, <3>2, <3>6
  <2> QED
    BY <1>5, <2>1, <2>2
<1>10. (IF i \in O THEN v.scaled[i] ELSE v.prob[i]) = v.prob[i]
  BY <1>3, <1>6, <1>9
<1> QED
  BY <1>1, <1>3, <1>10

(* A table that _build may leave: chances within the total, and every      *)
(* endpoint's share exact.                                                 *)
Exact(w, prob_, alias_) ==
  /\ prob_ \in [Nodes -> 0 .. SumFunction(w)] /\ alias_ \in [Nodes -> Nodes]
  /\ \A i \in Nodes : prob_[i] + SumFunction(Lent(prob_, alias_, SumFunction(w), i)) = w[i] * N

(* N pairings are enough, and rounding may have put full columns on either *)
(* side.                                                                   *)
LEMMA VoseExact ==
  ASSUME NEW w \in [Nodes -> Nat], NEW low
  PROVE  Exact(w, Vose(w, low).prob, Vose(w, low).alias)
<1>1. PICK h : h = CHOOSE g : Sides(g, N, w, low)
  OBVIOUS
<1>2. Sides(h, N, w, low)
  <2>1. \E g : Sides(g, N, w, low)
    BY NodeSet, SidesExist
  <2> QED
    BY <1>1, <2>1
<1>3. PICK start : start = Start(w, h[N])
  OBVIOUS
<1>4. Filling(start, w) /\ Cardinality(Open(start)) = N
  <2>1. Filling(start, w) /\ Open(start) = Nodes
    BY <1>2, <1>3, SidesOK, StartFills
  <2> QED
    BY <2>1, NodeSet
<1>5. PICK g : g = CHOOSE f : Paired(f, N, w, low, start)
  OBVIOUS
<1>6. Paired(g, N, w, low, start)
  <2>1. \E f : Paired(f, N, w, low, start)
    BY NodeSet, PairedExists
  <2> QED
    BY <1>5, <2>1
<1>7. Vose(w, low) = [prob |-> g[N].prob, alias |-> g[N].alias]
  BY <1>1, <1>3, <1>5, VoseUnfold
<1> DEFINE OK(v, t) == Filling(v, w) /\ (Over(v) \/ Cardinality(Open(v)) + t = N)
           S == {t \in Nat : t <= N => OK(g[t], t)}
<1>8. 0 \in S
  <2>1. g[0] = start
    BY <1>6, NodeSet DEF Paired
  <2> QED
    BY <1>4, <2>1, NodeSet
<1>9. ASSUME NEW t \in S PROVE t + 1 \in S
  <2> SUFFICES ASSUME t + 1 <= N PROVE OK(g[t+1], t + 1)
    OBVIOUS
  <2>1. t \in Nat /\ t + 1 \in 0 .. N /\ t + 1 # 0 /\ (t + 1) - 1 = t /\ OK(g[t], t)
    BY NodeSet
  <2>2. PICK v, u : v = g[t] /\ u = g[t+1]
    OBVIOUS
  <2>3. u = IF Over(v) THEN v ELSE Pair(w, low, v)
    BY <1>6, <2>1, <2>2 DEF Paired
  <2>4. Filling(v, w) /\ (Over(v) \/ Cardinality(Open(v)) + t = N)
    BY <2>1, <2>2
  <2>5. CASE Over(v)
    BY <2>2, <2>3, <2>4, <2>5
  <2>6. CASE ~Over(v)
    <3>1. /\ u = Pair(w, low, v) /\ Filling(u, w)
          /\ Cardinality(Open(u)) = Cardinality(Open(v)) - 1 /\ Cardinality(Open(v)) \in Nat
      BY <2>3, <2>4, <2>6, PairFills
    <3>2. Cardinality(Open(u)) + (t + 1) = N
      BY <2>1, <2>4, <2>6, <3>1, NodeSet
    <3> QED
      BY <2>2, <3>1, <3>2
  <2> QED
    BY <2>5, <2>6
<1>10. S = Nat
  <2> HIDE DEF S
  <2> QED
    BY <1>8, <1>9, NatInduct DEF S
<1>11. Filling(g[N], w) /\ (Over(g[N]) \/ Cardinality(Open(g[N])) + N = N)
  <2>1. N \in S
    BY <1>10, NodeSet
  <2> QED
    BY <2>1, NodeSet
<1>12. PICK v : v = g[N]
  OBVIOUS
<1>13. Over(v)
  <2> SUFFICES ASSUME Cardinality(Open(v)) + N = N PROVE v.small = <<>>
    BY <1>11, <1>12 DEF Over
  <2>1. Stack(v.small) /\ Stack(v.large)
    BY <1>11, <1>12 DEF Filling
  <2>2. IsFiniteSet(Open(v))
    <3>1. Open(v) \in SUBSET Nodes
      BY <2>1, StackInNodes DEF Open
    <3> QED
      BY <3>1, NodeSet, FS_Subset
  <2>3. Cardinality(Open(v)) = 0
    BY <2>2, NodeSet, FS_CardinalityType
  <2>4. Range(v.small) = {}
    BY <2>2, <2>3, FS_EmptySet DEF Open
  <2> QED
    BY <2>1, <2>4, PoppedStack
<1>14. /\ v.prob \in [Nodes -> 0 .. SumFunction(w)] /\ v.alias \in [Nodes -> Nodes]
  BY <1>11, <1>12 DEF Filling
<1>15. \A i \in Nodes :
         v.prob[i] + SumFunction(Lent(v.prob, v.alias, SumFunction(w), i)) = w[i] * N
  BY <1>11, <1>12, <1>13, OverExact
<1>16. Exact(w, v.prob, v.alias)
  BY <1>14, <1>15 DEF Exact
<1> QED
  BY <1>7, <1>12, <1>16

LEMMA TablesExact ==
  ASSUME NEW w \in [Nodes -> Nat], NEW table \in Tables(w)
  PROVE  /\ table.prob \in [Nodes -> 0 .. SumFunction(w)] /\ table.alias \in [Nodes -> Nodes]
         /\ SumFunction(w) > 0 => Exact(w, table.prob, table.alias)
<1>1. SumFunction(w) \in Nat
  BY NodeSet, SumAllNat
<1>2. CASE SumFunction(w) = 0
  <2>1. table = [prob |-> [i \in Nodes |-> 0], alias |-> [i \in Nodes |-> i]]
    BY <1>2 DEF Tables
  <2>2. table.prob = [i \in Nodes |-> 0] /\ table.alias = [i \in Nodes |-> i]
    BY <2>1
  <2> QED
    BY <1>2, <2>2
<1>3. CASE SumFunction(w) # 0
  <2>1. PICK low \in SUBSET Nodes : table = Vose(w, low)
    BY <1>3 DEF Tables
  <2>2. Exact(w, table.prob, table.alias)
    BY <2>1, VoseExact
  <2> QED
    BY <2>2 DEF Exact
<1> QED
  BY <1>2, <1>3

------------------------------------------------------------------------------
(* The invariant of the balancer *)

(* The table is exact for the weights it was built on, the cached sums are *)
(* those of the built weights, and what is stale was edited in place.      *)
WeightedInv ==
  /\ eligible \in SUBSET Nodes /\ live \in 0 .. N /\ LiveExact
  /\ weights \in [Nodes -> Weights] /\ built \in [Nodes -> Weights]
  /\ psum = SumFunction(built) /\ ew = SumOver(built, eligible)
  /\ prob \in [Nodes -> 0 .. psum] /\ alias \in [Nodes -> Nodes]
  /\ psum > 0 => Exact(built, prob, alias)
  /\ edited \in SUBSET Nodes
  /\ \A i \in Nodes : weights[i] # built[i] => i \in edited

LEMMA WeightsNat ==
  ASSUME NEW w \in [Nodes -> Weights]
  PROVE  /\ w \in [Nodes -> Nat] /\ SumFunction(w) \in Nat
         /\ \A i \in Nodes : w[i] <= SumFunction(w)
<1>1. w \in [Nodes -> Nat]
  BY WeightAssumption
<1> QED
  BY <1>1, NodeSet, SumAllNat

(* The sum over those that are up. *)
LEMMA SumOverUp ==
  ASSUME NEW w \in [Nodes -> Nat], NEW A \in SUBSET Nodes
  PROVE  SumOver(w, A) \in Nat /\ SumOver(w, A) <= SumFunction(w)
<1>1. IsFiniteSet(A) /\ DOMAIN w = Nodes
  BY NodeSet, FS_Subset
<1>2. SumFunctionOnSet(w, A) \in Nat
  <2>1. \A i \in A : w[i] \in Nat
    OBVIOUS
  <2> QED
    BY ONLY <1>1, <2>1, SumNat
<1>3. SumFunctionOnSet(w, A) <= SumFunctionOnSet(w, Nodes)
  BY NodeSet, SumPart
<1> QED
  BY <1>1, <1>2, <1>3 DEF SumOver, SumFunction

(* A build leaves the invariant, whatever was built before.                *)
LEMMA BuildOK ==
  ASSUME eligible' \in SUBSET Nodes, live' \in 0 .. N, LiveExact', eligible' = eligible,
         NEW w \in [Nodes -> Weights], weights' = w, Build(w)
  PROVE  WeightedInv'
<1>1. /\ built' = w /\ psum' = SumFunction(w) /\ ew' = SumOver(w, eligible) /\ edited' = {}
  BY DEF Build
<1>2. PICK table \in Tables(w) : prob' = table.prob /\ alias' = table.alias
  BY DEF Build
<1>3. w \in [Nodes -> Nat]
  BY WeightsNat
<1>4. /\ prob' \in [Nodes -> 0 .. psum'] /\ alias' \in [Nodes -> Nodes]
      /\ psum' > 0 => Exact(w, prob', alias')
  BY <1>1, <1>2, <1>3, TablesExact
<1>5. (psum > 0 => Exact(built, prob, alias))'
  BY <1>1, <1>4 DEF Exact, Lent
<1>6. (ew = SumOver(built, eligible))' /\ (psum = SumFunction(built))'
  BY <1>1 DEF SumOver
<1>7. (\A i \in Nodes : weights[i] # built[i] => i \in edited)'
  BY <1>1
<1> QED
  BY <1>1, <1>4, <1>5, <1>6, <1>7 DEF WeightedInv

LEMMA WeightedInitOK == ASSUME WeightedInit PROVE WeightedInv
<1>1. /\ eligible \in SUBSET Nodes /\ live = Cardinality(eligible)
      /\ weights \in [Nodes -> Weights] /\ built = weights
      /\ psum = SumFunction(weights) /\ ew = SumOver(weights, eligible) /\ edited = {}
  BY DEF WeightedInit, BaseInit
<1>2. live \in 0 .. N
  BY <1>1, NodeSet, CountInRange
<1>3. PICK table \in Tables(weights) : prob = table.prob /\ alias = table.alias
  BY DEF WeightedInit
<1>4. weights \in [Nodes -> Nat]
  BY <1>1, WeightsNat
<1>5. /\ prob \in [Nodes -> 0 .. psum] /\ alias \in [Nodes -> Nodes]
      /\ psum > 0 => Exact(weights, prob, alias)
  BY <1>1, <1>3, <1>4, TablesExact
<1> QED
  BY <1>1, <1>2, <1>5 DEF WeightedInv, LiveExact

(* A flip moves the built weight into or out of the cached sum. *)
LEMMA FlipSums ==
  ASSUME WeightedInv, NEW i \in Nodes, NEW up \in BOOLEAN, SetEligible(i, up)
  PROVE  WeightedInv'
<1>1. /\ eligible' = IF up THEN eligible \cup {i} ELSE eligible \ {i}
      /\ live' = IF up = (i \in eligible) THEN live ELSE IF up THEN live + 1 ELSE live - 1
      /\ ew' = IF live' = live THEN ew
               ELSE IF live' > live THEN ew + built[i] ELSE ew - built[i]
      /\ UNCHANGED <<weights, built, prob, alias, psum, edited>>
  BY DEF SetEligible, Flip
<1>2. /\ eligible \in SUBSET (0 .. N-1) /\ i \in 0 .. N-1 /\ N \in Nat
      /\ live = Cardinality(eligible) /\ live \in Nat
  BY NodeSet DEF WeightedInv, LiveExact
<1>3. eligible' \in SUBSET (0 .. N-1) /\ live' = Cardinality(eligible')
  BY <1>1, <1>2, CountFollows
<1>4. live' \in 0 .. N
  BY <1>2, <1>3, CountInRange
<1>5. built \in [Nodes -> Nat] /\ ew = SumFunctionOnSet(built, eligible)
  BY WeightsNat DEF WeightedInv, SumOver
<1>6. IsFiniteSet(eligible) /\ \A j \in eligible : built[j] \in Int
  <2>1. eligible \subseteq Nodes
    BY <1>2, NodeSet
  <2>2. IsFiniteSet(eligible)
    BY <2>1, NodeSet, FS_Subset
  <2>3. \A j \in eligible : built[j] \in Int
    BY <1>5, <2>1
  <2> QED
    BY <2>2, <2>3
<1>7. ew \in Int /\ built[i] \in Nat
  BY <1>5, <1>6, SumType
<1>8. ew' = SumFunctionOnSet(built, eligible')
  <2>1. CASE up = (i \in eligible)
    <3>1. eligible' = eligible /\ live' = live
      BY <1>1, <2>1
    <3> QED
      BY <1>1, <1>5, <3>1
  <2>2. CASE up /\ i \notin eligible
    <3>1. eligible' = eligible \cup {i} /\ live' = live + 1
      BY <1>1, <2>2
    <3>2. SumFunctionOnSet(built, eligible') = SumFunctionOnSet(built, eligible) + built[i]
      BY <1>6, <1>7, <2>2, <3>1, SumAdd
    <3> QED
      BY <1>1, <1>2, <1>5, <3>1, <3>2
  <2>3. CASE ~up /\ i \in eligible
    <3>1. eligible' = eligible \ {i} /\ live' = live - 1
      BY <1>1, <2>3
    <3>2. SumFunctionOnSet(built, eligible) = built[i] + SumFunctionOnSet(built, eligible \ {i})
      BY <1>6, <2>3, SumRemove
    <3>3. SumFunctionOnSet(built, eligible \ {i}) \in Int
      BY <1>6, SumType, FS_Subset
    <3> QED
      BY <1>1, <1>2, <1>5, <1>7, <3>1, <3>2, <3>3
  <2> QED
    BY <2>1, <2>2, <2>3
<1>9. (ew = SumOver(built, eligible))'
  BY <1>1, <1>8 DEF SumOver
<1>10. /\ eligible' \in SUBSET Nodes /\ LiveExact'
  BY <1>3, NodeSet DEF LiveExact
<1>11. (psum > 0 => Exact(built, prob, alias))'
  BY <1>1 DEF WeightedInv, Exact, Lent
<1>12. (psum = SumFunction(built))'
  BY <1>1 DEF WeightedInv
<1> QED
  BY <1>1, <1>4, <1>9, <1>10, <1>11, <1>12 DEF WeightedInv

(* So does a step that builds nothing, where it skips no change.           *)
LEMMA StaysBuilt ==
  ASSUME WeightedInv, UNCHANGED <<baseVars, tableVars>>,
         weights' \in [Nodes -> Weights], edited' \in SUBSET Nodes,
         \A i \in Nodes : weights'[i] # built[i] => i \in edited'
  PROVE  WeightedInv'
<1>1. UNCHANGED <<eligible, live, built, prob, alias, psum, ew>>
  BY DEF baseVars, tableVars
<1>2. (psum > 0 => Exact(built, prob, alias))'
  BY <1>1 DEF WeightedInv, Exact, Lent
<1>3. (ew = SumOver(built, eligible))' /\ (psum = SumFunction(built))' /\ LiveExact'
  BY <1>1 DEF WeightedInv, SumOver, LiveExact
<1> QED
  BY <1>1, <1>2, <1>3 DEF WeightedInv

LEMMA WeightedNextOK == ASSUME WeightedInv, [WeightedNext]_weightedVars PROVE WeightedInv'
<1>1. /\ weights \in [Nodes -> Weights] /\ built \in [Nodes -> Weights]
      /\ edited \in SUBSET Nodes /\ \A j \in Nodes : weights[j] # built[j] => j \in edited
      /\ eligible \in SUBSET Nodes /\ live \in 0 .. N /\ LiveExact
  BY DEF WeightedInv
<1>2. ASSUME NEW w \in [Nodes -> Weights], weights' = w, Build(w), UNCHANGED baseVars
      PROVE  WeightedInv'
  <2>1. eligible' = eligible /\ live' = live
    BY <1>2 DEF baseVars
  <2>2. LiveExact'
    BY <1>1, <2>1 DEF LiveExact
  <2> QED
    BY <1>1, <1>2, <2>1, <2>2, BuildOK
<1>3. ASSUME NEW i \in Nodes, NEW w \in Weights, SetWeight(i, w) PROVE WeightedInv'
  <2>1. weights' = [weights EXCEPT ![i] = w] /\ UNCHANGED baseVars
    BY <1>3 DEF SetWeight
  <2>2. weights' \in [Nodes -> Weights]
    BY <1>1, <2>1
  <2>3. CASE w = built[i]
    <3>1. UNCHANGED tableVars /\ edited' = edited \ {i}
      BY <1>3, <2>3 DEF SetWeight
    <3>2. \A j \in Nodes : weights'[j] # built[j] => j \in edited'
      BY <1>1, <2>1, <2>3, <3>1
    <3> QED
      BY <1>1, <2>1, <2>2, <3>1, <3>2, StaysBuilt
  <2>4. CASE w # built[i]
    <3>1. Build(weights')
      BY <1>3, <2>4 DEF SetWeight
    <3> QED
      BY <1>2, <2>1, <2>2, <3>1
  <2> QED
    BY <2>3, <2>4
<1>4. ASSUME NEW i \in Nodes, NEW w \in Weights, EditInPlace(i, w) PROVE WeightedInv'
  <2>1. /\ weights' = [weights EXCEPT ![i] = w] /\ edited' = edited \cup {i}
        /\ UNCHANGED <<baseVars, tableVars>>
    BY <1>4 DEF EditInPlace, tableVars
  <2>2. /\ weights' \in [Nodes -> Weights] /\ edited' \in SUBSET Nodes
        /\ \A j \in Nodes : weights'[j] # built[j] => j \in edited'
    BY <1>1, <2>1
  <2> QED
    BY <2>1, <2>2, StaysBuilt
<1>5. ASSUME NEW w \in [Nodes -> Weights], SetWeights(w) PROVE WeightedInv'
  <2>1. weights' = w /\ UNCHANGED baseVars
    BY <1>5 DEF SetWeights
  <2>2. CASE w = built
    <3>1. UNCHANGED tableVars /\ edited' = {}
      BY <1>5, <2>2 DEF SetWeights
    <3> QED
      BY <2>1, <2>2, <3>1, StaysBuilt
  <2>3. CASE w # built
    <3>1. Build(w)
      BY <1>5, <2>3 DEF SetWeights
    <3> QED
      BY <1>2, <2>1, <3>1
  <2> QED
    BY <2>2, <2>3
<1>6. ASSUME Rebuild PROVE WeightedInv'
  <2>1. Build(weights) /\ UNCHANGED baseVars /\ weights' = weights
    BY <1>6 DEF Rebuild
  <2> QED
    BY <1>1, <1>2, <2>1
<1>7. CASE UNCHANGED weightedVars
  <2>1. UNCHANGED <<baseVars, tableVars, weights, edited>>
    BY <1>7 DEF weightedVars
  <2> QED
    BY <1>1, <2>1, StaysBuilt
<1> QED
  BY <1>3, <1>4, <1>5, <1>6, <1>7, FlipSums DEF WeightedNext

LEMMA WeightedAlways == WeightedSpec => []WeightedInv
<1>1. WeightedInit => WeightedInv
  BY WeightedInitOK
<1>2. WeightedInv /\ [WeightedNext]_weightedVars => WeightedInv'
  BY WeightedNextOK
<1> QED
  BY <1>1, <1>2, PTL DEF WeightedSpec

(* A weight set through the balancer is the one the table is built on, for *)
(* any endpoints and weights, and through any edits of the shared array    *)
(* (setWeight, setWeights and their skips).  The rebuild is skipped on the *)
(* built weight, not on the array's, which an edit has changed already.    *)
THEOREM ReweightAlways == WeightedSpec => []ReweightTakesEffect
<1>1. WeightedInv => ReweightTakesEffect
  <2> SUFFICES ASSUME WeightedInv PROVE ReweightTakesEffect
    OBVIOUS
  <2>1. \A i \in Nodes : weights[i] # built[i] => i \in edited
    BY DEF WeightedInv
  <2>2. ASSUME edited = {} PROVE AssertConsistent
    <3>1. weights \in [Nodes -> Weights] /\ built \in [Nodes -> Weights]
      BY DEF WeightedInv
    <3>2. \A i \in Nodes : weights[i] = built[i]
      BY <2>1, <2>2
    <3>3. weights = built
      BY <3>1, <3>2
    <3> QED
      BY <3>3 DEF AssertConsistent, WeightedInv
  <2> QED
    BY <2>1, <2>2 DEF ReweightTakesEffect
<1> QED
  BY <1>1, WeightedAlways, PTL

------------------------------------------------------------------------------
(* The shares of both ways of picking *)

(* A column only ever gives an endpoint with weight: its chance, or what   *)
(* it lends, is part of that endpoint's share.                             *)
LEMMA CandidatesHaveWeight ==
  ASSUME WeightedInv, psum > 0
  PROVE  /\ Candidates # {} /\ Candidates \subseteq Nodes
         /\ \A i \in Candidates : built[i] > 0
<1>1. /\ N \in Nat \ {0} /\ Nodes = 0 .. N-1 /\ IsFiniteSet(Nodes)
      /\ built \in [Nodes -> Nat] /\ psum \in Nat
      /\ \A c \in Nodes : prob[c] \in Nat /\ prob[c] <= psum /\ alias[c] \in Nodes
  <2>1. built \in [Nodes -> Nat] /\ psum = SumFunction(built) /\ SumFunction(built) \in Nat
    BY WeightsNat DEF WeightedInv
  <2>2. prob \in [Nodes -> 0 .. psum] /\ alias \in [Nodes -> Nodes]
    BY DEF WeightedInv
  <2>3. psum \in Nat
    BY <2>1
  <2>4. \A c \in Nodes : prob[c] \in 0 .. psum /\ alias[c] \in Nodes
    BY <2>2
  <2>5. \A c \in Nodes : prob[c] \in Nat /\ prob[c] <= psum
    BY <2>3, <2>4
  <2> QED
    BY <2>1, <2>3, <2>4, <2>5, NodeSet
<1>2. \A i \in Nodes : prob[i] + SumFunction(Lent(prob, alias, psum, i)) = built[i] * N
  BY DEF WeightedInv, Exact
<1>3. ASSUME NEW i \in Nodes
      PROVE  /\ SumFunction(Lent(prob, alias, psum, i)) \in Nat
             /\ \A c \in Nodes : alias[c] = i
                  => psum - prob[c] <= SumFunction(Lent(prob, alias, psum, i))
  <2>1. PICK f : f = Lent(prob, alias, psum, i)
    OBVIOUS
  <2>2. /\ f \in [Nodes -> Nat]
        /\ \A c \in Nodes : f[c] = IF alias[c] = i THEN psum - prob[c] ELSE 0
    <3>1. f = [c \in Nodes |-> IF alias[c] = i THEN psum - prob[c] ELSE 0]
      BY <2>1 DEF Lent
    <3>2. \A c \in Nodes : psum - prob[c] \in Nat
      BY <1>1
    <3> QED
      BY <3>1, <3>2
  <2>3. SumFunction(f) \in Nat /\ \A c \in Nodes : f[c] <= SumFunction(f)
    BY ONLY <1>1, <2>2, SumAllNat
  <2> QED
    BY <2>1, <2>2, <2>3
<1>4. ASSUME NEW i \in Nodes, built[i] = 0
      PROVE  prob[i] = 0 /\ \A c \in Nodes : alias[c] = i => prob[c] = psum
  <2>1. built[i] * N = 0
    BY <1>1, <1>4
  <2>2. PICK x \in Nat : x = SumFunction(Lent(prob, alias, psum, i))
    BY <1>3
  <2>3. prob[i] + x = 0
    BY <1>2, <2>1, <2>2
  <2>4. prob[i] = 0 /\ x = 0
    BY <1>1, <2>3
  <2>5. ASSUME NEW c \in Nodes, alias[c] = i PROVE prob[c] = psum
    <3>1. psum - prob[c] <= 0
      BY <1>3, <2>2, <2>4, <2>5
    <3> QED
      BY <1>1, <3>1
  <2> QED
    BY <2>4, <2>5
<1>5. Candidates \subseteq Nodes
  <2> SUFFICES ASSUME NEW c \in Candidates PROVE c \in Nodes
    OBVIOUS
  <2>1. c \in Nodes \/ \E d \in Nodes : c = alias[d]
    BY DEF Candidates
  <2> QED
    BY <1>1, <2>1
<1>6. ASSUME NEW i \in Candidates PROVE built[i] > 0
  <2>1. i \in Nodes /\ built[i] \in Nat
    BY <1>1, <1>5
  <2>2. prob[i] > 0 \/ \E d \in Nodes : alias[d] = i /\ prob[d] < psum
    BY DEF Candidates
  <2>3. ASSUME built[i] = 0 PROVE FALSE
    <3>1. prob[i] = 0 /\ \A c \in Nodes : alias[c] = i => prob[c] = psum
      BY <1>4, <2>1, <2>3
    <3>2. PICK d \in Nodes : alias[d] = i /\ prob[d] < psum
      BY <2>2, <3>1
    <3> QED
      BY <1>1, <3>1, <3>2
  <2> QED
    BY <2>1, <2>3
<1>7. Candidates # {}
  <2>1. 0 \in Nodes /\ prob[0] \in 0 .. psum
    BY <1>1
  <2>2. prob[0] > 0 \/ prob[0] < psum
    BY <2>1
  <2> QED
    BY <2>1, <2>2 DEF Candidates
<1> QED
  BY <1>5, <1>6, <1>7

(* What the fallback scan has passed before endpoint i, and through it. *)
Before(i) == SumOver(built, {j \in Scanned : j < i})
Reach(i) == SumOver(built, {j \in Scanned : j <= i})

(* The cached sum is that of the endpoints the scan looks at.              *)
LEMMA ScannedSums ==
  ASSUME WeightedInv
  PROVE  /\ Scanned \subseteq Nodes /\ IsFiniteSet(Scanned)
         /\ \A i \in Scanned : i \in Int /\ built[i] \in Nat \ {0}
         /\ ew = SumOver(built, Scanned)
         /\ \A A \in SUBSET Scanned :
              /\ SumOver(built, A) \in Nat
              /\ \A B \in SUBSET A : SumOver(built, B) <= SumOver(built, A)
<1>1. /\ eligible \in SUBSET Nodes /\ Nodes = 0 .. N-1 /\ N \in Nat /\ IsFiniteSet(Nodes)
      /\ built \in [Nodes -> Nat] /\ ew = SumOver(built, eligible)
  BY NodeSet, WeightsNat DEF WeightedInv
<1>2. Scanned \subseteq eligible /\ \A i \in eligible \ Scanned : ~(built[i] > 0)
  BY DEF Scanned
<1>3. Scanned \subseteq Nodes /\ IsFiniteSet(Scanned) /\ IsFiniteSet(eligible)
  BY <1>1, <1>2, FS_Subset
<1>4. \A i \in Scanned : i \in Int /\ built[i] \in Nat \ {0}
  BY <1>1, <1>3 DEF Scanned
<1>5. ew = SumOver(built, Scanned)
  <2>1. /\ \A i \in eligible : built[i] \in Int
        /\ \A i \in eligible \ Scanned : built[i] = 0
    BY <1>1, <1>2
  <2>2. SumFunctionOnSet(built, eligible) = SumFunctionOnSet(built, Scanned)
    BY ONLY <1>2, <1>3, <2>1, SumOff
  <2> QED
    BY <1>1, <2>2 DEF SumOver
<1>6. ASSUME NEW A \in SUBSET Scanned
      PROVE  /\ SumOver(built, A) \in Nat
             /\ \A B \in SUBSET A : SumOver(built, B) <= SumOver(built, A)
  <2>1. IsFiniteSet(A) /\ \A i \in A : built[i] \in Nat
    BY <1>3, <1>4, FS_Subset
  <2>2. SumFunctionOnSet(built, A) \in Nat
    BY ONLY <2>1, SumNat
  <2>3. \A B \in SUBSET A : SumFunctionOnSet(built, B) <= SumFunctionOnSet(built, A)
    BY ONLY <2>1, SumPart
  <2> QED
    BY <2>2, <2>3 DEF SumOver
<1> QED
  BY <1>3, <1>4, <1>5, <1>6

(* The scan gives each endpoint a stretch as long as its weight; they      *)
(* follow on one another and end at the cached sum.                        *)
LEMMA StretchesFollow ==
  ASSUME WeightedInv
  PROVE  /\ \A i \in Scanned : /\ Before(i) \in Nat /\ Reach(i) = Before(i) + built[i]
                               /\ Reach(i) \in Nat /\ Reach(i) <= ew
                               /\ \/ Before(i) = 0
                                  \/ \E j \in Scanned : j < i /\ Reach(j) = Before(i)
         /\ \A i, j \in Scanned : j < i => Reach(j) <= Before(i)
         /\ Scanned # {} => \E i \in Scanned : Reach(i) = ew
<1> DEFINE under(i) == {j \in Scanned : j < i}
           upTo(i) == {j \in Scanned : j <= i}
<1>1. /\ IsFiniteSet(Scanned) /\ \A i \in Scanned : i \in Int /\ built[i] \in Nat \ {0}
      /\ ew = SumOver(built, Scanned)
      /\ \A A \in SUBSET Scanned :
           /\ SumOver(built, A) \in Nat
           /\ \A B \in SUBSET A : SumOver(built, B) <= SumOver(built, A)
  BY ScannedSums
<1>2. ASSUME NEW i \in Scanned
      PROVE  /\ Before(i) \in Nat /\ Reach(i) = Before(i) + built[i]
             /\ Reach(i) \in Nat /\ Reach(i) <= ew
  <2>1. Before(i) = SumOver(built, under(i)) /\ Reach(i) = SumOver(built, upTo(i))
    BY DEF Before, Reach
  <2>2. under(i) \in SUBSET Scanned /\ upTo(i) \in SUBSET Scanned
    OBVIOUS
  <2>3. i \in upTo(i) /\ upTo(i) \ {i} = under(i)
    BY <1>1
  <2>4. IsFiniteSet(upTo(i)) /\ \A j \in upTo(i) : built[j] \in Int
    BY <1>1, FS_Subset
  <2> HIDE DEF under, upTo
  <2>5. SumFunctionOnSet(built, upTo(i)) = built[i] + SumFunctionOnSet(built, upTo(i) \ {i})
    BY ONLY <2>3, <2>4, SumRemove
  <2>6. SumOver(built, upTo(i)) = built[i] + SumOver(built, under(i))
    BY <2>3, <2>5 DEF SumOver
  <2>7. SumOver(built, under(i)) \in Nat /\ SumOver(built, upTo(i)) \in Nat
    BY <1>1, <2>2
  <2>8. SumOver(built, upTo(i)) <= ew
    BY <1>1, <2>2
  <2> QED
    BY <1>1, <2>1, <2>6, <2>7, <2>8
<1>3. ASSUME NEW i \in Scanned, NEW j \in Scanned, j < i PROVE Reach(j) <= Before(i)
  <2>1. upTo(j) \in SUBSET under(i) /\ under(i) \in SUBSET Scanned
    BY <1>1, <1>3
  <2> QED
    BY <1>1, <2>1 DEF Before, Reach
<1>4. ASSUME NEW A \in SUBSET Scanned, A # {}
      PROVE  \E m \in A : \A j \in A : j <= m
  <2>1. PICK f : f = [j \in A |-> j]
    OBVIOUS
  <2>2. IsFiniteSet(A) /\ \A j \in A : f[j] \in Int
    BY <1>1, <2>1, FS_Subset
  <2>3. \E m \in A : \A j \in A : f[j] <= f[m]
    BY ONLY <1>4, <2>2, MostExists
  <2> QED
    BY <2>1, <2>3
<1>5. ASSUME NEW i \in Scanned, Before(i) # 0
      PROVE  \E j \in Scanned : j < i /\ Reach(j) = Before(i)
  <2>1. under(i) # {}
    <3>1. SUFFICES ASSUME under(i) = {} PROVE FALSE
      OBVIOUS
    <3>2. Before(i) = SumFunctionOnSet(built, {})
      BY <3>1 DEF Before, SumOver
    <3> QED
      BY <1>5, <3>2, SumEmpty
  <2>2. PICK m \in under(i) : \A j \in under(i) : j <= m
    BY <1>4, <2>1
  <2>3. upTo(m) = under(i)
    BY <1>1, <2>2
  <2> QED
    BY <2>2, <2>3 DEF Before, Reach
<1>6. ASSUME Scanned # {} PROVE \E i \in Scanned : Reach(i) = ew
  <2>1. PICK m \in Scanned : \A j \in Scanned : j <= m
    BY <1>4, <1>6
  <2>2. upTo(m) = Scanned
    BY <2>1
  <2> QED
    BY <1>1, <2>1, <2>2 DEF Reach
<1> QED
  BY <1>2, <1>3, <1>5, <1>6

(* The scan stops at the endpoint on whose stretch the draw lies. *)
LEMMA ScanStops ==
  ASSUME WeightedInv, NEW u \in 0 .. ew-1, Scanned # {}
  PROVE  /\ SparsePick(u) \in Scanned
         /\ \A i \in Scanned : SparsePick(u) = i <=> Before(i) <= u /\ u < Reach(i)
<1> DEFINE hit == {i \in Scanned : u < Reach(i)}
<1>1. /\ \A i \in Scanned : /\ Before(i) \in Nat /\ Reach(i) \in Nat
                            /\ \/ Before(i) = 0
                               \/ \E j \in Scanned : j < i /\ Reach(j) = Before(i)
      /\ \A i, j \in Scanned : j < i => Reach(j) <= Before(i)
      /\ \E i \in Scanned : Reach(i) = ew
  BY StretchesFollow
<1>2. /\ Nodes = 0 .. N-1 /\ N \in Nat /\ Scanned \subseteq Nodes
      /\ eligible \in SUBSET Nodes /\ ew \in Nat
  <2>1. ew = SumOver(built, Scanned) /\ SumOver(built, Scanned) \in Nat
    BY ScannedSums
  <2> QED
    BY <2>1, NodeSet, ScannedSums DEF WeightedInv
<1>3. hit \in SUBSET Nat /\ hit # {}
  <2>1. Scanned \subseteq Nat
    BY <1>2
  <2>2. u < ew
    BY <1>2
  <2>3. PICK i \in Scanned : Reach(i) = ew
    BY <1>1
  <2> QED
    BY <2>1, <2>2, <2>3
<1>4. PICK p \in hit : \A j \in hit : p <= j
  BY <1>3, LeastExists
<1>5. SparsePick(u) = CHOOSE i \in Scanned : i \in hit /\ \A j \in hit : i <= j
  <2>1. SparsePick(u) = CHOOSE i \in Scanned :
          IF hit = {} THEN \A j \in Scanned : i >= j
          ELSE i \in hit /\ \A j \in hit : i <= j
    BY DEF SparsePick, Reach
  <2> HIDE DEF hit
  <2> QED
    BY <1>3, <2>1
<1>6. SparsePick(u) = p
  <2>1. \A i \in Scanned : (i \in hit /\ \A j \in hit : i <= j) => i = p
    BY <1>3, <1>4
  <2>2. p \in Scanned /\ p \in hit
    BY <1>4
  <2> HIDE DEF hit
  <2> QED
    BY <1>4, <1>5, <2>1, <2>2
<1>7. p \in Scanned /\ u < Reach(p) /\ u \in Nat
  BY <1>2, <1>4
<1>8. Before(p) <= u
  <2>1. CASE Before(p) = 0
    BY <1>7, <2>1
  <2>2. CASE Before(p) # 0
    <3>1. PICK j \in Scanned : j < p /\ Reach(j) = Before(p)
      BY <1>1, <1>7, <2>2
    <3>2. j \notin hit
      BY <1>2, <1>3, <1>4, <3>1
    <3> QED
      BY <1>1, <1>7, <3>1, <3>2
  <2> QED
    BY <2>1, <2>2
<1>9. ASSUME NEW i \in Scanned, Before(i) <= u, u < Reach(i) PROVE i = p
  <2>1. i \in hit /\ p <= i
    BY <1>4, <1>9
  <2>2. ~(p < i)
    BY <1>1, <1>7, <1>9
  <2> QED
    BY <1>2, <1>7, <2>1, <2>2
<1> QED
  BY <1>6, <1>7, <1>8, <1>9

(* So as many draws stop at an endpoint as it has weight (_sparsePick).    *)
LEMMA FallbackExact == ASSUME WeightedInv PROVE FallbackProportional
<1> SUFFICES ASSUME Scanned # {}, NEW i \in Nodes
             PROVE  Cardinality({u \in 0 .. ew-1 : SparsePick(u) = i})
                      = IF i \in eligible THEN built[i] ELSE 0
  BY DEF FallbackProportional
<1>1. ew \in Nat /\ built[i] \in Nat
  <2>1. ew = SumOver(built, Scanned) /\ SumOver(built, Scanned) \in Nat
    BY ScannedSums
  <2>2. built \in [Nodes -> Nat]
    BY WeightsNat DEF WeightedInv
  <2> QED
    BY <2>1, <2>2
<1>2. CASE i \in Scanned
  <2>1. PICK a \in Nat, b \in Nat : a = Before(i) /\ b = Reach(i) /\ b = a + built[i] /\ b <= ew
    BY <1>2, StretchesFollow
  <2>2. \A u \in 0 .. ew-1 : SparsePick(u) = i <=> a <= u /\ u < b
    BY <1>2, <2>1, ScanStops
  <2>3. {u \in 0 .. ew-1 : SparsePick(u) = i} = a .. b-1
    BY <1>1, <2>1, <2>2
  <2>4. Cardinality(a .. b-1) = IF a > b-1 THEN 0 ELSE b-1 - a + 1
    <3>1. a \in Int /\ b-1 \in Int
      BY <2>1
    <3> QED
      BY <3>1, FS_Interval
  <2>5. Cardinality(a .. b-1) = built[i]
    BY <1>1, <2>1, <2>4
  <2>6. i \in eligible
    BY <1>2 DEF Scanned
  <2> QED
    BY <2>3, <2>5, <2>6
<1>3. CASE i \notin Scanned
  <2>1. \A u \in 0 .. ew-1 : SparsePick(u) # i
    BY <1>3, ScanStops
  <2>2. {u \in 0 .. ew-1 : SparsePick(u) = i} = {}
    BY <2>1
  <2>3. i \in eligible => built[i] = 0
    BY <1>1, <1>3 DEF Scanned
  <2> QED
    BY <2>2, <2>3, FS_EmptySet
<1> QED
  BY <1>2, <1>3

(* Whether 64 draws were rejected or one was taken (pick).                 *)
LEMMA PicksClosed == ASSUME WeightedInv PROVE FailsClosed
<1>1. /\ eligible \in SUBSET Nodes /\ IsFiniteSet(Nodes) /\ NONE \notin Nodes
      /\ live = Cardinality(eligible) /\ live \in Nat
      /\ built \in [Nodes -> Nat] /\ psum = SumFunction(built) /\ psum \in Nat
      /\ \A i \in Nodes : built[i] \in Nat /\ built[i] <= psum
  <2>1. /\ built \in [Nodes -> Nat] /\ SumFunction(built) \in Nat
        /\ \A i \in Nodes : built[i] <= SumFunction(built)
        /\ psum = SumFunction(built)
    BY WeightsNat DEF WeightedInv
  <2>2. eligible \in SUBSET Nodes /\ live = Cardinality(eligible) /\ live \in Nat
    BY NodeSet DEF WeightedInv, LiveExact
  <2>3. \A i \in Nodes : built[i] \in Nat
    BY <2>1
  <2> QED
    BY <2>1, <2>2, <2>3, NodeSet
<1>2. Scanned \subseteq eligible /\ \A i \in eligible : i \in Scanned <=> built[i] > 0
  BY DEF Scanned
<1>3. CASE live = 0 \/ psum = 0
  <2>1. Pick = {NONE}
    BY <1>3 DEF Pick
  <2>2. Scanned = {}
    <3>1. CASE live = 0
      <4>1. eligible = {}
        BY <1>1, <3>1, FS_EmptySet, FS_Subset
      <4> QED
        BY <1>2, <4>1
    <3>2. CASE psum = 0
      BY <1>1, <1>2, <3>2
    <3> QED
      BY <1>3, <3>1, <3>2
  <2> QED
    BY <2>1, <2>2 DEF FailsClosed
<1>4. CASE ~(live = 0 \/ psum = 0)
  <2>1. /\ Candidates # {} /\ Candidates \subseteq Nodes
        /\ \A i \in Candidates : built[i] > 0
    BY <1>1, <1>4, CandidatesHaveWeight
  <2>2. Pick = (Candidates \cap eligible)
                 \cup (IF Candidates \subseteq eligible THEN {} ELSE Fallback)
    BY <1>4 DEF Pick
  <2>3. Candidates \cap eligible \subseteq Scanned
    BY <1>2, <2>1
  <2>4. NONE \notin Candidates /\ NONE \notin Scanned
    BY <1>1, <1>2, <2>1
  <2>5. CASE Candidates \subseteq eligible
    <3>1. Pick = Candidates \cap eligible
      BY <2>2, <2>5
    <3>2. Scanned # {}
      BY <2>1, <2>3, <2>5
    <3> QED
      BY <2>3, <2>4, <3>1, <3>2 DEF FailsClosed
  <2>6. CASE ~(Candidates \subseteq eligible) /\ Scanned = {}
    <3>1. Fallback = {NONE}
      BY <2>6 DEF Fallback
    <3>2. Pick = {NONE}
      BY <2>2, <2>3, <2>6, <3>1
    <3> QED
      BY <2>6, <3>2 DEF FailsClosed
  <2>7. CASE ~(Candidates \subseteq eligible) /\ Scanned # {}
    <3>1. ew # 0
      <4>1. PICK i \in Scanned : Reach(i) = ew
        BY <2>7, StretchesFollow
      <4>2. Reach(i) = Before(i) + built[i] /\ Before(i) \in Nat /\ built[i] \in Nat \ {0}
        BY StretchesFollow, ScannedSums
      <4> QED
        BY <4>1, <4>2
    <3>2. Fallback = {SparsePick(u) : u \in 0 .. ew-1}
      BY <2>7, <3>1 DEF Fallback
    <3>3. \A u \in 0 .. ew-1 : SparsePick(u) \in Scanned
      BY <2>7, ScanStops
    <3>4. Pick \subseteq Scanned
      BY <2>2, <2>3, <2>7, <3>2, <3>3
    <3> QED
      BY <2>4, <2>7, <3>4 DEF FailsClosed
  <2> QED
    BY <2>5, <2>6, <2>7
<1> QED
  BY <1>3, <1>4

(* The table and the fallback both give the exact shares of the built      *)
(* weights, and no pick returns an endpoint that is down or has no weight, *)
(* for any endpoints and weights, any flips, reweights and edits in place, *)
(* and whichever way rounding went (_build, _sparsePick, setEligible).     *)
THEOREM WeightedSharesAlways == WeightedSpec => []SharesExact
<1>1. ASSUME WeightedInv PROVE SharesExact
  <2>1. TypeOK
    <3>1. built \in [Nodes -> Nat] /\ SumFunction(built) \in Nat
      BY <1>1, WeightsNat DEF WeightedInv
    <3>2. SumOver(built, eligible) \in Nat /\ SumOver(built, eligible) <= SumFunction(built)
      BY <1>1, <3>1, SumOverUp DEF WeightedInv
    <3>3. psum \in Nat /\ ew \in 0 .. psum
      BY <1>1, <3>1, <3>2 DEF WeightedInv
    <3> QED
      BY <1>1, <3>3 DEF WeightedInv, TypeOK, BaseTypeOK
  <2>2. TableExact
    <3> SUFFICES ASSUME psum > 0, NEW i \in Nodes
                 PROVE  prob[i] + SumFunction(Lent(prob, alias, psum, i)) = built[i] * N
      BY DEF TableExact, Lent
    <3> QED
      BY <1>1 DEF WeightedInv, Exact
  <2> QED
    BY <1>1, <2>1, <2>2, FallbackExact, PicksClosed DEF SharesExact
<1> QED
  BY <1>1, WeightedAlways, PTL
===============================================================================
