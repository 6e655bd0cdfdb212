----------------------------- MODULE VirtualWorkers ---------------------------
(***************************************************************************)
(* The virtual-time workers of pickEcosystem/live (vworker.js): a worker   *)
(* is a first-in first-out server whose READY, replies and death are       *)
(* events on a clock the caller advances.  A transport is a record here    *)
(* and each operation an operator on it; Kernel puts them into steps.      *)
(*                                                                         *)
(* Times are relative to the clock vt: an event holds the time left until  *)
(* it is due, and moving the clock by d takes d off all of them.           *)
(***************************************************************************)
EXTENDS Integers, FiniteSets, FiniteSetsExt

CONSTANTS
  Jobs,       \* the jobs a worker may be sent
  Ring,       \* RING, the size of a transport's ring
  Startup,    \* startupMs
  Service     \* what a job may take: units, slow and hang together

ASSUME TransportAssumption ==
  /\ Ring \in Nat \ {0}
  /\ Startup \in Nat
  /\ Service \subseteq Nat

None == -1

Cells == 0 .. Ring-1
Empty == [job |-> None, due |-> 0, crash |-> FALSE]

(* A transport: readyIn is None once READY was said, busy the time until   *)
(* busyUntil (0 when that has passed).                                     *)
Spawned ==
  [dead |-> FALSE, readyIn |-> Startup, busy |-> 0, head |-> 0, count |-> 0,
   cell |-> [c \in Cells |-> Empty]]

(* terminate() and a crash leave nothing that is looked at again. *)
Gone == [Spawned EXCEPT !.dead = TRUE, !.readyIn = None]

Ready(t) == ~t.dead /\ t.readyIn = None

(* The ring's cells in use, in order of arrival. *)
At(t, n) == (t.head + n) % Ring
InUse(t) == {At(t, n) : n \in 0 .. t.count - 1}

(* send(buf) at a service time, or to a worker that crashes when the job   *)
(* starts.                                                                 *)
Bug_Sent(t, job, service, crash) ==
  LET done == t.busy + IF crash THEN 0 ELSE service
  IN  [t EXCEPT !.cell[t.count % Ring] = [job |-> job, due |-> done, crash |-> crash],
                !.busy = done, !.count = @ + 1]
Sent(t, job, service, crash) ==
  LET done == t.busy + IF crash THEN 0 ELSE service
  IN  [t EXCEPT !.cell[At(t, t.count)] = [job |-> job, due |-> done, crash |-> crash],
                !.busy = done, !.count = @ + 1]

(* What nextEvent looks at: READY, and the job at the head. *)
Events(t) ==
  IF t.dead THEN {}
  ELSE ({t.readyIn} \ {None}) \cup (IF t.count > 0 THEN {t.cell[t.head].due} ELSE {})

(* The clock moves on by d. *)
Less(a, d) == IF a > d THEN a - d ELSE 0
Moved(t, d) ==
  [t EXCEPT !.readyIn = IF @ = None THEN None ELSE @ - d,
            !.busy = Less(@, d),
            !.cell = [c \in Cells |->
                        IF c \in InUse(t) THEN [t.cell[c] EXCEPT !.due = @ - d] ELSE Empty]]

(* What deliverAt does to a transport with an event that is due: READY     *)
(* comes first, then the head of the ring.                                 *)
Due(t) == 0 \in Events(t)
IsReadying(t) == t.readyIn = 0
Oldest(t) == t.cell[t.head]
Popped(t) ==
  [t EXCEPT !.cell[t.head] = Empty, !.head = (@ + 1) % Ring, !.count = @ - 1]

Bug_Delivered(t) ==
  IF IsReadying(t) THEN [t EXCEPT !.readyIn = None] ELSE Popped(t)
Delivered(t) ==
  IF IsReadying(t) THEN [t EXCEPT !.readyIn = None]
  ELSE IF Oldest(t).crash THEN Gone
  ELSE Popped(t)
===============================================================================
