------------------------------ MODULE EngineProofs -----------------------------
(***************************************************************************)
(* The engine, for any number of workers, slots and runs, with one try or  *)
(* two, in either engine and across switches between them.                 *)
(*                                                                         *)
(* A request is shed if and only if a full queue is all it ever met.  What *)
(* a request remembers tells it apart: in engine A Honest holds of it      *)
(* between posts, cap is still up, and ran down, exactly if nothing but    *)
(* full queues is behind it, and a request at a worker has run; in engine  *)
(* B a run's ran is up exactly if something else than a full queue is      *)
(* behind it, and its state is the last thing it met.                      *)
(*                                                                         *)
(* Every arrival is accounted for once, and the counts are exact.  In      *)
(* engine A the request in hand is followed through a step: its slot is    *)
(* taken (TakeSlot, LiftSlot), and then it is put at a worker or its slot  *)
(* is put back (PutAt, PutBack).  In engine B a run holds an endpoint at   *)
(* most once, so that what it gives back at its end is what it took.       *)
(***************************************************************************)
EXTENDS Engine, DataProofs

OnlyFull(q) == q.met \subseteq {"full"}

------------------------------------------------------------------------------
(* The invariant *)

Remembers(q) ==
  /\ {"tries", "first", "ran", "cap", "at", "met"} \subseteq DOMAIN q
  /\ q.ran \in BOOLEAN /\ q.cap \in BOOLEAN

Honest(q) == (~q.ran /\ q.cap) = OnlyFull(q)

RequestOK(q) == Remembers(q) /\ (q.at # NONE => q.ran)

RunOK(q) ==
  /\ {"st", "held", "ran", "met"} \subseteq DOMAIN q
  /\ q.ran \in BOOLEAN
  /\ q.st \in {"idle", "out", "full", "notReady", "none"}
  /\ q.st \in {"out", "full"} => q.ran = ~OnlyFull(q)
  /\ q.st \in {"full", "notReady", "none"} => q.st \in q.met

ReqsOK == req = [r \in Slots |-> req[r]] /\ \A r \in Slots : RequestOK(req[r])
RunsOK == run = [b \in RunsB |-> run[b]] /\ \A b \in RunsB : RunOK(run[b])

IInv == ReqsOK /\ RunsOK /\ ShedIffOnlyFull

LEMMA FreshOK == RequestOK(Fresh) /\ Honest(Fresh) /\ Fresh.at = NONE /\ Fresh.tries = 0
  BY DEF Fresh, RequestOK, Remembers, Honest, OnlyFull

LEMMA IdleOK == RunOK(Idle) /\ Idle.ran = ~OnlyFull(Idle)
  BY DEF Idle, RunOK, OnlyFull

LEMMA InitOK == Init => IInv
  BY FreshOK, IdleOK DEF Init, IInv, ShedIffOnlyFull, ReqsOK, RunsOK

------------------------------------------------------------------------------
(* Engine A *)

(* A post is accepted, or leaves the request honest about the refusal.     *)
LEMMA TryOK ==
  ASSUME NEW r, NEW i, NEW q, Remembers(q), q.at = NONE, Honest(q)
  PROVE  /\ Remembers(Try(r, q, i))
         /\ Accepts(i, r) => Try(r, q, i).at = i /\ Try(r, q, i).ran
         /\ ~Accepts(i, r) => /\ Try(r, q, i).at = NONE /\ Honest(Try(r, q, i))
                              /\ Try(r, q, i).met # {}
<1> DEFINE p == Try(r, q, i)
<1>1. Remembers(p)
  BY DEF Remembers, Try
<1>2. CASE Accepts(i, r)
  BY <1>1, <1>2 DEF Try, Remembers
<1>3. CASE ~Accepts(i, r)
  <2>1. /\ p.at = NONE /\ p.ran = q.ran
        /\ p.cap = (q.cap /\ i \in ready) /\ p.met = q.met \cup {Refusal(i)}
    BY <1>3 DEF Try, Remembers
  <2>2. Refusal(i) = IF i \in ready THEN "full" ELSE "notReady"
    BY DEF Refusal
  <2> QED
    BY <1>1, <1>3, <2>1, <2>2 DEF Honest, OnlyFull, Remembers
<1> QED
  BY <1>1, <1>2, <1>3

LEMMA PostOK ==
  ASSUME NEW r, NEW i, NEW q, Remembers(q), q.at = NONE, Honest(q), i # NONE
  PROVE  /\ RequestOK(Post(r, q, i))
         /\ Post(r, q, i).at = NONE => Honest(Post(r, q, i)) /\ Post(r, q, i).met # {}
<1> DEFINE p == Try(r, q, i)
           o == Other(i, r)
<1>1. /\ Remembers(p) /\ (p.at # NONE => p.ran)
      /\ p.at = NONE => Honest(p) /\ p.met # {}
  BY TryOK
<1>2. CASE p.at = NONE /\ p.tries < Tries /\ o # NONE
  <2> HIDE DEF p, o
  <2>1. /\ Remembers(Try(r, p, o)) /\ (Try(r, p, o).at # NONE => Try(r, p, o).ran)
        /\ Try(r, p, o).at = NONE => Honest(Try(r, p, o)) /\ Try(r, p, o).met # {}
    BY <1>1, <1>2, TryOK
  <2>2. Post(r, q, i) = Try(r, p, o)
    BY <1>2 DEF Post, p, o
  <2> QED
    BY <2>1, <2>2 DEF RequestOK
<1>3. CASE ~(p.at = NONE /\ p.tries < Tries /\ o # NONE)
  <2>1. Post(r, q, i) = p
    BY <1>3 DEF Post
  <2> HIDE DEF p
  <2> QED
    BY <1>1, <2>1 DEF RequestOK
<1> QED
  BY <1>2, <1>3

(* A request is at a worker, or has nowhere to go and is honest about it.  *)
LEMMA PlaceOK ==
  ASSUME NEW r, NEW i, NEW q, Remembers(q), q.at = NONE, Honest(q),
         q.tries > 0 => q.ran /\ q.met # {}
  PROVE  /\ RequestOK(Place(r, q, i))
         /\ Place(r, q, i).at = NONE => Honest(Place(r, q, i)) /\ Place(r, q, i).met # {}
<1>1. CASE i = NONE
  <2> DEFINE p == [q EXCEPT !.cap = (@ /\ q.tries > 0), !.met = @ \cup {"none"}]
  <2>1. Place(r, q, i) = p
    BY <1>1 DEF Place
  <2>2. /\ p.at = NONE /\ p.ran = q.ran /\ p.met = q.met \cup {"none"}
        /\ p.cap = (q.cap /\ q.tries > 0) /\ Remembers(p)
    BY DEF Remembers
  <2> HIDE DEF p
  <2>3. p.ran \/ ~p.cap
    BY <2>2 DEF Remembers
  <2>4. ~OnlyFull(p) /\ p.met # {}
    BY <2>2 DEF OnlyFull
  <2>5. Honest(p)
    BY <2>3, <2>4 DEF Honest, OnlyFull
  <2>6. RequestOK(p)
    BY <2>2 DEF RequestOK
  <2> QED
    BY <2>1, <2>4, <2>5, <2>6
<1>2. CASE i # NONE /\ q.tries > 0 /\ i = q.first /\ Other(i, r) = NONE
  <2>1. Place(r, q, i) = q
    BY <1>2 DEF Place
  <2> QED
    BY <1>2, <2>1 DEF RequestOK
<1>3. CASE i # NONE /\ q.tries > 0 /\ i = q.first /\ Other(i, r) # NONE
  <2>1. Place(r, q, i) = Post(r, q, Other(i, r))
    BY <1>3 DEF Place
  <2> QED
    BY <1>3, <2>1, PostOK
<1>4. CASE i # NONE /\ ~(q.tries > 0 /\ i = q.first)
  <2>1. Place(r, q, i) = Post(r, q, i)
    BY <1>4 DEF Place
  <2> QED
    BY <1>4, <2>1, PostOK
<1> QED
  BY <1>1, <1>2, <1>3, <1>4

LEMMA FinishOK ==
  ASSUME ReqsOK, NEW r, NEW q, NEW ok \in BOOLEAN, NEW arrived, NEW stack,
         Finish(r, q, ok, arrived, stack),
         ~ok => Honest(q) /\ q.met # {}
  PROVE  ReqsOK' /\ ShedIffOnlyFull'
<1>1. req' = [req EXCEPT ![r] = Fresh]
  BY DEF Finish
<1>2. ReqsOK'
  BY <1>1, FreshOK DEF ReqsOK
<1>3. CASE ok
  <2>1. last'.outcome = "ok"
    BY <1>3 DEF Finish
  <2> QED
    BY <1>2, <2>1 DEF ShedIffOnlyFull
<1>4. CASE ~ok
  <2>1. /\ last'.outcome = IF ~q.ran /\ q.cap THEN "shed" ELSE "failed"
        /\ last'.met = q.met
    BY <1>4 DEF Finish
  <2>2. (~q.ran /\ q.cap) = (q.met = {"full"})
    BY <1>4 DEF Honest, OnlyFull
  <2>3. ShedIffOnlyFull'
    BY <2>1, <2>2 DEF ShedIffOnlyFull
  <2> QED
    BY <1>2, <2>3
<1> QED
  BY <1>3, <1>4

LEMMA PlacedOK ==
  ASSUME ReqsOK, ShedIffOnlyFull, NEW r, NEW q, NEW arrived, NEW stack,
         NEW inf, NEW delta,
         Placed(r, q, arrived, stack, inf, delta),
         RequestOK(q), q.at = NONE => Honest(q) /\ q.met # {}
  PROVE  ReqsOK' /\ ShedIffOnlyFull'
<1>1. CASE q.at # NONE
  <2>1. req' = [req EXCEPT ![r] = q] /\ last' = last
    BY <1>1 DEF Placed
  <2> QED
    BY <2>1 DEF ReqsOK, ShedIffOnlyFull
<1>2. CASE q.at = NONE
  BY <1>2, FinishOK DEF Placed
<1> QED
  BY <1>1, <1>2

LEMMA AcceptAStep ==
  ASSUME IInv, AcceptA
  PROVE  IInv'
<1>1. PICK r, stack, i : Placed(r, Place(r, Fresh, i), 1, stack, inflight, 0)
  BY DEF AcceptA
<1>2. /\ RequestOK(Place(r, Fresh, i))
      /\ Place(r, Fresh, i).at = NONE =>
           Honest(Place(r, Fresh, i)) /\ Place(r, Fresh, i).met # {}
  BY FreshOK, PlaceOK DEF RequestOK
<1>3. ReqsOK' /\ ShedIffOnlyFull'
  BY <1>1, <1>2, PlacedOK DEF IInv
<1>4. UNCHANGED run
  BY DEF AcceptA
<1> QED
  BY <1>3, <1>4 DEF IInv, RunsOK

(* A request that settles has run, so what it fails with is never shed.    *)
LEMMA SettleAStep ==
  ASSUME IInv, NEW r \in Slots, NEW ok \in BOOLEAN, SettleA(r, ok)
  PROVE  IInv'
<1> DEFINE q == [req[r] EXCEPT !.at = NONE, !.met = IF ok THEN @ ELSE @ \cup {"failed"}]
           inf == [inflight EXCEPT ![req[r].at] = @ - 1]
<1>1. RequestOK(req[r]) /\ req[r].at # NONE
  BY DEF IInv, ReqsOK, SettleA
<1>2. /\ Remembers(q) /\ q.at = NONE /\ q.ran
      /\ ~ok => "failed" \in q.met
  BY <1>1 DEF RequestOK, Remembers
<1>3. \/ ~ok /\ \E j \in Picks : Placed(r, Place(r, q, j), 0, free, inf, -1)
      \/ Finish(r, q, ok, 0, free)
  BY DEF SettleA
<1> HIDE DEF q, inf
<1>4. ~ok => Honest(q) /\ q.met # {}
  BY <1>2 DEF Honest, OnlyFull
<1>5. ReqsOK /\ ShedIffOnlyFull
  BY DEF IInv
<1>6. ReqsOK' /\ ShedIffOnlyFull'
  <2>1. ASSUME ~ok, NEW j, Placed(r, Place(r, q, j), 0, free, inf, -1)
        PROVE  ReqsOK' /\ ShedIffOnlyFull'
    <3>1. /\ RequestOK(Place(r, q, j))
          /\ Place(r, q, j).at = NONE => Honest(Place(r, q, j)) /\ Place(r, q, j).met # {}
      BY <1>2, <1>4, <2>1, PlaceOK
    <3> QED
      BY <1>5, <2>1, <3>1, PlacedOK
  <2>2. CASE Finish(r, q, ok, 0, free)
    BY <1>4, <1>5, <2>2, FinishOK
  <2> QED
    BY <1>3, <2>1, <2>2
<1>7. UNCHANGED run
  BY DEF SettleA
<1> QED
  BY <1>6, <1>7 DEF IInv, RunsOK

------------------------------------------------------------------------------
(* Engine B *)

(* A run tries on, remembering truly what it has met. *)
LEMMA AttemptOK ==
  ASSUME RunsOK, NEW b, NEW i, NEW q, Attempt(b, q, i),
         {"st", "held", "ran", "met"} \subseteq DOMAIN q,
         q.ran \in BOOLEAN, q.ran = ~OnlyFull(q)
  PROVE  RunsOK'
<1>1. \E p : run' = [run EXCEPT ![b] = p] /\ RunOK(p)
  <2>1. CASE i = NONE
    <3> DEFINE p == [q EXCEPT !.st = "none", !.met = @ \cup {"none"}]
    <3>1. RunOK(p)
      BY DEF RunOK
    <3> QED
      BY <2>1, <3>1 DEF Attempt
  <2>2. CASE i # NONE /\ Accepts(i, NONE)
    <3> DEFINE p == [q EXCEPT !.held = Append(@, i), !.st = "out", !.met = @]
    <3>1. RunOK(p)
      BY DEF RunOK, OnlyFull
    <3>2. run' = [run EXCEPT ![b] = p]
      BY <2>2 DEF Attempt
    <3> QED
      BY <3>1, <3>2
  <2>3. CASE i # NONE /\ ~Accepts(i, NONE)
    <3> DEFINE p == [q EXCEPT !.held = Append(@, i), !.st = Refusal(i),
                              !.met = @ \cup {Refusal(i)}]
    <3>1. Refusal(i) \in {"full", "notReady"}
      BY DEF Refusal
    <3>2. RunOK(p)
      BY <3>1 DEF RunOK, OnlyFull
    <3>3. run' = [run EXCEPT ![b] = p]
      BY <2>3 DEF Attempt
    <3> QED
      BY <3>2, <3>3
  <2> QED
    BY <2>1, <2>2, <2>3
<1> QED
  BY <1>1 DEF RunsOK

LEMMA AcceptBStep ==
  ASSUME IInv, AcceptB
  PROVE  IInv'
<1>1. PICK b, i : Attempt(b, Idle, i)
  BY DEF AcceptB
<1>2. RunsOK'
  BY <1>1, IdleOK, AttemptOK DEF IInv, RunOK
<1>3. UNCHANGED <<req, last>>
  BY DEF AcceptB
<1> QED
  BY <1>2, <1>3 DEF IInv, ReqsOK, ShedIffOnlyFull

(* A run ends as shed exactly if it is all it met. *)
LEMMA EndBOK ==
  ASSUME RunsOK, NEW b, NEW q, NEW outcome, EndB(b, q, outcome),
         (outcome = "shed") = (outcome # "ok" /\ q.met = {"full"})
  PROVE  RunsOK' /\ ShedIffOnlyFull'
<1>1. run' = [run EXCEPT ![b] = Idle] /\ last' = [outcome |-> outcome, met |-> q.met]
  BY DEF EndB
<1>2. RunsOK'
  BY <1>1, IdleOK DEF RunsOK
<1>3. ShedIffOnlyFull'
  BY <1>1 DEF ShedIffOnlyFull
<1> QED
  BY <1>2, <1>3

LEMMA FailBOK ==
  ASSUME RunsOK, ShedIffOnlyFull, NEW b \in RunsB, NEW code, FailB(b, code),
         run[b].st # "idle", code = IF run[b].st = "out" THEN "failed" ELSE run[b].st
  PROVE  RunsOK' /\ ShedIffOnlyFull'
<1> DEFINE s == run[b]
           q == [s EXCEPT !.ran = (@ \/ code # "full"),
                          !.met = IF code = "failed" THEN @ \cup {code} ELSE @]
           outcome == IF ~q.ran /\ code = "full" THEN "shed" ELSE "failed"
<1>1. RunOK(s)
  BY DEF RunsOK
<1>2. /\ {"st", "held", "ran", "met"} \subseteq DOMAIN q
      /\ q.ran = (s.ran \/ code # "full") /\ q.ran \in BOOLEAN
      /\ q.met = IF code = "failed" THEN s.met \cup {"failed"} ELSE s.met
  BY <1>1 DEF RunOK
<1>3. code \in {"failed", "full", "notReady", "none"} /\ code \in q.met
  BY <1>1, <1>2 DEF RunOK
<1>4. code = "full" => s.ran = ~OnlyFull(s) /\ q.met = s.met
  BY <1>1, <1>2 DEF RunOK
<1>5. \/ UNCHANGED last /\ \E i : Attempt(b, q, i)
      \/ EndB(b, q, outcome)
  BY DEF FailB
<1> HIDE DEF q
<1>6. q.ran = ~OnlyFull(q)
  <2>1. CASE code = "full"
    BY <1>2, <1>4, <2>1 DEF OnlyFull
  <2>2. CASE code # "full"
    BY <1>2, <1>3, <2>2 DEF OnlyFull
  <2> QED
    BY <2>1, <2>2
<1>7. (outcome = "shed") = (outcome # "ok" /\ q.met = {"full"})
  BY <1>2, <1>3, <1>6 DEF OnlyFull
<1>8. CASE UNCHANGED last /\ \E i : Attempt(b, q, i)
  <2>1. RunsOK'
    BY <1>2, <1>6, <1>8, AttemptOK
  <2> QED
    BY <1>8, <2>1 DEF ShedIffOnlyFull
<1>9. CASE EndB(b, q, outcome)
  BY <1>7, <1>9, EndBOK
<1> QED
  BY <1>5, <1>8, <1>9

LEMMA SettleBStep ==
  ASSUME IInv, NEW b \in RunsB, NEW ok \in BOOLEAN, SettleB(b, ok)
  PROVE  IInv'
<1>1. RunsOK /\ ShedIffOnlyFull
  BY DEF IInv
<1>2. RunsOK' /\ ShedIffOnlyFull'
  <2>1. CASE EndB(b, run[b], "ok")
    BY <1>1, <2>1, EndBOK
  <2>2. CASE Out(b) /\ FailB(b, "failed")
    BY <1>1, <2>2, FailBOK DEF Out
  <2>3. CASE ~Out(b) /\ run[b].st # "idle" /\ FailB(b, run[b].st)
    BY <1>1, <2>3, FailBOK DEF Out
  <2> QED
    BY <2>1, <2>2, <2>3 DEF SettleB
<1>3. UNCHANGED req
  BY DEF SettleB
<1> QED
  BY <1>2, <1>3 DEF IInv, ReqsOK

------------------------------------------------------------------------------
LEMMA NextOK == IInv /\ [Next]_vars => IInv'
<1> SUFFICES ASSUME IInv, [Next]_vars PROVE IInv'
  OBVIOUS
<1>1. CASE UNCHANGED <<req, run, last>>
  BY <1>1 DEF IInv, ShedIffOnlyFull, ReqsOK, RunsOK
<1>2. CASE Arrive
  BY <1>1, <1>2, AcceptAStep, AcceptBStep DEF Arrive, TurnAway
<1>3. CASE \E i \in Nodes : Eligible(i) \/ Die(i) \/ Respawn(i)
  BY <1>1, <1>3 DEF Eligible, Die, Respawn, untouched
<1>4. CASE (\E keeps \in BOOLEAN : SetStrategy(keeps)) \/ (\E m \in {"A", "B"} : SetMode(m))
  BY <1>1, <1>4 DEF SetStrategy, SetMode, untouched
<1>5. CASE Drain \/ Halt \/ UNCHANGED vars
  BY <1>1, <1>5 DEF Drain, Halt, untouched, vars
<1> QED
  BY <1>2, <1>3, <1>4, <1>5, SettleAStep, SettleBStep DEF Next

(* A request is counted as shed if and only if full queues are all it met: *)
(* never one that ran, found no eligible worker or was refused by one that *)
(* was not READY (engine.js header, S_SHED; _finishA, _requestB).           *)
THEOREM ShedIffOnlyFullAlways == Spec => []ShedIffOnlyFull
<1>1. Init => IInv
  BY InitOK
<1>2. IInv /\ [Next]_vars => IInv'
  BY NextOK
<1>3. IInv => ShedIffOnlyFull
  BY DEF IInv, ReqsOK, RunsOK
<1> QED
  BY <1>1, <1>2, <1>3, PTL DEF Spec

------------------------------------------------------------------------------
(* The accounting *)

(* What each engine has at endpoint i, and the runs that are pending. *)
AtWorker(i) == {r \in Slots : req[r].at = i}
HeldBy(i) == {b \in RunsB : i \in Range(run[b].held)}
Busy == {b \in RunsB : run[b].st # "idle"}

(* A request at a worker has been tried, and failed over elsewhere. *)
Steady(q) ==
  /\ q \in Request
  /\ q.at # NONE => q.tries > 0 /\ q.first # NONE /\ (q.tries > 1 => q.at # q.first)

OutsideOK ==
  /\ ready \in SUBSET Nodes /\ up \in SUBSET Nodes
  /\ disposed \in BOOLEAN /\ hasNote \in BOOLEAN /\ draining \in BOOLEAN
  /\ mode \in {"A", "B"}
SlotsOK == req \in [Slots -> Request] /\ \A r \in Slots : Steady(req[r])
FreeOK ==
  /\ free \in Seq(Slots)
  /\ \A j, k \in DOMAIN free : free[j] = free[k] => j = k
  /\ Range(free) = AtWorker(NONE)
HoldsOnce(q) ==
  /\ q \in Run
  /\ \A j, k \in DOMAIN q.held : q.held[j] = q.held[k] => j = k
  /\ q.st = "idle" => q.held = <<>>
HeldOK == run \in [RunsB -> Run] /\ \A b \in RunsB : HoldsOnce(run[b])
InflightOK ==
  /\ inflight \in [Nodes -> Nat]
  /\ \A i \in Nodes : inflight[i] = Cardinality(AtWorker(i)) + Cardinality(HeldBy(i))
NotedOK == noted \in Nat /\ (hasNote => noted = SumFunction(inflight))
Settled == c.ok + c.failed + c.shed + c.drained
Counts == {"arrived", "ok", "failed", "shed", "drained"}
CountsOK ==
  /\ c \in [Counts -> Nat]
  /\ c.arrived = Settled + (R - Len(free)) + Cardinality(Busy)

(* The inductive invariant.  The counts of a release never fall below zero *)
(* because they are exact, and they are exact because a run holds an       *)
(* endpoint once and a slot is free exactly if its request is nowhere.     *)
AInv ==
  OutsideOK /\ SlotsOK /\ FreeOK /\ HeldOK /\ InflightOK /\ NotedOK /\ CountsOK

(* It is what the properties say, and more. *)
LEMMA AInvImplies == AInv => Accounted /\ InflightExact
<1> SUFFICES ASSUME AInv PROVE Accounted /\ InflightExact
  OBVIOUS
<1>1. TypeOK
  BY DEF AInv, TypeOK, OutsideOK, SlotsOK, FreeOK, HeldOK, InflightOK, NotedOK, CountsOK, Counts
<1>2. Cardinality(Range(free)) = Len(free) /\ Range(free) = {r \in Slots : req[r].at = NONE}
  BY CountDistinct DEF AInv, FreeOK, AtWorker
<1>3. Pending = (R - Len(free)) + Cardinality(Busy)
  BY DEF Pending, Busy
<1>4. /\ c.arrived \in Nat /\ Settled \in Nat /\ Len(free) \in Nat /\ R \in Nat
      /\ Cardinality(Busy) \in Nat
  <2>1. IsFiniteSet(Busy)
    BY FS_Subset, EngineAssumption DEF Busy
  <2> QED
    BY <2>1, FS_CardinalityType, EngineAssumption
       DEF AInv, CountsOK, Counts, Settled, FreeOK
<1>5. c.arrived = c.ok + c.failed + c.shed + c.drained + Pending
  <2>1. c.arrived = Settled + (R - Len(free)) + Cardinality(Busy)
    BY DEF AInv, CountsOK
  <2>2. c.arrived = Settled + Pending
    BY <1>3, <1>4, <2>1
  <2> QED
    BY <2>2 DEF Settled
<1>6. Accounted
  BY <1>1, <1>2, <1>5 DEF Accounted
<1>7. FailoverElsewhere
  BY DEF AInv, SlotsOK, Steady, HeldOK, HoldsOnce, FailoverElsewhere
<1>8. InflightExact
  BY <1>7 DEF AInv, InflightOK, NotedOK, InflightExact, AtWorker, HeldBy
<1> QED
  BY <1>6, <1>8

LEMMA EngineSets ==
  /\ IsFiniteSet(Nodes) /\ IsFiniteSet(Slots) /\ IsFiniteSet(RunsB)
  /\ N \in Nat \ {0} /\ R \in Nat \ {0} /\ NONE \notin Nodes
  /\ Cardinality(Slots) = R
<1>1. N \in Nat \ {0} /\ R \in Nat \ {0} /\ IsFiniteSet(RunsB)
  BY EngineAssumption
<1>2. IsFiniteSet(1 .. R) /\ Cardinality(1 .. R) = IF 1 > R THEN 0 ELSE R - 1 + 1
  BY <1>1, FS_Interval
<1> QED
  BY <1>1, <1>2, BelowFinite DEF Nodes, Slots, NONE

(* What the stats count. *)
LEMMA CountStep ==
  ASSUME c \in [Counts -> Nat], NEW a \in Nat,
         NEW o \in {"ok", "failed", "shed", "drained", "none"}, Count(a, o)
  PROVE  /\ c' \in [Counts -> Nat]
         /\ c'.arrived = c.arrived + a
         /\ Settled \in Nat
         /\ Settled' = Settled + (IF o = "none" THEN 0 ELSE 1)
<1>1. \A k \in Counts :
        c'[k] = c[k] + (IF k = "arrived" THEN a ELSE 0) + (IF k = o THEN 1 ELSE 0)
  BY DEF Count
<1>2. c' \in [Counts -> Nat]
  BY <1>1 DEF Count
<1>3. c'.arrived = c.arrived + a
  BY <1>1 DEF Counts
<1>4. /\ c'.ok = c.ok + (IF o = "ok" THEN 1 ELSE 0)
      /\ c'.failed = c.failed + (IF o = "failed" THEN 1 ELSE 0)
      /\ c'.shed = c.shed + (IF o = "shed" THEN 1 ELSE 0)
      /\ c'.drained = c.drained + (IF o = "drained" THEN 1 ELSE 0)
  BY <1>1 DEF Counts
<1>5. c.ok \in Nat /\ c.failed \in Nat /\ c.shed \in Nat /\ c.drained \in Nat
  BY DEF Counts
<1> QED
  BY <1>2, <1>3, <1>4, <1>5 DEF Settled

(* What note() keeps in step. *)
LEMMA NoteStep ==
  ASSUME noted \in Nat, NEW d \in Int, Note(d), UNCHANGED hasNote,
         NEW s \in Nat, hasNote => noted + d = s
  PROVE  noted' \in Nat /\ (hasNote' => noted' = s)
  BY DEF Note

------------------------------------------------------------------------------
(* Engine A's accounting *)

(* _other goes elsewhere. *)
LEMMA OtherElsewhere ==
  ASSUME NEW a \in Nodes, NEW r
  PROVE  Other(a, r) \in Nodes \cup {NONE} /\ Other(a, r) # a
<1> DEFINE roomy == {k \in 1 .. N-1 : LET j == (a + k) % N IN j \in up /\ Load(j, r) < SlotCap}
           least(k) == \A l \in roomy : k <= l
<1>1. CASE roomy = {}
  BY <1>1, EngineSets DEF Other
<1>2. CASE roomy # {}
  <2>1. roomy \in SUBSET Nat
    OBVIOUS
  <2>2. \E k \in roomy : least(k)
    <3> HIDE DEF roomy
    <3> QED
      BY <1>2, <2>1, LeastExists
  <2>3. (CHOOSE k \in roomy : least(k)) \in 1 .. N-1
    BY <2>2
  <2>4. PICK k \in 1 .. N-1 : Other(a, r) = (a + k) % N
    BY <1>2, <2>3 DEF Other
  <2> QED
    BY <2>4, EngineSets, RingStep DEF Nodes
<1> QED
  BY <1>1, <1>2

(* A post of a request that was tried elsewhere, if at all. *)
LEMMA TrySteady ==
  ASSUME NEW r, NEW q \in Request, NEW i \in Nodes, q.at = NONE, q.tries < Tries,
         q.tries = 0 <=> q.first = NONE, q.tries > 0 => i # q.first
  PROVE  /\ Steady(Try(r, q, i))
         /\ Try(r, q, i).tries = q.tries + 1
         /\ Try(r, q, i).first = IF q.first = NONE THEN i ELSE q.first
<1> DEFINE p == [q EXCEPT !.tries = @ + 1, !.first = IF @ = NONE THEN i ELSE @]
<1>1. Tries \in Nat /\ NONE \notin Nodes
  BY EngineAssumption, EngineSets
<1>2. q.tries \in 0 .. Tries /\ q.tries + 1 \in 0 .. Tries /\ q.tries \in Nat
  BY <1>1 DEF Request
<1>3. /\ p \in Request /\ p.tries = q.tries + 1 /\ p.at = NONE
      /\ p.first = IF q.first = NONE THEN i ELSE q.first
  BY <1>2 DEF Request
<1> HIDE DEF p
<1>4. CASE Accepts(i, r)
  <2>1. Try(r, q, i) = [p EXCEPT !.at = i, !.ran = TRUE]
    BY <1>4 DEF Try, p
  <2>2. /\ Try(r, q, i) \in Request /\ Try(r, q, i).tries = p.tries
        /\ Try(r, q, i).first = p.first /\ Try(r, q, i).at = i
    BY <1>3, <2>1 DEF Request
  <2>3. p.first # NONE
    BY <1>1, <1>3
  <2>4. p.tries > 0
    BY <1>2, <1>3
  <2>5. p.tries > 1 => i # p.first
    <3>1. p.tries > 1 => q.tries > 0
      BY <1>2, <1>3
    <3>2. q.tries > 0 => q.first # NONE
      BY <1>2
    <3> QED
      BY <1>3, <3>1, <3>2
  <2> QED
    BY <1>3, <2>2, <2>3, <2>4, <2>5 DEF Steady
<1>5. CASE ~Accepts(i, r)
  <2>1. Try(r, q, i) = [p EXCEPT !.cap = (@ /\ i \in ready), !.met = @ \cup {Refusal(i)}]
    BY <1>5 DEF Try, p
  <2>2. Refusal(i) \in Obstacles
    BY DEF Refusal, Obstacles
  <2>3. (p.cap /\ i \in ready) \in BOOLEAN /\ p.met \cup {Refusal(i)} \in SUBSET Obstacles
    BY <1>3, <2>2 DEF Request
  <2>4. /\ Try(r, q, i) \in Request /\ Try(r, q, i).tries = p.tries
        /\ Try(r, q, i).first = p.first /\ Try(r, q, i).at = NONE
    BY <1>3, <2>1, <2>3 DEF Request
  <2> QED
    BY <1>3, <2>4 DEF Steady
<1> QED
  BY <1>4, <1>5

LEMMA PostSteady ==
  ASSUME NEW r, NEW q \in Request, NEW i \in Nodes, q.at = NONE, q.tries < Tries,
         q.tries = 0 <=> q.first = NONE, q.tries > 0 => i # q.first
  PROVE  Steady(Post(r, q, i))
<1> DEFINE p == Try(r, q, i)
           o == Other(i, r)
<1>1. /\ Steady(p) /\ p.tries = q.tries + 1
      /\ p.first = IF q.first = NONE THEN i ELSE q.first
  BY TrySteady
<1>2. o \in Nodes \cup {NONE} /\ o # i
  BY OtherElsewhere
<1>3. q.tries \in Nat /\ Tries \in {1, 2} /\ NONE \notin Nodes
  BY EngineAssumption, EngineSets DEF Request
<1>4. Post(r, q, i) = IF p.at = NONE /\ p.tries < Tries /\ o # NONE THEN Try(r, p, o) ELSE p
  BY DEF Post
<1> HIDE DEF p, o
<1>5. CASE p.at = NONE /\ p.tries < Tries /\ o # NONE
  <2>1. q.tries = 0 /\ p.first = i
    BY <1>1, <1>3, <1>5
  <2>2. p \in Request /\ o \in Nodes /\ o # p.first
    BY <1>1, <1>2, <1>5, <2>1 DEF Steady
  <2>3. p.tries = 1 /\ p.first # NONE
    BY <1>1, <1>3, <2>1
  <2>4. Steady(Try(r, p, o))
    BY <1>5, <2>2, <2>3, TrySteady
  <2> QED
    BY <1>4, <1>5, <2>4
<1>6. CASE ~(p.at = NONE /\ p.tries < Tries /\ o # NONE)
  BY <1>1, <1>4, <1>6
<1> QED
  BY <1>5, <1>6

LEMMA PlaceSteady ==
  ASSUME NEW r, NEW q \in Request, NEW i \in Nodes \cup {NONE}, q.at = NONE, q.tries < Tries,
         q.tries = 0 <=> q.first = NONE
  PROVE  Steady(Place(r, q, i))
<1>1. q.tries \in Nat
  BY DEF Request
<1>2. CASE i = NONE
  <2> DEFINE p == [q EXCEPT !.cap = (@ /\ q.tries > 0), !.met = @ \cup {"none"}]
  <2>1. (q.cap /\ q.tries > 0) \in BOOLEAN /\ q.met \cup {"none"} \in SUBSET Obstacles
    BY DEF Request, Obstacles
  <2>2. p \in Request /\ p.at = NONE
    BY <2>1 DEF Request
  <2>3. Place(r, q, i) = p
    BY <1>2 DEF Place
  <2> HIDE DEF p
  <2> QED
    BY <2>2, <2>3 DEF Steady
<1>3. CASE i # NONE /\ q.tries > 0 /\ i = q.first
  <2>1. Other(i, r) \in Nodes \cup {NONE} /\ Other(i, r) # i
    BY <1>3, OtherElsewhere
  <2>2. CASE Other(i, r) = NONE
    BY <1>3, <2>2 DEF Place, Steady
  <2>3. CASE Other(i, r) # NONE
    <3>1. Steady(Post(r, q, Other(i, r)))
      BY <1>3, <2>1, <2>3, PostSteady
    <3> QED
      BY <1>3, <2>3, <3>1 DEF Place
  <2> QED
    BY <2>2, <2>3
<1>4. CASE i # NONE /\ ~(q.tries > 0 /\ i = q.first)
  <2>1. Steady(Post(r, q, i))
    BY <1>4, PostSteady
  <2> QED
    BY <1>4, <2>1 DEF Place
<1> QED
  BY <1>2, <1>3, <1>4

(* The request of slot r is in hand: stack has the free slots, inf the     *)
(* counts without it, delta the note that is due, and the arrivals fall    *)
(* short by arrived.                                                       *)
ElseAt(r, i) == {s \in Slots \ {r} : req[s].at = i}
InHand(r, stack, inf, delta, arrived) ==
  /\ stack \in Seq(Slots) /\ \A j, k \in DOMAIN stack : stack[j] = stack[k] => j = k
  /\ Range(stack) = ElseAt(r, NONE)
  /\ inf \in [Nodes -> Nat]
  /\ \A i \in Nodes : inf[i] = Cardinality(ElseAt(r, i)) + Cardinality(HeldBy(i))
  /\ delta \in Int /\ (hasNote => noted + delta = SumFunction(inf))
  /\ arrived \in Nat
  /\ c.arrived + arrived = Settled + (R - Len(stack)) + Cardinality(Busy)

LEMMA Sizes ==
  /\ \A i : IsFiniteSet(AtWorker(i)) /\ Cardinality(AtWorker(i)) \in Nat
  /\ \A i : IsFiniteSet(HeldBy(i)) /\ Cardinality(HeldBy(i)) \in Nat
  /\ IsFiniteSet(Busy) /\ Cardinality(Busy) \in Nat
<1>1. \A i : AtWorker(i) \subseteq Slots /\ HeldBy(i) \subseteq RunsB
  BY DEF AtWorker, HeldBy
<1>2. Busy \subseteq RunsB
  BY DEF Busy
<1> QED
  BY <1>1, <1>2, EngineSets, FS_Subset, FS_CardinalityType

(* A slot's request besides the others. *)
LEMMA SlotSplit ==
  ASSUME NEW r \in Slots, NEW i
  PROVE  /\ AtWorker(i) = IF req[r].at = i THEN ElseAt(r, i) \cup {r} ELSE ElseAt(r, i)
         /\ Cardinality(ElseAt(r, i)) \in Nat
         /\ Cardinality(AtWorker(i))
            = Cardinality(ElseAt(r, i)) + (IF req[r].at = i THEN 1 ELSE 0)
<1>1. AtWorker(i) = IF req[r].at = i THEN ElseAt(r, i) \cup {r} ELSE ElseAt(r, i)
  BY DEF AtWorker, ElseAt
<1>2. r \notin ElseAt(r, i) /\ IsFiniteSet(ElseAt(r, i))
  BY EngineSets, FS_Subset DEF ElseAt
<1>3. Cardinality(ElseAt(r, i)) \in Nat
  BY <1>2, FS_CardinalityType
<1>4. Cardinality(ElseAt(r, i) \cup {r}) = Cardinality(ElseAt(r, i)) + 1
  BY <1>2, FS_AddElement
<1> QED
  BY <1>1, <1>3, <1>4

(* The same, for what slot r has after a step that gives it q. *)
LEMMA SlotSplitNext ==
  ASSUME SlotsOK, NEW r \in Slots, NEW q, req' = [req EXCEPT ![r] = q], NEW i
  PROVE  /\ AtWorker(i)' = IF q.at = i THEN ElseAt(r, i) \cup {r} ELSE ElseAt(r, i)
         /\ Cardinality(AtWorker(i)')
            = Cardinality(ElseAt(r, i)) + (IF q.at = i THEN 1 ELSE 0)
<1>1. req'[r] = q /\ \A s \in Slots \ {r} : req'[s] = req[s]
  BY DEF SlotsOK
<1>2. AtWorker(i)' = IF q.at = i THEN ElseAt(r, i) \cup {r} ELSE ElseAt(r, i)
  BY <1>1 DEF AtWorker, ElseAt
<1>3. r \notin ElseAt(r, i) /\ IsFiniteSet(ElseAt(r, i))
  BY EngineSets, FS_Subset DEF ElseAt
<1>4. Cardinality(ElseAt(r, i)) \in Nat
  BY <1>3, FS_CardinalityType
<1>5. Cardinality(ElseAt(r, i) \cup {r}) = Cardinality(ElseAt(r, i)) + 1
  BY <1>3, FS_AddElement
<1> QED
  BY <1>2, <1>4, <1>5

(* _dispatchA takes the top of the stack of free slots in hand. *)
LEMMA TakeSlot ==
  ASSUME AInv, free # <<>>
  PROVE  /\ LastOf(free) \in Slots
         /\ InHand(LastOf(free), SubSeq(free, 1, Len(free) - 1), inflight, 0, 1)
<1> DEFINE r == LastOf(free)
           stack == SubSeq(free, 1, Len(free) - 1)
<1>1. /\ r \in Slots /\ r \in Range(free)
      /\ stack \in Seq(Slots) /\ Len(stack) = Len(free) - 1
      /\ Range(stack) = Range(free) \ {r}
      /\ \A j, k \in DOMAIN stack : stack[j] = stack[k] => j = k
  BY FrontOnce DEF AInv, FreeOK, LastOf
<1>2. Len(free) \in Nat
  BY DEF AInv, FreeOK
<1> HIDE DEF r, stack
<1>3. req[r].at = NONE
  BY <1>1 DEF AInv, FreeOK, AtWorker
<1>4. Range(stack) = ElseAt(r, NONE)
  BY <1>1 DEF AInv, FreeOK, AtWorker, ElseAt
<1>5. \A i \in Nodes : Cardinality(ElseAt(r, i)) = Cardinality(AtWorker(i))
  <2>1. \A i \in Nodes : Cardinality(ElseAt(r, i)) \in Nat /\ NONE # i
    BY <1>1, SlotSplit, EngineSets
  <2> QED
    BY <1>1, <1>3, <2>1, SlotSplit
<1>6. /\ inflight \in [Nodes -> Nat]
      /\ \A i \in Nodes : inflight[i] = Cardinality(ElseAt(r, i)) + Cardinality(HeldBy(i))
  BY <1>5 DEF AInv, InflightOK
<1>7. c.arrived + 1 = Settled + (R - Len(stack)) + Cardinality(Busy)
  <2>1. c.arrived = Settled + (R - Len(free)) + Cardinality(Busy)
    BY DEF AInv, CountsOK
  <2>2. Settled \in Nat /\ R \in Nat /\ Cardinality(Busy) \in Nat
    BY Sizes, EngineSets DEF AInv, CountsOK, Counts, Settled
  <2> QED
    BY <1>1, <1>2, <2>1, <2>2
<1>8. hasNote => noted + 0 = SumFunction(inflight)
  BY DEF AInv, NotedOK
<1> QED
  BY <1>1, <1>4, <1>6, <1>7, <1>8 DEF InHand, r, stack

(* _settleA takes the request of a slot in hand, and its count back. *)
LEMMA LiftSlot ==
  ASSUME AInv, NEW r \in Slots, req[r].at # NONE
  PROVE  InHand(r, free, [inflight EXCEPT ![req[r].at] = @ - 1], -1, 0)
<1> DEFINE i == req[r].at
           inf == [inflight EXCEPT ![i] = @ - 1]
<1>1. i \in Nodes
  BY DEF AInv, SlotsOK, Request
<1>2. inflight \in [Nodes -> Nat]
  BY DEF AInv, InflightOK
<1>3. \A j \in Nodes : /\ Cardinality(ElseAt(r, j)) \in Nat /\ Cardinality(HeldBy(j)) \in Nat
                       /\ Cardinality(AtWorker(j))
                          = Cardinality(ElseAt(r, j)) + (IF i = j THEN 1 ELSE 0)
                       /\ inflight[j] = Cardinality(AtWorker(j)) + Cardinality(HeldBy(j))
  BY SlotSplit, Sizes DEF AInv, InflightOK
<1>4. \A j \in Nodes : inf[j] = inflight[j] - (IF i = j THEN 1 ELSE 0)
  BY <1>1, <1>2
<1>5. inf = [j \in Nodes |-> inf[j]]
  BY <1>2
<1> HIDE DEF inf, i
<1>6. \A j \in Nodes : inf[j] = Cardinality(ElseAt(r, j)) + Cardinality(HeldBy(j)) /\ inf[j] \in Nat
  BY <1>3, <1>4
<1>7. inf \in [Nodes -> Nat]
  BY <1>5, <1>6
<1>8. SumFunction(inflight) = SumFunction(inf) + 1 /\ SumFunction(inf) \in Nat
  <2>1. {i} \in SUBSET Nodes /\ Cardinality({i}) = 1
    BY <1>1, FS_Singleton
  <2>2. \A j \in Nodes : inflight[j] = inf[j] + (IF j \in {i} THEN 1 ELSE 0)
    BY <1>2, <1>4
  <2> QED
    BY <1>2, <1>7, <2>1, <2>2, SumTaken, EngineSets
<1>9. hasNote => noted + (-1) = SumFunction(inf)
  BY <1>8 DEF AInv, NotedOK
<1>10. Range(free) = ElseAt(r, NONE)
  BY SlotSplit DEF AInv, FreeOK, i
<1>11. c.arrived + 0 = Settled + (R - Len(free)) + Cardinality(Busy)
  BY DEF AInv, CountsOK, Counts
<1> QED
  BY <1>6, <1>7, <1>9, <1>10, <1>11 DEF InHand, AInv, FreeOK, inf, i

(* The request in hand ends: its slot is free again. *)
LEMMA PutBack ==
  ASSUME AInv, NEW r \in Slots, NEW stack, NEW inf, NEW delta, NEW arrived,
         InHand(r, stack, inf, delta, arrived),
         NEW q, NEW ok \in BOOLEAN, Finish(r, q, ok, arrived, stack),
         inflight' = inf, Note(delta), UNCHANGED <<outside, hasNote, run>>
  PROVE  AInv'
<1>1. /\ req' = [req EXCEPT ![r] = Fresh] /\ free' = Append(stack, r)
      /\ \E o \in {"ok", "failed", "shed", "drained", "none"} : o # "none" /\ Count(arrived, o)
  BY DEF Finish
<1>2. Fresh \in Request /\ Fresh.at = NONE
  BY EngineAssumption DEF Fresh, Request, Obstacles
<1>3. SlotsOK'
  BY <1>1, <1>2 DEF AInv, SlotsOK, Steady
<1>4. \A i : AtWorker(i)' = IF i = NONE THEN ElseAt(r, i) \cup {r} ELSE ElseAt(r, i)
  BY <1>1, <1>2, SlotSplitNext DEF AInv
<1>5. r \notin ElseAt(r, NONE) /\ Range(stack) = ElseAt(r, NONE)
  BY DEF ElseAt, InHand
<1>6. FreeOK' /\ Len(free') = Len(stack) + 1 /\ Len(stack) \in Nat
  <2>1. stack \in Seq(Slots) /\ \A j, k \in DOMAIN stack : stack[j] = stack[k] => j = k
    BY DEF InHand
  <2>2. /\ free' \in Seq(Slots) /\ Len(free') = Len(stack) + 1
        /\ Range(free') = Range(stack) \cup {r}
        /\ \A j, k \in DOMAIN free' : free'[j] = free'[k] => j = k
    BY <1>1, <1>5, <2>1, AppendOnce
  <2> QED
    BY <1>4, <1>5, <2>1, <2>2 DEF FreeOK
<1>7. HeldOK' /\ Busy' = Busy /\ \A i : HeldBy(i)' = HeldBy(i)
  BY DEF AInv, HeldOK, Busy, HeldBy
<1>8. InflightOK'
  <2>1. \A i \in Nodes : AtWorker(i)' = ElseAt(r, i)
    BY <1>4, EngineSets
  <2> QED
    BY <1>7, <2>1 DEF InHand, InflightOK
<1>9. NotedOK'
  <2>1. SumFunction(inf) \in Nat
    BY SumAllNat, EngineSets DEF InHand
  <2> QED
    BY <2>1, NoteStep DEF AInv, NotedOK, InHand
<1>10. CountsOK'
  <2>1. PICK o \in {"ok", "failed", "shed", "drained", "none"} : o # "none" /\ Count(arrived, o)
    BY <1>1
  <2>2. /\ c' \in [Counts -> Nat] /\ c'.arrived = c.arrived + arrived
        /\ Settled \in Nat /\ Settled' = Settled + 1
    BY <2>1, CountStep DEF AInv, CountsOK, InHand
  <2>3. c.arrived + arrived = Settled + (R - Len(stack)) + Cardinality(Busy)
    BY DEF InHand
  <2>4. R \in Nat /\ Cardinality(Busy) \in Nat
    BY Sizes, EngineSets
  <2>5. c'.arrived = Settled' + (R - Len(free')) + Cardinality(Busy)
    BY <1>6, <2>2, <2>3, <2>4
  <2> QED
    BY <1>7, <2>2, <2>5 DEF CountsOK
<1>11. OutsideOK'
  BY DEF AInv, OutsideOK, outside
<1> QED
  BY <1>3, <1>6, <1>7, <1>8, <1>9, <1>10, <1>11 DEF AInv

(* The request in hand goes to a worker. *)
LEMMA PutAt ==
  ASSUME AInv, NEW r \in Slots, NEW stack, NEW inf, NEW delta, NEW arrived,
         InHand(r, stack, inf, delta, arrived),
         NEW q, Steady(q), q.at # NONE, req' = [req EXCEPT ![r] = q], free' = stack,
         inflight' = [inf EXCEPT ![q.at] = @ + 1], Note(delta + 1), Count(arrived, "none"),
         UNCHANGED <<hasNote, run>>, OutsideOK'
  PROVE  AInv'
<1>1. q.at \in Nodes /\ q \in Request
  BY DEF Steady, Request
<1>2. SlotsOK'
  BY <1>1 DEF AInv, SlotsOK
<1>3. \A i : /\ AtWorker(i)' = IF q.at = i THEN ElseAt(r, i) \cup {r} ELSE ElseAt(r, i)
             /\ Cardinality(AtWorker(i)') = Cardinality(ElseAt(r, i)) + (IF q.at = i THEN 1 ELSE 0)
  BY SlotSplitNext DEF AInv
<1>4. FreeOK' /\ Len(free') = Len(stack)
  BY <1>3 DEF FreeOK, InHand
<1>5. HeldOK' /\ Busy' = Busy /\ \A i : HeldBy(i)' = HeldBy(i)
  BY DEF AInv, HeldOK, Busy, HeldBy
<1>6. inf \in [Nodes -> Nat]
  BY DEF InHand
<1>7. inflight' \in [Nodes -> Nat]
  BY <1>1, <1>6
<1>8. \A i \in Nodes : inflight'[i] = inf[i] + (IF i \in {q.at} THEN 1 ELSE 0)
  BY <1>1, <1>6
<1>9. InflightOK'
  <2>1. ASSUME NEW i \in Nodes
        PROVE  inflight'[i] = Cardinality(AtWorker(i)') + Cardinality(HeldBy(i)')
    <3>1. /\ Cardinality(ElseAt(r, i)) \in Nat /\ Cardinality(HeldBy(i)) \in Nat
          /\ inf[i] = Cardinality(ElseAt(r, i)) + Cardinality(HeldBy(i))
      BY SlotSplit, Sizes DEF InHand
    <3>2. HeldBy(i)' = HeldBy(i)
      BY <1>5
    <3>3. Cardinality(AtWorker(i)') = Cardinality(ElseAt(r, i)) + (IF q.at = i THEN 1 ELSE 0)
      BY <1>3
    <3>4. inflight'[i] = inf[i] + (IF q.at = i THEN 1 ELSE 0)
      BY <1>8
    <3> QED
      BY <3>1, <3>2, <3>3, <3>4
  <2> QED
    BY <1>7, <2>1 DEF InflightOK
<1>10. NotedOK'
  <2>1. SumFunction(inflight') = SumFunction(inf) + 1 /\ SumFunction(inf) \in Nat
    <3>1. PICK T : T = {q.at}
      OBVIOUS
    <3>2. T \in SUBSET Nodes /\ Cardinality(T) = 1
      BY <1>1, <3>1, FS_Singleton
    <3>3. PICK f : f = inflight'
      OBVIOUS
    <3>4. /\ f \in [Nodes -> Nat] /\ IsFiniteSet(Nodes)
          /\ \A i \in Nodes : f[i] = inf[i] + (IF i \in T THEN 1 ELSE 0)
      BY <1>7, <1>8, <3>1, <3>3, EngineSets
    <3>5. SumFunction(f) = SumFunction(inf) + Cardinality(T) /\ SumFunction(inf) \in Nat
      BY ONLY <1>6, <3>2, <3>4, SumTaken
    <3> QED
      BY <3>2, <3>3, <3>5
  <2>2. /\ delta \in Int /\ delta + 1 \in Int /\ noted \in Nat
        /\ (hasNote => noted + delta = SumFunction(inf))
    BY DEF InHand, AInv, NotedOK
  <2>3. hasNote => noted + (delta + 1) = SumFunction(inflight')
    BY <2>1, <2>2
  <2>4. SumFunction(inflight') \in Nat
    BY <2>1
  <2> QED
    BY <2>2, <2>3, <2>4, NoteStep DEF NotedOK
<1>11. CountsOK'
  <2>1. /\ c' \in [Counts -> Nat] /\ c'.arrived = c.arrived + arrived
        /\ Settled \in Nat /\ Settled' = Settled
    BY CountStep DEF AInv, CountsOK, InHand
  <2>2. c.arrived + arrived = Settled + (R - Len(stack)) + Cardinality(Busy)
    BY DEF InHand
  <2>3. c'.arrived = Settled' + (R - Len(free')) + Cardinality(Busy)
    BY <1>4, <2>1, <2>2
  <2> QED
    BY <1>5, <2>1, <2>3 DEF CountsOK
<1> QED
  BY <1>2, <1>4, <1>5, <1>9, <1>10, <1>11 DEF AInv

LEMMA PlacedStep ==
  ASSUME AInv, NEW r \in Slots, NEW stack, NEW inf, NEW delta, NEW arrived,
         InHand(r, stack, inf, delta, arrived),
         NEW q, Steady(q), Placed(r, q, arrived, stack, inf, delta),
         UNCHANGED <<ready, disposed, mode, draining, hasNote, run>>
  PROVE  AInv'
<1>1. CASE q.at # NONE
  <2>1. up' \in SUBSET Nodes
    BY <1>1 DEF Placed, OnDispatch, AInv, OutsideOK
  <2>2. OutsideOK'
    BY <2>1 DEF AInv, OutsideOK
  <2> QED
    BY <1>1, <2>2, PutAt DEF Placed
<1>2. CASE q.at = NONE
  <2>1. UNCHANGED <<outside, hasNote, run>>
    BY <1>2 DEF Placed, outside
  <2> QED
    BY <1>2, <2>1, PutBack DEF Placed
<1> QED
  BY <1>1, <1>2

LEMMA PicksType == ASSUME OutsideOK PROVE Picks \subseteq Nodes \cup {NONE}
  BY DEF OutsideOK, Picks

(* A request enters engine A. *)
LEMMA AcceptACounts == ASSUME AInv, AcceptA PROVE AInv'
<1> DEFINE r == LastOf(free)
           stack == SubSeq(free, 1, Len(free) - 1)
<1>1. PICK i \in Picks : Placed(r, Place(r, Fresh, i), 1, stack, inflight, 0)
  BY DEF AcceptA
<1>2. i \in Nodes \cup {NONE}
  BY <1>1, PicksType DEF AInv
<1>3. Steady(Place(r, Fresh, i))
  <2>1. Fresh \in Request /\ Fresh.at = NONE /\ Fresh.tries = 0 /\ Fresh.first = NONE /\ 0 < Tries
    BY EngineAssumption DEF Fresh, Request, Obstacles
  <2> HIDE DEF r
  <2> QED
    BY <1>2, <2>1, PlaceSteady
<1>4. r \in Slots /\ InHand(r, stack, inflight, 0, 1)
  BY TakeSlot DEF AcceptA
<1> HIDE DEF r, stack
<1> QED
  BY <1>1, <1>3, <1>4, PlacedStep DEF AcceptA

(* A worker answers, or is gone, and the request ends or fails over. *)
LEMMA SettleACounts ==
  ASSUME AInv, NEW r \in Slots, NEW ok \in BOOLEAN, SettleA(r, ok)
  PROVE  AInv'
<1> DEFINE q == [req[r] EXCEPT !.at = NONE, !.met = IF ok THEN @ ELSE @ \cup {"failed"}]
           inf == [inflight EXCEPT ![req[r].at] = @ - 1]
<1>1. req[r] \in Request /\ Steady(req[r]) /\ req[r].at # NONE
  BY DEF AInv, SlotsOK, SettleA
<1>2. InHand(r, free, inf, -1, 0)
  BY <1>1, LiftSlot
<1>3. /\ q \in Request /\ q.at = NONE /\ q.tries = req[r].tries /\ q.first = req[r].first
  <2>1. (IF ok THEN req[r].met ELSE req[r].met \cup {"failed"}) \in SUBSET Obstacles
    BY <1>1 DEF Request, Obstacles
  <2> QED
    BY <1>1, <2>1, EngineSets DEF Request
<1>4. q.tries = 0 <=> q.first = NONE
  <2>1. req[r].tries \in Nat
    BY <1>1 DEF Request
  <2> QED
    BY <1>1, <1>3, <2>1 DEF Steady
<1>5. \/ q.tries < Tries /\ \E j \in Picks : Placed(r, Place(r, q, j), 0, free, inf, -1)
      \/ /\ Finish(r, q, ok, 0, free)
         /\ inflight' = inf
         /\ Note(-1)
         /\ UNCHANGED up
  BY DEF SettleA
<1>6. UNCHANGED <<ready, disposed, mode, draining, hasNote, run>>
  BY DEF SettleA
<1> HIDE DEF q, inf
<1>7. ASSUME q.tries < Tries, NEW j \in Picks, Placed(r, Place(r, q, j), 0, free, inf, -1)
      PROVE  AInv'
  <2>1. j \in Nodes \cup {NONE}
    BY PicksType DEF AInv
  <2>2. Steady(Place(r, q, j))
    BY <1>3, <1>4, <1>7, <2>1, PlaceSteady
  <2> QED
    BY <1>2, <1>6, <1>7, <2>2, PlacedStep
<1>8. CASE Finish(r, q, ok, 0, free) /\ inflight' = inf /\ Note(-1) /\ UNCHANGED up
  <2>1. UNCHANGED <<outside, hasNote, run>>
    BY <1>6, <1>8 DEF outside
  <2> QED
    BY <1>2, <1>8, <2>1, PutBack
<1> QED
  BY <1>5, <1>7, <1>8
------------------------------------------------------------------------------
(* Engine B's accounting *)

(* A run goes on as q: what is at the endpoints, and what is pending. *)
LEMMA RunStep ==
  ASSUME HeldOK, NEW b \in RunsB, NEW q, HoldsOnce(q), run' = [run EXCEPT ![b] = q]
  PROVE  /\ HeldOK'
         /\ Cardinality(Busy') = Cardinality(Busy) + (IF q.st # "idle" THEN 1 ELSE 0)
                                                   - (IF run[b].st # "idle" THEN 1 ELSE 0)
         /\ \A i : Cardinality(HeldBy(i)') = Cardinality(HeldBy(i))
                                        + (IF i \in Range(q.held) THEN 1 ELSE 0)
                                        - (IF i \in Range(run[b].held) THEN 1 ELSE 0)
<1>1. run' \in [RunsB -> Run] /\ run'[b] = q /\ \A d \in RunsB \ {b} : run'[d] = run[d]
  BY DEF HeldOK, HoldsOnce
<1>2. HeldOK'
  BY <1>1 DEF HeldOK
<1>3. PICK A, B : A = Busy /\ B = Busy'
  OBVIOUS
<1>4. /\ A \in SUBSET RunsB /\ B \in SUBSET RunsB /\ A \ {b} = B \ {b}
      /\ b \in A <=> run[b].st # "idle"
      /\ b \in B <=> q.st # "idle"
  BY <1>1, <1>3 DEF Busy
<1>5. Cardinality(B) = Cardinality(A) + (IF b \in B THEN 1 ELSE 0) - (IF b \in A THEN 1 ELSE 0)
  BY ONLY <1>4, EngineSets, CountOne
<1>6. ASSUME NEW i
      PROVE  Cardinality(HeldBy(i)') = Cardinality(HeldBy(i))
                                         + (IF i \in Range(q.held) THEN 1 ELSE 0)
                                         - (IF i \in Range(run[b].held) THEN 1 ELSE 0)
  <2>1. PICK C, D : C = HeldBy(i) /\ D = HeldBy(i)'
    OBVIOUS
  <2>2. D = {d \in RunsB : i \in Range(run'[d].held)}
    BY <2>1 DEF HeldBy
  <2>3. /\ C \in SUBSET RunsB /\ D \in SUBSET RunsB /\ C \ {b} = D \ {b}
        /\ b \in C <=> i \in Range(run[b].held)
        /\ b \in D <=> i \in Range(q.held)
    BY <1>1, <2>1, <2>2 DEF HeldBy
  <2>4. Cardinality(D) = Cardinality(C) + (IF b \in D THEN 1 ELSE 0) - (IF b \in C THEN 1 ELSE 0)
    BY ONLY <2>3, EngineSets, CountOne
  <2> QED
    BY <2>1, <2>3, <2>4
<1> QED
  BY <1>2, <1>3, <1>4, <1>5, <1>6

(* The requests of engine A stay where they are. *)
LEMMA SlotsStay ==
  ASSUME SlotsOK, FreeOK, UNCHANGED <<req, free>>
  PROVE  SlotsOK' /\ FreeOK' /\ \A i : AtWorker(i)' = AtWorker(i)
BY DEF SlotsOK, FreeOK, AtWorker

(* Pool raises the count of an endpoint the run does not hold. *)
LEMMA AttemptCounts ==
  ASSUME AInv, NEW b \in RunsB, NEW q \in Run, NEW i \in Nodes \cup {NONE},
         HoldsOnce(q), q.held = run[b].held, i # NONE => i \notin Range(q.held),
         Attempt(b, q, i), UNCHANGED <<ready, disposed, mode, draining, hasNote, req, free>>
  PROVE  /\ OutsideOK' /\ SlotsOK' /\ FreeOK' /\ HeldOK' /\ InflightOK' /\ NotedOK'
         /\ Cardinality(Busy') = Cardinality(Busy) + (IF run[b].st = "idle" THEN 1 ELSE 0)
<1>1. SlotsOK' /\ FreeOK' /\ \A j : AtWorker(j)' = AtWorker(j)
  BY SlotsStay DEF AInv
<1>2. HeldOK /\ inflight \in [Nodes -> Nat] /\ noted \in Nat
  BY DEF AInv, InflightOK, NotedOK
<1>3. Cardinality(Busy) \in Nat
  BY Sizes
<1>4. CASE i = NONE
  <2> DEFINE p == [q EXCEPT !.st = "none", !.met = @ \cup {"none"}]
  <2>1. run' = [run EXCEPT ![b] = p] /\ UNCHANGED <<inflight, noted, up>>
    BY <1>4 DEF Attempt
  <2>2. q.met \cup {"none"} \in SUBSET Obstacles
    BY DEF Run, Obstacles
  <2>3. p \in Run /\ p.st = "none" /\ p.held = q.held
    BY <2>2 DEF Run
  <2> HIDE DEF p
  <2>4. HoldsOnce(p)
    BY <2>3 DEF HoldsOnce
  <2>5. /\ HeldOK'
        /\ Cardinality(Busy') = Cardinality(Busy) + 1 - (IF run[b].st # "idle" THEN 1 ELSE 0)
        /\ \A j : Cardinality(HeldBy(j)') = Cardinality(HeldBy(j))
                                       + (IF j \in Range(p.held) THEN 1 ELSE 0)
                                       - (IF j \in Range(run[b].held) THEN 1 ELSE 0)
    BY <1>2, <2>1, <2>3, <2>4, RunStep
  <2>6. \A j \in Nodes : Cardinality(HeldBy(j)) \in Nat
    BY Sizes
  <2>7. \A j \in Nodes : Cardinality(HeldBy(j)') = Cardinality(HeldBy(j))
    BY <2>3, <2>5, <2>6
  <2>8. InflightOK'
    BY <1>1, <2>1, <2>7 DEF AInv, InflightOK
  <2>9. OutsideOK' /\ NotedOK'
    BY <2>1 DEF AInv, OutsideOK, NotedOK
  <2> QED
    BY <1>1, <1>3, <2>5, <2>8, <2>9
<1>5. CASE i # NONE
  <2> DEFINE acc == Accepts(i, NONE)
             p == [q EXCEPT !.held = Append(@, i),
                            !.st = IF acc THEN "out" ELSE Refusal(i),
                            !.met = IF acc THEN @ ELSE @ \cup {Refusal(i)}]
  <2>1. /\ run' = [run EXCEPT ![b] = p] /\ inflight' = [inflight EXCEPT ![i] = @ + 1]
        /\ Note(1) /\ OnDispatch(i)
    BY <1>5 DEF Attempt
  <2>2. Refusal(i) \in {"full", "notReady"}
    BY DEF Refusal
  <2>3. /\ (IF acc THEN "out" ELSE Refusal(i)) \in {"out", "full", "notReady"}
        /\ (IF acc THEN q.met ELSE q.met \cup {Refusal(i)}) \in SUBSET Obstacles
    BY <2>2 DEF Run, Obstacles
  <2>4. /\ q.held \in Seq(Nodes) /\ i \in Nodes
        /\ \A j, k \in DOMAIN q.held : q.held[j] = q.held[k] => j = k
    BY <1>5 DEF Run, HoldsOnce
  <2>5. PICK s, h : s = q.held /\ h = Append(s, i)
    OBVIOUS
  <2>6. /\ h \in Seq(Nodes) /\ Range(h) = Range(q.held) \cup {i}
        /\ \A j, k \in DOMAIN h : h[j] = h[k] => j = k
    <3>1. s \in Seq(Nodes) /\ i \in Nodes /\ i \notin Range(s)
      BY <1>5, <2>4, <2>5
    <3>2. \A j, k \in DOMAIN s : s[j] = s[k] => j = k
      BY <2>4, <2>5
    <3>3. /\ h \in Seq(Nodes) /\ Range(h) = Range(s) \cup {i}
          /\ \A j, k \in DOMAIN h : h[j] = h[k] => j = k
      BY ONLY <2>5, <3>1, <3>2, AppendOnce
    <3> QED
      BY <2>5, <3>3
  <2>7. p \in Run /\ p.st \in {"out", "full", "notReady"} /\ p.held = h
    BY <2>3, <2>5, <2>6 DEF Run
  <2> HIDE DEF p, acc
  <2>8. HoldsOnce(p) /\ p.st # "idle"
    BY <2>6, <2>7 DEF HoldsOnce
  <2>9. /\ HeldOK'
        /\ Cardinality(Busy') = Cardinality(Busy) + 1 - (IF run[b].st # "idle" THEN 1 ELSE 0)
        /\ \A j : Cardinality(HeldBy(j)') = Cardinality(HeldBy(j))
                                       + (IF j \in Range(p.held) THEN 1 ELSE 0)
                                       - (IF j \in Range(run[b].held) THEN 1 ELSE 0)
    BY <1>2, <2>1, <2>8, RunStep
  <2>10. \A j \in Nodes : /\ Cardinality(HeldBy(j)) \in Nat
                          /\ inflight'[j] = inflight[j] + (IF j = i THEN 1 ELSE 0)
    BY <1>2, <2>1, Sizes
  <2>11. \A j \in Nodes :
           Cardinality(HeldBy(j)') = Cardinality(HeldBy(j)) + (IF j = i THEN 1 ELSE 0)
    BY <1>5, <2>6, <2>7, <2>9, <2>10
  <2>12. inflight' \in [Nodes -> Nat]
    BY <1>2, <2>1, <2>4
  <2>13. InflightOK'
    <3>1. \A j \in Nodes : /\ Cardinality(AtWorker(j)) \in Nat
                           /\ inflight[j] = Cardinality(AtWorker(j)) + Cardinality(HeldBy(j))
      BY Sizes DEF AInv, InflightOK
    <3>2. \A j \in Nodes : inflight'[j] = Cardinality(AtWorker(j)) + Cardinality(HeldBy(j)')
      BY <2>10, <2>11, <3>1
    <3> QED
      BY <1>1, <2>12, <3>2 DEF InflightOK
  <2>14. SumFunction(inflight') = SumFunction(inflight) + 1 /\ SumFunction(inflight) \in Nat
    <3>1. PICK T, f : T = {i} /\ f = inflight'
      OBVIOUS
    <3>2. /\ T \in SUBSET Nodes /\ Cardinality(T) = 1 /\ f \in [Nodes -> Nat]
          /\ \A j \in Nodes : f[j] = inflight[j] + (IF j \in T THEN 1 ELSE 0)
      BY <2>4, <2>10, <2>12, <3>1, FS_Singleton
    <3>3. SumFunction(f) = SumFunction(inflight) + Cardinality(T) /\ SumFunction(inflight) \in Nat
      BY ONLY <1>2, <3>2, EngineSets, SumTaken
    <3> QED
      BY <3>1, <3>2, <3>3
  <2>15. NotedOK'
    <3>1. /\ hasNote => noted + 1 = SumFunction(inflight')
          /\ SumFunction(inflight') \in Nat
      BY <2>14 DEF AInv, NotedOK
    <3> QED
      BY <1>2, <2>1, <3>1, NoteStep DEF NotedOK
  <2>16. OutsideOK'
    BY <2>1 DEF AInv, OutsideOK, OnDispatch
  <2> QED
    BY <1>1, <1>3, <2>9, <2>13, <2>15, <2>16
<1> QED
  BY <1>4, <1>5

(* Pool gives back all the run held, each endpoint once. *)
LEMMA EndBCounts ==
  ASSUME AInv, NEW b \in RunsB, run[b].st # "idle", NEW q, q.held = run[b].held,
         NEW outcome \in {"ok", "failed", "shed"}, EndB(b, q, outcome),
         UNCHANGED <<ready, disposed, mode, draining, hasNote, req, free>>
  PROVE  AInv'
<1>1. SlotsOK' /\ FreeOK' /\ \A j : AtWorker(j)' = AtWorker(j)
  BY SlotsStay DEF AInv
<1>2. HeldOK /\ inflight \in [Nodes -> Nat] /\ noted \in Nat
  BY DEF AInv, InflightOK, NotedOK
<1>3. PICK h : h = run[b].held
  OBVIOUS
<1>4. /\ h \in Seq(Nodes)
      /\ \A j, k \in DOMAIN h : h[j] = h[k] => j = k
  BY <1>2, <1>3 DEF HeldOK, HoldsOnce, Run
<1>5. HoldsOnce(Idle) /\ Idle.st = "idle" /\ Range(Idle.held) = {}
  BY DEF HoldsOnce, Idle, Run, Range
<1>6. /\ run' = [run EXCEPT ![b] = Idle]
      /\ inflight' = [i \in Nodes |->
           inflight[i] - Cardinality({k \in DOMAIN h : h[k] = i})]
      /\ Note(-Len(h)) /\ Count(0, outcome) /\ UNCHANGED up
  BY <1>3 DEF EndB
<1>7. /\ HeldOK'
      /\ Cardinality(Busy') = Cardinality(Busy) + 0 - 1
      /\ \A j : Cardinality(HeldBy(j)')
                  = Cardinality(HeldBy(j)) + 0 - (IF j \in Range(h) THEN 1 ELSE 0)
  BY <1>2, <1>3, <1>5, <1>6, RunStep
<1>8. \A i \in Nodes : inflight'[i] = inflight[i] - (IF i \in Range(h) THEN 1 ELSE 0)
  <2>1. \A i \in Nodes :
          Cardinality({k \in DOMAIN h : h[k] = i}) = IF i \in Range(h) THEN 1 ELSE 0
    BY <1>4, OccursOnce
  <2> QED
    BY <1>6, <2>1
<1>9. \A i \in Nodes : /\ Cardinality(AtWorker(i)) \in Nat /\ Cardinality(HeldBy(i)') \in Nat
                       /\ Cardinality(HeldBy(i)) \in Nat
                       /\ inflight[i] = Cardinality(AtWorker(i)) + Cardinality(HeldBy(i))
  <2>1. \A i : HeldBy(i)' \subseteq RunsB
    BY DEF HeldBy
  <2>2. \A i : Cardinality(HeldBy(i)') \in Nat
    BY <2>1, EngineSets, FS_Subset, FS_CardinalityType
  <2> QED
    BY <2>2, Sizes DEF AInv, InflightOK
<1>10. \A i \in Nodes : /\ inflight'[i] = Cardinality(AtWorker(i)) + Cardinality(HeldBy(i)')
                        /\ inflight'[i] \in Nat
  BY <1>7, <1>8, <1>9
<1>11. inflight' \in [Nodes -> Nat]
  BY <1>6, <1>10
<1>12. InflightOK'
  BY <1>1, <1>10, <1>11 DEF InflightOK
<1>13. /\ SumFunction(inflight) = SumFunction(inflight') + Len(h)
       /\ SumFunction(inflight') \in Nat /\ Len(h) \in Nat
  <2>1. PICK T, g, f : T = Range(h) /\ g = inflight' /\ f = inflight
    OBVIOUS
  <2>2. Cardinality(T) = Len(h) /\ Len(h) \in Nat
    BY ONLY <1>4, <2>1, CountDistinct
  <2>3. T \in SUBSET Nodes
    BY ONLY <1>4, <2>1 DEF Range
  <2>4. /\ g \in [Nodes -> Nat] /\ f \in [Nodes -> Nat]
        /\ \A i \in Nodes : f[i] = g[i] + (IF i \in T THEN 1 ELSE 0)
    <3>1. \A i \in Nodes : f[i] \in Nat /\ g[i] = f[i] - (IF i \in T THEN 1 ELSE 0)
      BY <1>2, <1>8, <2>1
    <3>2. \A i \in Nodes : f[i] = g[i] + (IF i \in T THEN 1 ELSE 0)
      BY ONLY <3>1
    <3> QED
      BY <1>2, <1>11, <2>1, <3>2
  <2>5. SumFunction(f) = SumFunction(g) + Cardinality(T) /\ SumFunction(g) \in Nat
    BY ONLY <2>3, <2>4, EngineSets, SumTaken
  <2> QED
    BY <2>1, <2>2, <2>5
<1>14. NotedOK'
  <2>1. hasNote => noted + (-Len(h)) = SumFunction(inflight')
    BY <1>2, <1>13 DEF AInv, NotedOK
  <2>2. -Len(h) \in Int /\ UNCHANGED hasNote
    BY <1>13
  <2> QED
    BY <1>2, <1>6, <1>13, <2>1, <2>2, NoteStep DEF NotedOK
<1>15. CountsOK'
  <2>1. /\ c' \in [Counts -> Nat] /\ c'.arrived = c.arrived + 0
        /\ Settled \in Nat /\ Settled' = Settled + 1
    BY <1>6, CountStep DEF AInv, CountsOK
  <2>2. c.arrived = Settled + (R - Len(free)) + Cardinality(Busy) /\ c.arrived \in Nat
    BY DEF AInv, CountsOK, Counts
  <2>3. R \in Nat /\ Len(free) \in Nat /\ Cardinality(Busy) \in Nat
    BY Sizes, EngineSets DEF AInv, FreeOK
  <2>4. c'.arrived = Settled' + (R - Len(free)) + Cardinality(Busy')
    BY <1>7, <2>1, <2>2, <2>3
  <2> QED
    BY <2>1, <2>4 DEF CountsOK
<1>16. OutsideOK'
  BY <1>6 DEF AInv, OutsideOK
<1> QED
  BY <1>1, <1>7, <1>12, <1>14, <1>15, <1>16 DEF AInv

(* A request enters engine B. *)
LEMMA AcceptBCounts ==
  ASSUME AInv, AcceptB
  PROVE  AInv'
<1>1. PICK b \in RunsB : run[b].st = "idle" /\ \E i \in Picks : Attempt(b, Idle, i)
  BY DEF AcceptB
<1>2. PICK i \in Picks : Attempt(b, Idle, i)
  BY <1>1
<1>3. i \in Nodes \cup {NONE}
  BY <1>2, PicksType DEF AInv
<1>4. Idle \in Run /\ HoldsOnce(Idle) /\ Idle.held = run[b].held /\ Range(Idle.held) = {}
  BY <1>1 DEF HoldsOnce, Idle, Run, Range, AInv, HeldOK
<1>5. Count(1, "none") /\ UNCHANGED <<ready, disposed, mode, draining, hasNote, req, free>>
  BY DEF AcceptB
<1>6. /\ OutsideOK' /\ SlotsOK' /\ FreeOK' /\ HeldOK' /\ InflightOK' /\ NotedOK'
      /\ Cardinality(Busy') = Cardinality(Busy) + 1
  BY <1>1, <1>2, <1>3, <1>4, <1>5, AttemptCounts
<1>7. CountsOK'
  <2>1. /\ c' \in [Counts -> Nat] /\ c'.arrived = c.arrived + 1
        /\ Settled \in Nat /\ Settled' = Settled + 0
    BY <1>5, CountStep DEF AInv, CountsOK
  <2>2. c.arrived = Settled + (R - Len(free)) + Cardinality(Busy) /\ c.arrived \in Nat
    BY DEF AInv, CountsOK, Counts
  <2>3. R \in Nat /\ Len(free) \in Nat /\ Cardinality(Busy) \in Nat
    BY Sizes, EngineSets DEF AInv, FreeOK
  <2>4. c'.arrived = Settled' + (R - Len(free)) + Cardinality(Busy')
    BY <1>6, <2>1, <2>2, <2>3
  <2> QED
    BY <1>5, <2>1, <2>4 DEF CountsOK
<1> QED
  BY <1>6, <1>7 DEF AInv

LEMMA FailBCounts ==
  ASSUME AInv, NEW b \in RunsB, NEW code, FailB(b, code), run[b].st # "idle",
         UNCHANGED <<ready, disposed, mode, draining, hasNote, req, free>>
  PROVE  AInv'
<1> DEFINE q == [run[b] EXCEPT !.ran = (@ \/ code # "full"),
                               !.met = IF code = "failed" THEN @ \cup {code} ELSE @]
           outcome == IF ~q.ran /\ code = "full" THEN "shed" ELSE "failed"
<1>1. run[b] \in Run /\ HoldsOnce(run[b])
  BY DEF AInv, HeldOK, HoldsOnce
<1>2. /\ (run[b].ran \/ code # "full") \in BOOLEAN
      /\ (IF code = "failed" THEN run[b].met \cup {code} ELSE run[b].met) \in SUBSET Obstacles
  BY <1>1 DEF Run, Obstacles
<1>3. q \in Run /\ q.held = run[b].held /\ q.st = run[b].st
  BY <1>1, <1>2 DEF Run
<1>4. \/ UNCHANGED c /\ \E i \in up \ Range(q.held) : Attempt(b, q, i)
      \/ EndB(b, q, outcome)
  BY DEF FailB
<1>5. outcome \in {"ok", "failed", "shed"}
  OBVIOUS
<1> HIDE DEF q, outcome
<1>6. CASE UNCHANGED c /\ \E i \in up \ Range(q.held) : Attempt(b, q, i)
  <2>1. PICK i \in up \ Range(q.held) : Attempt(b, q, i)
    BY <1>6
  <2>2. i \in Nodes \cup {NONE}
    BY DEF AInv, OutsideOK
  <2>3. HoldsOnce(q)
    BY <1>1, <1>3 DEF HoldsOnce
  <2>4. /\ OutsideOK' /\ SlotsOK' /\ FreeOK' /\ HeldOK' /\ InflightOK' /\ NotedOK'
        /\ Cardinality(Busy') = Cardinality(Busy) + 0
    BY <1>3, <2>1, <2>2, <2>3, AttemptCounts
  <2>5. CountsOK'
    <3>1. Cardinality(Busy) \in Nat
      BY Sizes
    <3>2. Cardinality(Busy') = Cardinality(Busy)
      BY <2>4, <3>1
    <3> QED
      BY <1>6, <3>2 DEF AInv, CountsOK, Settled
  <2> QED
    BY <2>4, <2>5 DEF AInv
<1>7. CASE EndB(b, q, outcome)
  BY <1>3, <1>5, <1>7, EndBCounts
<1> QED
  BY <1>4, <1>6, <1>7

LEMMA SettleBCounts ==
  ASSUME AInv, NEW b \in RunsB, NEW ok \in BOOLEAN, SettleB(b, ok)
  PROVE  AInv'
<1>1. UNCHANGED <<ready, disposed, mode, draining, hasNote, req, free>>
  BY DEF SettleB
<1>2. run[b].st # "idle" /\ (EndB(b, run[b], "ok") \/ \E code : FailB(b, code))
  BY DEF SettleB, Out
<1> QED
  BY <1>1, <1>2, EndBCounts, FailBCounts

------------------------------------------------------------------------------
(* The rest *)

(* A request is turned away. *)
LEMMA TurnAwayCounts ==
  ASSUME AInv, NEW outcome \in {"drained", "shed"}, TurnAway(outcome)
  PROVE  AInv'
<1>1. Count(1, outcome) /\ UNCHANGED <<outside, hasNote, noted, free, req, run, inflight>>
  BY DEF TurnAway
<1>2. /\ c' \in [Counts -> Nat] /\ c'.arrived = c.arrived + 1
      /\ Settled \in Nat /\ Settled' = Settled + 1
  BY <1>1, CountStep DEF AInv, CountsOK
<1>3. c.arrived = Settled + (R - Len(free)) + Cardinality(Busy) /\ c.arrived \in Nat
  BY DEF AInv, CountsOK, Counts
<1>4. R \in Nat /\ Len(free) \in Nat /\ Cardinality(Busy) \in Nat
  BY Sizes, EngineSets DEF AInv, FreeOK
<1>5. c'.arrived = Settled' + (R - Len(free)) + Cardinality(Busy)
  BY <1>2, <1>3, <1>4
<1>6. CountsOK'
  BY <1>1, <1>2, <1>5 DEF CountsOK, Busy
<1> QED
  BY <1>1, <1>6 DEF AInv, OutsideOK, SlotsOK, FreeOK, HeldOK, InflightOK, NotedOK,
                    AtWorker, HeldBy, outside

LEMMA ArriveCounts ==
  ASSUME AInv, Arrive
  PROVE  AInv'
<1>1. \/ \E outcome \in {"drained", "shed"} : TurnAway(outcome)
      \/ AcceptA \/ AcceptB
  BY DEF Arrive
<1> QED
  BY <1>1, TurnAwayCounts, AcceptACounts, AcceptBCounts

(* Nothing of the requests changes: the fleet, the visitor, the kernel. *)
LEMMA SurroundingsCounts ==
  ASSUME AInv, UNCHANGED untouched, OutsideOK', NotedOK'
  PROVE  AInv'
<1>1. SlotsOK' /\ FreeOK' /\ \A i : AtWorker(i)' = AtWorker(i)
  BY SlotsStay DEF AInv, untouched
<1>2. HeldOK' /\ Busy' = Busy /\ \A i : HeldBy(i)' = HeldBy(i)
  BY DEF AInv, HeldOK, Busy, HeldBy, untouched
<1>3. InflightOK'
  BY <1>1, <1>2 DEF AInv, InflightOK, untouched
<1>4. CountsOK'
  BY <1>2 DEF AInv, CountsOK, Settled, untouched
<1> QED
  BY <1>1, <1>2, <1>3, <1>4 DEF AInv

LEMMA WorkersCounts ==
  ASSUME AInv, NEW i \in Nodes, Eligible(i) \/ Die(i) \/ Respawn(i)
  PROVE  AInv'
<1>1. OutsideOK' /\ UNCHANGED <<untouched, hasNote, noted>>
  BY DEF AInv, OutsideOK, Eligible, Die, Respawn
<1>2. NotedOK'
  BY <1>1 DEF AInv, NotedOK, untouched
<1> QED
  BY <1>1, <1>2, SurroundingsCounts

(* A strategy with a total of its own starts from the counts it takes over.*)
LEMMA SetStrategyCounts ==
  ASSUME AInv, NEW keeps \in BOOLEAN, SetStrategy(keeps)
  PROVE  AInv'
<1>1. /\ hasNote' = keeps /\ noted' = IF keeps THEN SumFunction(inflight) ELSE 0
      /\ UNCHANGED <<outside, untouched>>
  BY DEF SetStrategy
<1>2. SumFunction(inflight) \in Nat
  BY SumAllNat, EngineSets DEF AInv, InflightOK
<1>3. UNCHANGED inflight
  BY <1>1 DEF untouched
<1>4. NotedOK'
  BY <1>1, <1>2, <1>3 DEF NotedOK
<1>5. OutsideOK'
  BY <1>1 DEF AInv, OutsideOK, outside
<1> QED
  BY <1>1, <1>4, <1>5, SurroundingsCounts

LEMMA SwitchesCounts ==
  ASSUME AInv, (\E m \in {"A", "B"} : SetMode(m)) \/ Drain \/ Halt
  PROVE  AInv'
<1>1. OutsideOK' /\ UNCHANGED <<untouched, hasNote, noted>>
  BY DEF AInv, OutsideOK, SetMode, Drain, Halt
<1>2. NotedOK'
  BY <1>1 DEF AInv, NotedOK, untouched
<1> QED
  BY <1>1, <1>2, SurroundingsCounts

LEMMA NextCounts == AInv /\ [Next]_vars => AInv'
<1> SUFFICES ASSUME AInv, [Next]_vars PROVE AInv'
  OBVIOUS
<1>1. CASE UNCHANGED vars
  BY <1>1 DEF vars, outside, AInv, OutsideOK, SlotsOK, FreeOK, HeldOK, InflightOK, NotedOK,
              CountsOK, Settled, Busy, AtWorker, HeldBy
<1>2. CASE \E i \in Nodes : Eligible(i) \/ Die(i) \/ Respawn(i)
  BY <1>2, WorkersCounts
<1>3. CASE \E keeps \in BOOLEAN : SetStrategy(keeps)
  BY <1>3, SetStrategyCounts
<1>4. CASE (\E m \in {"A", "B"} : SetMode(m)) \/ Drain \/ Halt
  BY <1>4, SwitchesCounts
<1> QED
  BY <1>1, <1>2, <1>3, <1>4, ArriveCounts, SettleACounts, SettleBCounts DEF Next

(* At first every slot is free, and nothing is anywhere. *)
LEMMA InitCounts == Init => AInv
<1> SUFFICES ASSUME Init PROVE AInv
  OBVIOUS
<1>1. OutsideOK
  BY DEF Init, OutsideOK
<1>2. Fresh \in Request /\ Fresh.at = NONE
  BY EngineAssumption DEF Fresh, Request, Obstacles
<1>3. SlotsOK /\ \A r \in Slots : req[r].at = NONE
  BY <1>2 DEF Init, SlotsOK, Steady
<1>4. HoldsOnce(Idle) /\ Idle \in Run /\ Idle.st = "idle" /\ Range(Idle.held) = {}
  BY DEF HoldsOnce, Idle, Run, Obstacles, Range
<1>5. HeldOK /\ Busy = {} /\ \A i : HeldBy(i) = {}
  BY <1>4 DEF Init, HeldOK, Busy, HeldBy
<1>6. FreeOK /\ Len(free) = R
  <2>1. R \in Nat \ {0} /\ Slots = 1 .. R /\ free = [k \in 1 .. R |-> R + 1 - k]
    BY EngineSets DEF Slots, Init
  <2>2. \A k \in 1 .. R : free[k] = R + 1 - k /\ free[k] \in Slots
    BY <2>1
  <2>3. free \in Seq(Slots) /\ Len(free) = R /\ DOMAIN free = 1 .. R
    BY <2>1, <2>2
  <2>4. \A r \in Slots : (R + 1 - r) \in DOMAIN free /\ free[R + 1 - r] = r
    BY <2>1, <2>2, <2>3
  <2>5. Range(free) = Slots
    BY <2>2, <2>3, <2>4 DEF Range
  <2>6. \A j, k \in DOMAIN free : free[j] = free[k] => j = k
    BY <2>1, <2>2, <2>3
  <2>7. AtWorker(NONE) = Slots
    BY <1>3 DEF AtWorker
  <2> QED
    BY <2>3, <2>5, <2>6, <2>7 DEF FreeOK
<1>7. inflight = [i \in Nodes |-> 0]
  BY DEF Init
<1>8. InflightOK
  <2>1. \A i \in Nodes : AtWorker(i) = {}
    BY <1>3, EngineSets DEF AtWorker
  <2> QED
    BY <1>5, <1>7, <2>1, FS_EmptySet DEF InflightOK
<1>9. NotedOK
  BY <1>7, SumAllZero, EngineSets DEF Init, NotedOK
<1>10. CountsOK
  BY <1>5, <1>6, EngineSets, FS_EmptySet DEF Init, CountsOK, Counts, Settled
<1> QED
  BY <1>1, <1>3, <1>5, <1>6, <1>8, <1>9, <1>10 DEF AInv

(* Every arrival is accounted for exactly once, and a slot of engine A is  *)
(* free or has a request at a worker, never both: through refusals,        *)
(* failovers, deaths, drains and switches (stats.js; heartbeat.mjs,        *)
(* "accounted").                                                           *)
THEOREM AccountedAlways == Spec => []Accounted
<1>1. Init => AInv
  BY InitCounts
<1>2. AInv /\ [Next]_vars => AInv'
  BY NextCounts
<1>3. AInv => Accounted
  BY AInvImplies
<1> QED
  BY <1>1, <1>2, <1>3, PTL DEF Spec

(* The counts every strategy decides on are the requests that are where    *)
(* they say, each once, and the noted total is their sum, whatever is      *)
(* switched in mid-request (engine.js header; Balancers.set).              *)
THEOREM InflightExactAlways == Spec => []InflightExact
<1>1. Init => AInv
  BY InitCounts
<1>2. AInv /\ [Next]_vars => AInv'
  BY NextCounts
<1>3. AInv => InflightExact
  BY AInvImplies
<1> QED
  BY <1>1, <1>2, <1>3, PTL DEF Spec
===============================================================================
