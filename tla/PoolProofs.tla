------------------------------ MODULE PoolProofs ------------------------------
(***************************************************************************)
(* Theorems about Pool for every capacity, every set of runs, every bound  *)
(* on tries and every set of faults: types, distinct failover, net zero,   *)
(* the noted total in lockstep, the proportional spill of the fallback, no *)
(* dispatch on state read before an await, no early giving up, and the     *)
(* refinement of Lease.                                                    *)
(***************************************************************************)
EXTENDS Pool, DataProofs

------------------------------------------------------------------------------
(* The failover choice *)

(* A nonempty set of endpoints has a largest one. *)
LEMMA LargestNode ==
  ASSUME NEW C \in SUBSET Nodes, C # {}
  PROVE  \E i \in C : \A j \in C : j <= i
<1> DEFINE T == {k \in Nat : N - 1 - k \in C}
<1>1. PICK c \in C : TRUE  OBVIOUS
<1>2. N - 1 - c \in T  BY <1>1, PoolAssumption DEF Nodes
<1>3. PICK x \in T : \A y \in T : x <= y
  <2>1. T \in SUBSET Nat  OBVIOUS
  <2> HIDE DEF T
  <2> QED  BY <1>2, <2>1, LeastExists
<1>4. ASSUME NEW j \in C  PROVE j <= N - 1 - x
  <2>1. N - 1 - j \in T  BY PoolAssumption DEF Nodes
  <2>2. j \in Int /\ x \in Nat /\ N \in Int  BY PoolAssumption DEF Nodes
  <2>3. x <= N - 1 - j  BY <1>3, <2>1
  <2> HIDE DEF T
  <2> QED  BY <2>2, <2>3
<1>5. N - 1 - x \in C  BY <1>3
<1> QED  BY <1>4, <1>5

(* _chooseUntried returns a candidate, or nothing when there is none. *)
LEMMA ChooseUntriedType ==
  ASSUME eligible \subseteq Nodes, NEW tried, NEW h
  PROVE  /\ ChooseUntried(tried, h) \in Candidates(tried) \cup {NONE}
         /\ Candidates(tried) # {} => ChooseUntried(tried, h) \in Candidates(tried)
<1> DEFINE C == Candidates(tried)
<1>1. C \in SUBSET Nodes  BY DEF Candidates
<1>2. CASE C = {}  BY <1>2 DEF ChooseUntried
<1>3. CASE C # {} /\ \E i \in C : Crosses(C, h, i)  BY <1>3 DEF ChooseUntried
<1>4. CASE C # {} /\ ~\E i \in C : Crosses(C, h, i)
  <2>1. \E i \in C : \A j \in C : j <= i  BY <1>1, <1>4, LargestNode
  <2>2. ChooseUntried(tried, h) = CHOOSE i \in C : \A j \in C : j <= i
    BY <1>4 DEF ChooseUntried
  <2> QED  BY <2>1, <2>2
<1> QED  BY <1>2, <1>3, <1>4

(* Whatever an attempt selects is up, has weight and is untried. *)
LEMMA SelectionsType ==
  ASSUME eligible \subseteq Nodes, NEW tried, NEW i \in Selections(tried), i # NONE
  PROVE  i \in Nodes /\ i \in Pickable /\ i \notin tried
<1>1. CASE tried = {}  BY <1>1 DEF Selections, Pickable
<1>2. CASE tried # {} /\ i \in Pickable \ tried  BY <1>2 DEF Pickable
<1>3. CASE \E h \in Hashes : i = ChooseUntried(tried, h)
  <2>1. i \in Candidates(tried)  BY <1>3, ChooseUntriedType
  <2> QED  BY <2>1 DEF Candidates, Pickable
<1> QED  BY <1>1, <1>2, <1>3 DEF Selections

------------------------------------------------------------------------------
(* Type correctness *)

(* A clamped release of counts leaves counts. *)
LEMMA ReleasedType ==
  ASSUME NEW inf \in [Nodes -> Nat], NEW h \in Seq(Nodes)
  PROVE  Released(inf, h) \in [Nodes -> Nat]
<1> SUFFICES ASSUME NEW i \in Nodes
             PROVE  Monus(inf[i], Cardinality({k \in DOMAIN h : h[k] = i})) \in Nat
  BY DEF Released
<1> DEFINE K == {k \in DOMAIN h : h[k] = i}
<1>1. IsFiniteSet(DOMAIN h)  BY FS_Interval
<1>2. Cardinality(K) \in Nat  BY <1>1, FS_Subset, FS_CardinalityType
<1> QED  BY <1>2 DEF Monus

(* The end of a run leaves a well-typed state, with the slot idle. *)
LEMMA FinishType ==
  ASSUME TypeOK, UNCHANGED <<eligible, weight>>,
         NEW r \in Runs, NEW why \in Outcomes, NEW inf \in [Nodes -> Nat],
         NEW h \in Seq(Nodes), NEW n \in Nat, Finish(r, why, inf, h, total, n)
  PROVE  TypeOK'
<1>1. inflight' \in [Nodes -> Nat]  BY ReleasedType DEF Finish
<1>2. total' \in Nat /\ leaked' \in Nat
  <2>1. PICK bad \in Nat : /\ leaked' = leaked + bad
                           /\ total' = Monus(total, n - bad)
    BY DEF Finish, Unnote
  <2> QED  BY <2>1 DEF Monus, TypeOK
<1>3. held' \in [Runs -> Seq(Nodes)]  BY DEF Finish, TypeOK
<1>4. \A q \in Runs : Len(held'[q]) \in IF pc'[q] = "idle" THEN {0} ELSE 1 .. tries'[q]
  BY DEF Finish, TypeOK
<1> QED  BY <1>1, <1>2, <1>3, <1>4, PoolAssumption DEF Finish, TypeOK

(* So does a run that stops between two dispatches. *)
LEMMA StopType ==
  ASSUME TypeOK, UNCHANGED <<eligible, weight>>,
         NEW r \in Runs, NEW why \in Outcomes, Stop(r, why)
  PROVE  TypeOK'
<1>1. inflight \in [Nodes -> Nat] /\ held[r] \in Seq(Nodes) /\ Len(held[r]) \in Nat
  BY DEF TypeOK
<1> QED  BY <1>1, FinishType DEF Stop

(* A dispatch takes an untried endpoint that is up and has weight, in a    *)
(* run that has attempts left.                                             *)
LEMMA DispatchType ==
  ASSUME TypeOK, UNCHANGED <<eligible, weight>>,
         NEW r \in Runs, NEW i \in Nodes, NEW n \in 1 .. MaxTries, NEW sig \in BOOLEAN,
         Len(held[r]) < n, Dispatch(r, i, n, sig)
  PROVE  TypeOK'
<1>1. inflight' \in [Nodes -> Nat] /\ total' \in Nat  BY DEF Dispatch, TypeOK
<1>2. held' \in [Runs -> Seq(Nodes)]  BY DEF Dispatch, TypeOK
<1>3. Len(held'[r]) = Len(held[r]) + 1  BY DEF Dispatch, TypeOK
<1>4. \A q \in Runs : Len(held'[q]) \in IF pc'[q] = "idle" THEN {0} ELSE 1 .. tries'[q]
  BY <1>3, PoolAssumption DEF Dispatch, TypeOK
<1> QED  BY <1>1, <1>2, <1>4 DEF Dispatch, TypeOK, Outcomes

(* So does a run whose note(+1) throws. *)
LEMMA DispatchThrowsType ==
  ASSUME TypeOK, UNCHANGED <<eligible, weight>>,
         NEW r \in Runs, NEW i \in Nodes, DispatchThrows(r, i)
  PROVE  TypeOK'
<1> DEFINE inf == [inflight EXCEPT ![i] = @ + 1]
           h == Append(held[r], i)
<1>1. inf \in [Nodes -> Nat] /\ h \in Seq(Nodes) /\ Len(held[r]) \in Nat  BY DEF TypeOK
<1>2. Finish(r, "hook", inf, h, total, Len(held[r]))  BY DEF DispatchThrows
<1> QED  BY <1>1, <1>2, FinishType DEF Outcomes

(* An attempt keeps the types, however it ends. *)
LEMMA AttemptType ==
  ASSUME TypeOK, UNCHANGED <<eligible, weight>>,
         NEW r \in Runs, NEW n \in 1 .. MaxTries, NEW sig \in BOOLEAN,
         Len(held[r]) < n, Attempt(r, n, sig)
  PROVE  TypeOK'
<1>1. ASSUME NEW why \in Outcomes, Stop(r, why)  PROVE TypeOK'
  BY <1>1, StopType
<1>2. ASSUME NEW i \in Selections(Range(held[r])) \ {NONE},
             Dispatch(r, i, n, sig) \/ DispatchThrows(r, i)
      PROVE  TypeOK'
  <2>1. i \in Nodes  BY SelectionsType DEF TypeOK
  <2> QED  BY <1>2, <2>1, DispatchType, DispatchThrowsType
<1> QED  BY <1>1, <1>2 DEF Attempt, Outcomes

(* Pool.run keeps its variables well typed, a waiting run between one and  *)
(* tries dispatches, and an idle slot empty-handed.                        *)
THEOREM TypeCorrect == Spec => []TypeOK
<1>1. Init => TypeOK
  BY PoolAssumption DEF Init, TypeOK, Outcomes
<1>2. TypeOK /\ [Next]_vars => TypeOK'
  <2> SUFFICES ASSUME TypeOK, [Next]_vars  PROVE TypeOK'
    OBVIOUS
  <2>1. ASSUME NEW r \in Runs, Call(r)  PROVE TypeOK'
    <3>1. PICK n \in 1 .. MaxTries, sig \in BOOLEAN : Attempt(r, n, sig)
      BY <2>1 DEF Call
    <3>2. Len(held[r]) < n  BY <2>1 DEF Call, TypeOK
    <3> QED  BY <2>1, <3>1, <3>2, AttemptType DEF Call
  <2>2. ASSUME NEW r \in Runs, SettleOk(r)  PROVE TypeOK'
    BY <2>2, StopType DEF SettleOk, Outcomes
  <2>3. ASSUME NEW r \in Runs, SettleErr(r)  PROVE TypeOK'
    <3>1. tries[r] \in 1 .. MaxTries  BY DEF TypeOK
    <3>2. CASE \E why \in Outcomes : Stop(r, why)
      BY <2>3, <3>2, StopType DEF SettleErr
    <3>3. CASE Len(held[r]) < tries[r] /\ Attempt(r, tries[r], FALSE)
      BY <2>3, <3>1, <3>3, AttemptType DEF SettleErr
    <3> QED  BY <2>3, <3>2, <3>3 DEF SettleErr, Outcomes
  <2>4. ASSUME NEW r \in Runs, Abort(r)  PROVE TypeOK'
    BY <2>4 DEF Abort, TypeOK
  <2>5. ASSUME NEW i \in Nodes, NEW up \in BOOLEAN, SetEligible(i, up)  PROVE TypeOK'
    BY <2>5 DEF SetEligible, runVars, TypeOK
  <2>6. ASSUME NEW i \in Nodes, NEW w \in Weights, SetWeight(i, w)  PROVE TypeOK'
    BY <2>6 DEF SetWeight, runVars, TypeOK
  <2>7. CASE UNCHANGED vars
    BY <2>7 DEF vars, TypeOK
  <2> QED  BY <2>1, <2>2, <2>3, <2>4, <2>5, <2>6, <2>7 DEF Next, Settle
<1> QED  BY <1>1, <1>2, PTL DEF Spec

------------------------------------------------------------------------------
(* The inductive invariant *)

(* Net zero alone is not inductive: a release that lowers an endpoint's    *)
(* count once per dispatch gives back one run's share only because that    *)
(* run holds the endpoint once.                                            *)
IInv == TypeOK /\ DistinctFailover /\ NetZero

(* What a step does to the counts, the leases and the noted total, its     *)
(* three shapes: it leaves them alone, it takes one endpoint, or it gives  *)
(* back all.                                                               *)
Keeps == UNCHANGED <<inflight, held, total, leaked>>
Takes(r, i) ==
  /\ i \notin Holding(r)
  /\ inflight' = [inflight EXCEPT ![i] = @ + 1]
  /\ held' = [held EXCEPT ![r] = Append(@, i)]
  /\ total' = total + 1
  /\ leaked' = leaked
Gives(r) ==
  /\ inflight' = [i \in Nodes |-> IF i \in Holding(r) THEN inflight[i] - 1 ELSE inflight[i]]
  /\ held' = [held EXCEPT ![r] = <<>>]
  /\ Unnote(total, Len(held[r]))

(* An endpoint that a run holds is counted. *)
LEMMA HeldIsCounted ==
  ASSUME IInv, NEW r \in Runs, NEW i \in Nodes, i \in Holding(r)
  PROVE  inflight[i] >= 1
<1>1. IsFiniteSet(Holders(i))  BY PoolAssumption, FS_Subset DEF Holders
<1>2. Holders(i) # {}  BY DEF Holders
<1>3. Cardinality(Holders(i)) \in Nat /\ Cardinality(Holders(i)) # 0
  BY <1>1, <1>2, FS_CardinalityType, FS_EmptySet
<1> QED  BY <1>3 DEF IInv, NetZero

(* A run that stops gives back exactly what it holds. *)
LEMMA StopGives ==
  ASSUME IInv, NEW r \in Runs, NEW why, Stop(r, why)
  PROVE  Gives(r)
<1> USE DEF IInv
<1>1. ASSUME NEW i \in Nodes
      PROVE  Released(inflight, held[r])[i]
             = IF i \in Holding(r) THEN inflight[i] - 1 ELSE inflight[i]
  <2>1. Cardinality({k \in DOMAIN held[r] : held[r][k] = i})
        = IF i \in Holding(r) THEN 1 ELSE 0
    <3>1. held[r] \in Seq(Nodes)  BY DEF TypeOK
    <3>2. \A j, k \in DOMAIN held[r] : held[r][j] = held[r][k] => j = k
      BY DEF DistinctFailover
    <3> QED  BY <3>1, <3>2, OccursOnce DEF Holding
  <2>2. i \in Holding(r) => inflight[i] >= 1  BY HeldIsCounted
  <2>3. inflight[i] \in Nat  BY DEF TypeOK
  <2> QED  BY <2>1, <2>2, <2>3 DEF Released, Monus
<1> QED  BY <1>1 DEF Stop, Finish, Gives, Released

(* So does a run whose note(+1) throws, the dispatch it made included. *)
LEMMA DispatchThrowsGives ==
  ASSUME IInv, NEW r \in Runs, NEW i \in Nodes, i \notin Holding(r), DispatchThrows(r, i)
  PROVE  Gives(r)
<1> DEFINE inf == [inflight EXCEPT ![i] = @ + 1]
           h == Append(held[r], i)
<1> USE DEF IInv
<1>1. h \in Seq(Nodes) /\ \A j, k \in DOMAIN h : h[j] = h[k] => j = k
  BY AppendOnce DEF TypeOK, DistinctFailover, Holding
<1>2. Range(h) = Holding(r) \cup {i}
  BY AppendOnce DEF TypeOK, Holding
<1>3. ASSUME NEW j \in Nodes
      PROVE  Released(inf, h)[j] = IF j \in Holding(r) THEN inflight[j] - 1 ELSE inflight[j]
  <2> HIDE DEF h
  <2>1. Cardinality({k \in DOMAIN h : h[k] = j}) = IF j \in Range(h) THEN 1 ELSE 0
    BY <1>1, OccursOnce
  <2>2. j \in Holding(r) => inflight[j] >= 1  BY HeldIsCounted
  <2>3. inflight \in [Nodes -> Nat]  BY DEF TypeOK
  <2>4. inf[j] = IF j = i THEN inflight[j] + 1 ELSE inflight[j]  BY <2>3
  <2>5. Released(inf, h)[j] = Monus(inf[j], IF j \in Range(h) THEN 1 ELSE 0)
    BY <2>1 DEF Released
  <2> HIDE DEF inf
  <2> QED  BY <1>2, <2>2, <2>3, <2>4, <2>5 DEF Monus
<1>4. Released(inf, h) = [j \in Nodes |-> IF j \in Holding(r) THEN inflight[j] - 1 ELSE inflight[j]]
  BY <1>3 DEF Released
<1> QED  BY <1>4 DEF DispatchThrows, Finish, Gives

(* An attempt takes one untried endpoint, or gives everything back. *)
LEMMA AttemptShape ==
  ASSUME IInv, NEW r \in Runs, NEW n, NEW sig, Attempt(r, n, sig)
  PROVE  Gives(r) \/ \E i \in Nodes : Takes(r, i)
<1>1. ASSUME NEW why, Stop(r, why)  PROVE Gives(r)
  BY <1>1, StopGives
<1>2. ASSUME NEW i \in Selections(Range(held[r])) \ {NONE},
             Dispatch(r, i, n, sig) \/ DispatchThrows(r, i)
      PROVE  Gives(r) \/ \E j \in Nodes : Takes(r, j)
  <2>1. i \in Nodes /\ i \notin Holding(r)  BY SelectionsType DEF IInv, TypeOK, Holding
  <2>2. CASE Dispatch(r, i, n, sig)  BY <2>1, <2>2 DEF Dispatch, Takes
  <2>3. CASE DispatchThrows(r, i)  BY <2>1, <2>3, DispatchThrowsGives
  <2> QED  BY <1>2, <2>1, <2>2, <2>3
<1> QED  BY <1>1, <1>2 DEF Attempt

(* Every step of the system has one of the three shapes. *)
LEMMA StepShape ==
  ASSUME IInv, [Next]_vars
  PROVE  Keeps \/ \E r \in Runs : Gives(r) \/ \E i \in Nodes : Takes(r, i)
<1>1. ASSUME NEW r \in Runs, Call(r)  PROVE Gives(r) \/ \E i \in Nodes : Takes(r, i)
  BY <1>1, AttemptShape DEF Call
<1>2. ASSUME NEW r \in Runs, SettleOk(r)  PROVE Gives(r)
  BY <1>2, StopGives DEF SettleOk
<1>3. ASSUME NEW r \in Runs, SettleErr(r)  PROVE Gives(r) \/ \E i \in Nodes : Takes(r, i)
  BY <1>3, StopGives, AttemptShape DEF SettleErr
<1>4. ASSUME NEW r \in Runs, Abort(r)  PROVE Keeps
  BY <1>4 DEF Abort, Keeps
<1>5. ASSUME NEW i \in Nodes, NEW up \in BOOLEAN, SetEligible(i, up)  PROVE Keeps
  BY <1>5 DEF SetEligible, runVars, Keeps
<1>6. ASSUME NEW i \in Nodes, NEW w \in Weights, SetWeight(i, w)  PROVE Keeps
  BY <1>6 DEF SetWeight, runVars, Keeps
<1>7. CASE UNCHANGED vars  BY <1>7 DEF vars, Keeps
<1> QED  BY <1>1, <1>2, <1>3, <1>4, <1>5, <1>6, <1>7 DEF Next, Settle

------------------------------------------------------------------------------
(* Each shape preserves the invariant *)

(* The holders of endpoint i apart from run r. *)
Others(r, i) == Holders(i) \ {r}

(* The holders of an endpoint: run r, if it holds it, and the others. *)
LEMMA HoldersSplit ==
  ASSUME NEW r \in Runs, NEW i \in Nodes
  PROVE  /\ Cardinality(Others(r, i)) \in Nat
         /\ Cardinality(Holders(i))
            = Cardinality(Others(r, i)) + (IF i \in Holding(r) THEN 1 ELSE 0)
<1>1. IsFiniteSet(Holders(i))  BY PoolAssumption, FS_Subset DEF Holders
<1>2. r \in Holders(i) <=> i \in Holding(r)  BY DEF Holders
<1>3. Cardinality(Holders(i)) \in Nat  BY <1>1, FS_CardinalityType
<1>4. /\ IsFiniteSet(Others(r, i))
      /\ Cardinality(Others(r, i))
         = IF r \in Holders(i) THEN Cardinality(Holders(i)) - 1 ELSE Cardinality(Holders(i))
  BY <1>1, FS_RemoveElement DEF Others
<1>5. Cardinality(Others(r, i)) \in Nat  BY <1>4, FS_CardinalityType
<1> QED  BY <1>2, <1>3, <1>4, <1>5

(* The same split after a step that changes what run r holds only. *)
LEMMA HoldersSplitPrime ==
  ASSUME NEW r \in Runs, NEW i \in Nodes,
         \A q \in Runs \ {r} : held'[q] = held[q]
  PROVE  Cardinality(Holders(i)')
         = Cardinality(Others(r, i)) + (IF i \in Holding(r)' THEN 1 ELSE 0)
<1>1. IsFiniteSet(Holders(i)) /\ IsFiniteSet(Holders(i)')
  BY PoolAssumption, FS_Subset DEF Holders
<1>2. Holders(i)' = IF i \in Holding(r)' THEN Others(r, i) \cup {r} ELSE Others(r, i)
  BY DEF Holders, Others, Holding
<1>3. IsFiniteSet(Others(r, i)) /\ r \notin Others(r, i)
  BY <1>1, FS_RemoveElement DEF Others
<1>4. Cardinality(Others(r, i) \cup {r}) = Cardinality(Others(r, i)) + 1
  BY <1>3, FS_AddElement
<1>5. Cardinality(Others(r, i)) \in Nat  BY <1>3, FS_CardinalityType
<1> QED  BY <1>2, <1>4, <1>5

(* A step that takes and gives nothing keeps the invariant. *)
LEMMA KeepsInv ==
  ASSUME IInv, Keeps
  PROVE  (DistinctFailover /\ NetZero)'
<1>1. \A i \in Nodes : Holders(i)' = Holders(i)  BY DEF Keeps, Holders, Holding
<1> QED  BY <1>1 DEF Keeps, IInv, DistinctFailover, NetZero

(* Taking one endpoint keeps it. *)
LEMMA TakesInv ==
  ASSUME IInv, NEW r \in Runs, NEW i \in Nodes, Takes(r, i)
  PROVE  (DistinctFailover /\ NetZero)'
<1> USE DEF IInv
<1>1. held \in [Runs -> Seq(Nodes)] /\ inflight \in [Nodes -> Nat]  BY DEF TypeOK
<1>2. held'[r] = Append(held[r], i) /\ \A q \in Runs \ {r} : held'[q] = held[q]
  BY <1>1 DEF Takes
<1>3. DistinctFailover'
  <2>1. \A j, k \in DOMAIN held'[r] : held'[r][j] = held'[r][k] => j = k
    BY <1>1, <1>2, AppendOnce DEF Takes, Holding, DistinctFailover
  <2> QED  BY <1>2, <2>1 DEF DistinctFailover
<1>4. ASSUME NEW j \in Nodes  PROVE inflight'[j] = Cardinality(Holders(j)')
  <2>1. Holding(r)' = Holding(r) \cup {i}  BY <1>1, <1>2, AppendOnce DEF Holding
  <2>2. Cardinality(Holders(j)')
        = Cardinality(Others(r, j)) + (IF j \in Holding(r)' THEN 1 ELSE 0)
    BY <1>2, HoldersSplitPrime
  <2>3. /\ Cardinality(Others(r, j)) \in Nat
        /\ inflight[j] = Cardinality(Others(r, j)) + (IF j \in Holding(r) THEN 1 ELSE 0)
    BY HoldersSplit DEF NetZero
  <2>4. inflight'[j] = IF j = i THEN inflight[j] + 1 ELSE inflight[j]
    BY <1>1 DEF Takes
  <2> QED  BY <2>1, <2>2, <2>3, <2>4 DEF Takes
<1> QED  BY <1>3, <1>4 DEF NetZero

(* Giving everything back keeps it. *)
LEMMA GivesInv ==
  ASSUME IInv, NEW r \in Runs, Gives(r)
  PROVE  (DistinctFailover /\ NetZero)'
<1> USE DEF IInv
<1>1. held \in [Runs -> Seq(Nodes)] /\ inflight \in [Nodes -> Nat]  BY DEF TypeOK
<1>2. held'[r] = <<>> /\ \A q \in Runs \ {r} : held'[q] = held[q]
  BY <1>1 DEF Gives
<1>3. DistinctFailover'  BY <1>2 DEF DistinctFailover
<1>4. ASSUME NEW j \in Nodes  PROVE inflight'[j] = Cardinality(Holders(j)')
  <2>1. Holding(r)' = {}  BY <1>2 DEF Holding, Range
  <2>2. Cardinality(Holders(j)') = Cardinality(Others(r, j)) + 0
    BY <1>2, <2>1, HoldersSplitPrime
  <2>3. /\ Cardinality(Others(r, j)) \in Nat
        /\ inflight[j] = Cardinality(Others(r, j)) + (IF j \in Holding(r) THEN 1 ELSE 0)
    BY HoldersSplit DEF NetZero
  <2>4. inflight'[j] = IF j \in Holding(r) THEN inflight[j] - 1 ELSE inflight[j]
    BY DEF Gives
  <2> QED  BY <2>2, <2>3, <2>4
<1> QED  BY <1>3, <1>4 DEF NetZero

(* The three shapes together: the invariant always holds. *)
LEMMA Invariance == Spec => []IInv
<1>1. Init => DistinctFailover /\ NetZero
  <2> SUFFICES ASSUME Init  PROVE DistinctFailover /\ NetZero
    OBVIOUS
  <2>1. DistinctFailover  BY DEF Init, DistinctFailover
  <2>2. \A i \in Nodes : Holders(i) = {}  BY DEF Init, Holders, Holding, Range
  <2>3. NetZero  BY <2>2, FS_EmptySet DEF Init, NetZero
  <2> QED  BY <2>1, <2>3
<1>2. IInv /\ [Next]_vars => (DistinctFailover /\ NetZero)'
  BY StepShape, KeepsInv, TakesInv, GivesInv
<1>3. TypeOK /\ DistinctFailover /\ NetZero <=> IInv  BY DEF IInv
<1> QED  BY <1>1, <1>2, <1>3, TypeCorrect, PTL DEF Spec

(* Net-zero accounting (Pool.js run, finally): an endpoint's in-flight     *)
(* count is always the number of runs that hold it.                        *)
THEOREM NetZeroAlways == Spec => []NetZero
<1>1. IInv => NetZero  BY DEF IInv
<1> QED  BY <1>1, Invariance, PTL

(* Distinct failover (M2): no run dispatches twice to one endpoint. *)
THEOREM DistinctAlways == Spec => []DistinctFailover
<1>1. IInv => DistinctFailover  BY DEF IInv
<1> QED  BY <1>1, Invariance, PTL

------------------------------------------------------------------------------
(* The noted total *)

(* What a run gives back leaves the sum of the counts lower by that many,  *)
(* and there are that many to give back.                                   *)
LEMMA GivesSum ==
  ASSUME IInv, NEW r \in Runs, Gives(r)
  PROVE  /\ SumFunction(inflight) = SumFunction(inflight') + Len(held[r])
         /\ SumFunction(inflight) \in Nat /\ SumFunction(inflight') \in Nat
<1> USE DEF IInv
<1>1. IsFiniteSet(Nodes)  BY BelowFinite, PoolAssumption DEF Nodes
<1>2. Holding(r) \in SUBSET Nodes /\ Cardinality(Holding(r)) = Len(held[r])
  <2>1. held[r] \in Seq(Nodes)  BY DEF TypeOK
  <2>2. \A j, k \in DOMAIN held[r] : held[r][j] = held[r][k] => j = k
    BY DEF DistinctFailover
  <2>3. Cardinality(Holding(r)) = Len(held[r])  BY <2>1, <2>2, CountDistinct DEF Holding
  <2>4. Holding(r) \in SUBSET Nodes  BY <2>1 DEF Holding, Range
  <2> QED  BY <2>3, <2>4
<1>3. inflight \in [Nodes -> Nat]  BY DEF TypeOK
<1>4. inflight' \in [Nodes -> Nat]
  BY <1>3, HeldIsCounted DEF Gives
<1>5. \A i \in Nodes : inflight[i] = inflight'[i] + (IF i \in Holding(r) THEN 1 ELSE 0)
  BY <1>3 DEF Gives
<1> QED  BY <1>1, <1>2, <1>3, <1>4, <1>5, SumTaken

(* The noted total follows each shape.  It is never lowered below what is  *)
(* there, so the clamp at zero loses nothing.                              *)
LEMMA LockstepStep ==
  ASSUME IInv, NotedLockstep, [Next]_vars
  PROVE  NotedLockstep'
<1> USE DEF IInv
<1>1. IsFiniteSet(Nodes)  BY BelowFinite, PoolAssumption DEF Nodes
<1>2. inflight \in [Nodes -> Nat] /\ total \in Nat /\ leaked \in Nat  BY DEF TypeOK
<1>3. SumFunction(inflight) \in Nat  BY <1>1, <1>2, SumAllNat
<1>4. CASE Keeps  BY <1>4 DEF Keeps, NotedLockstep
<1>5. ASSUME NEW r \in Runs, NEW i \in Nodes, Takes(r, i)  PROVE NotedLockstep'
  <2>1. PICK v \in Nat : v = inflight[i] + 1  BY <1>2
  <2>2. inflight[i] \in Nat /\ inflight' = [inflight EXCEPT ![i] = v]
    BY <1>2, <1>5, <2>1 DEF Takes
  <2>3. SumFunction(inflight') = SumFunction(inflight) + (v - inflight[i])
    BY <1>1, <1>2, <2>2, SumAllExcept
  <2> QED  BY <1>2, <1>3, <1>5, <2>1, <2>2, <2>3 DEF Takes, NotedLockstep
<1>6. ASSUME NEW r \in Runs, Gives(r)  PROVE NotedLockstep'
  <2>1. Len(held[r]) \in Nat  BY DEF TypeOK
  <2>2. PICK bad \in 0 .. Len(held[r]) : /\ leaked' = leaked + bad
                                        /\ total' = Monus(total, Len(held[r]) - bad)
    BY <1>6, <2>1 DEF Gives, Unnote
  <2>3. /\ SumFunction(inflight) = SumFunction(inflight') + Len(held[r])
        /\ SumFunction(inflight') \in Nat
    BY <1>6, GivesSum
  <2> QED  BY <1>2, <2>1, <2>2, <2>3 DEF NotedLockstep, Monus
<1> QED  BY <1>4, <1>5, <1>6, StepShape

(* The total the balancer is told is the sum of the in-flight counts, plus *)
(* the note(-1) that threw: no note is ever sent unpaired, whatever fails  *)
(* (Pool.js run, finally; BoundedLoad.assertConsistent).                   *)
THEOREM NotedLockstepAlways == Spec => []NotedLockstep
<1>1. Init => NotedLockstep
  <2>1. SumFunction([i \in Nodes |-> 0]) = 0
    BY BelowFinite, SumAllZero, PoolAssumption DEF Nodes
  <2> QED  BY <2>1 DEF Init, NotedLockstep
<1> QED  BY <1>1, LockstepStep, Invariance, PTL DEF Spec

------------------------------------------------------------------------------
(* The failover choice spills in proportion to weight *)

(* The running sum of the candidates C before and up to i. *)
Before(C, i) == WeightOf({j \in C : j < i})
UpTo(C, i) == WeightOf({j \in C : j <= i})

(* The running sum grows by each candidate's weight, from 0 to the total. *)
LEMMA RunningSum ==
  ASSUME weight \in [Nodes -> Weights], NEW C \in SUBSET Nodes, NEW i \in C
  PROVE  /\ weight[i] \in Nat /\ WeightOf(C) \in Nat
         /\ Before(C, i) \in Nat /\ UpTo(C, i) \in Nat
         /\ UpTo(C, i) = Before(C, i) + weight[i]
         /\ UpTo(C, i) <= WeightOf(C)
         /\ (\A j \in C : j <= i) => UpTo(C, i) = WeightOf(C)
         /\ \A k \in C : i < k => UpTo(C, i) <= Before(C, k)
         /\ (\A j \in C : ~(j < i)) => Before(C, i) = 0
         /\ \A k \in C : k < i /\ (\A j \in C : j < i => j <= k) => Before(C, i) = UpTo(C, k)
<1>1. \A j \in Nodes : weight[j] \in Nat  BY PoolAssumption
<1>2. \A S \in SUBSET Nodes : IsFiniteSet(S)
  BY CountInRange, PoolAssumption DEF Nodes
<1>3. \A S \in SUBSET Nodes : WeightOf(S) \in Nat
  BY <1>1, <1>2, SumNat DEF WeightOf
<1>4. \A k \in C : {j \in C : j <= k} \in SUBSET Nodes /\ {j \in C : j < k} \in SUBSET Nodes
  OBVIOUS
<1>5. \A j \in C : j \in Int  BY DEF Nodes
<1>6. UpTo(C, i) = Before(C, i) + weight[i]
  <2>1. PICK S : S = {j \in C : j <= i}  OBVIOUS
  <2>2. i \in S /\ S \in SUBSET Nodes /\ S \ {i} = {j \in C : j < i}
    <3>1. \A j \in C : j < i <=> j <= i /\ j # i  BY <1>5
    <3>2. i \in S  BY <1>5, <2>1
    <3> QED  BY <2>1, <3>1, <3>2
  <2>3. SumFunctionOnSet(weight, S) = weight[i] + SumFunctionOnSet(weight, S \ {i})
    <3>1. IsFiniteSet(S) /\ \A j \in S : weight[j] \in Int  BY <1>1, <1>2, <2>2
    <3> QED  BY <2>2, <3>1, SumRemove
  <2>4. SumFunctionOnSet(weight, S \ {i}) \in Nat  BY <1>3, <1>4, <2>2 DEF WeightOf
  <2>5. UpTo(C, i) = SumFunctionOnSet(weight, S)  BY <2>1 DEF UpTo, WeightOf
  <2>6. Before(C, i) = SumFunctionOnSet(weight, S \ {i})  BY <2>2 DEF Before, WeightOf
  <2>7. weight[i] \in Nat  BY <1>1
  <2> QED  BY <2>3, <2>4, <2>5, <2>6, <2>7
<1>7. \A S \in SUBSET Nodes, T \in SUBSET Nodes : T \subseteq S => WeightOf(T) <= WeightOf(S)
  BY <1>1, <1>2, SumPart DEF WeightOf
<1>8. UpTo(C, i) <= WeightOf(C)  BY <1>4, <1>7 DEF UpTo
<1>9. (\A j \in C : j <= i) => UpTo(C, i) = WeightOf(C)
  <2>1. ASSUME \A j \in C : j <= i  PROVE {j \in C : j <= i} = C  BY <2>1
  <2> QED  BY <2>1 DEF UpTo
<1>10. ASSUME NEW k \in C, i < k  PROVE UpTo(C, i) <= Before(C, k)
  <2>1. {j \in C : j <= i} \subseteq {j \in C : j < k}
    <3>1. \A j \in C : j <= i => j < k  BY <1>10, <1>5
    <3> QED  BY <3>1
  <2> QED  BY <1>4, <1>7, <2>1 DEF UpTo, Before
<1>11. ASSUME \A j \in C : ~(j < i)  PROVE Before(C, i) = 0
  <2>1. {j \in C : j < i} = {}  BY <1>11
  <2> QED  BY <2>1, SumEmpty DEF Before, WeightOf
<1>12. ASSUME NEW k \in C, k < i, \A j \in C : j < i => j <= k
       PROVE  Before(C, i) = UpTo(C, k)
  <2>1. {j \in C : j < i} = {j \in C : j <= k}
    <3>1. \A j \in C : j < i <=> j <= k  BY <1>12, <1>5
    <3> QED  BY <3>1
  <2> QED  BY <2>1 DEF Before, UpTo
<1> QED
  BY <1>1, <1>3, <1>4, <1>6, <1>8, <1>9, <1>10, <1>11, <1>12 DEF Before, UpTo

(* A hash chooses i exactly when its target lies in i's part of the total. *)
LEMMA ChosenByPart ==
  ASSUME weight \in [Nodes -> Weights], eligible \subseteq Nodes, NEW tried,
         NEW i \in Candidates(tried), NEW h \in Hashes
  PROVE  LET C == Candidates(tried)
         IN  ChooseUntried(tried, h) = i
             <=> /\ HashRange * Before(C, i) <= h * WeightOf(C)
                 /\ h * WeightOf(C) < HashRange * UpTo(C, i)
<1> DEFINE C == Candidates(tried)
           W == WeightOf(C)
<1>1. C \in SUBSET Nodes /\ i \in C /\ \A j \in C : weight[j] > 0  BY DEF Candidates
<1> HIDE DEF C
<1>2. HashRange \in Nat /\ h \in Nat /\ h < HashRange  BY PoolAssumption DEF Hashes
<1>3. W \in Nat  BY <1>1, RunningSum
<1>4. \A j \in C : UpTo(C, j) \in Nat /\ Before(C, j) \in Nat
  BY <1>1, RunningSum
<1> HIDE DEF W
<1>5. PICK t \in Nat : t = h * W  BY <1>2, <1>3
<1>6. \A j \in C : Exceeds(C, h, j) <=> t < HashRange * UpTo(C, j)
  BY <1>5 DEF Exceeds, UpTo, W
<1>7. ASSUME NEW j \in C, NEW k \in C, j < k, HashRange * Before(C, k) <= t
      PROVE  ~Exceeds(C, h, j)
  <2>1. UpTo(C, j) <= Before(C, k)  BY <1>1, <1>7, RunningSum
  <2>2. UpTo(C, j) * HashRange <= Before(C, k) * HashRange
    BY <1>2, <1>4, <2>1, MulMono
  <2>3. HashRange * UpTo(C, j) \in Nat /\ HashRange * Before(C, k) \in Nat
    BY <1>2, <1>4
  <2>4. HashRange * UpTo(C, j) <= HashRange * Before(C, k)  BY <1>2, <1>4, <2>2
  <2> QED  BY <1>6, <1>7, <2>3, <2>4
<1>8. ASSUME NEW k \in C, Crosses(C, h, k)  PROVE HashRange * Before(C, k) <= t
  <2>1. CASE \A j \in C : ~(j < k)
    <3>1. Before(C, k) = 0  BY <1>1, <2>1, RunningSum
    <3> QED  BY <1>2, <3>1
  <2>2. CASE \E j \in C : j < k
    <3>1. PICK S : S = {j \in C : j < k}  OBVIOUS
    <3>2. PICK m \in S : \A j \in S : j <= m
      <4>1. S \in SUBSET Nodes /\ S # {}  BY <1>1, <2>2, <3>1
      <4> QED  BY <4>1, LargestNode
    <3>3. m \in C /\ m < k /\ \A j \in C : j < k => j <= m  BY <3>1, <3>2
    <3>4. Before(C, k) = UpTo(C, m)  BY <1>1, <3>3, RunningSum
    <3>5. ~(t < HashRange * UpTo(C, m))  BY <1>6, <1>8, <3>3 DEF Crosses
    <3>6. HashRange * UpTo(C, m) \in Nat  BY <1>2, <1>4, <3>3
    <3> QED  BY <3>4, <3>5, <3>6
  <2> QED  BY <2>1, <2>2
<1>9. \E k \in C : Crosses(C, h, k)
  <2>1. PICK z \in C : \A j \in C : j <= z  BY <1>1, LargestNode
  <2>2. UpTo(C, z) = W /\ weight[z] \in Nat /\ UpTo(C, z) = Before(C, z) + weight[z]
    BY <1>1, <2>1, RunningSum DEF W
  <2>3. W > 0  BY <1>1, <1>4, <2>2
  <2>4. t < HashRange * W
    <3>1. (h + 1) * W <= HashRange * W  BY <1>2, <1>3, MulMono
    <3>2. (h + 1) * W = h * W + W  BY <1>2, <1>3
    <3>3. HashRange * W \in Nat  BY <1>2, <1>3
    <3> QED  BY <1>3, <1>5, <2>3, <3>1, <3>2, <3>3
  <2>5. PICK S : S = {j \in C : Exceeds(C, h, j)}  OBVIOUS
  <2>6. S \in SUBSET Nat /\ S # {}
    <3>1. Exceeds(C, h, z)  BY <1>6, <2>2, <2>4
    <3>2. z \in S  BY <2>5, <3>1
    <3>3. C \in SUBSET Nat  BY <1>1 DEF Nodes
    <3> QED  BY <2>5, <3>2, <3>3
  <2>7. PICK k \in S : \A j \in S : k <= j  BY <2>6, LeastExists
  <2>8. \A j \in C : j < k => j \notin S
    BY <1>1, <2>6, <2>7 DEF Nodes
  <2> QED  BY <2>5, <2>7, <2>8 DEF Crosses
<1>10. ChooseUntried(tried, h) \in C /\ Crosses(C, h, ChooseUntried(tried, h))
  BY <1>1, <1>9 DEF ChooseUntried, C
<1>11. \A j \in C, k \in C : Crosses(C, h, j) /\ Crosses(C, h, k) => j = k
  BY <1>1 DEF Crosses, Nodes
<1>12. ASSUME HashRange * Before(C, i) <= t, t < HashRange * UpTo(C, i)
       PROVE  Crosses(C, h, i)
  BY <1>1, <1>6, <1>7, <1>12 DEF Crosses
<1>13. Crosses(C, h, i) => HashRange * Before(C, i) <= t /\ t < HashRange * UpTo(C, i)
  BY <1>1, <1>6, <1>8 DEF Crosses
<1>14. ChooseUntried(tried, h) = i <=> Crosses(C, h, i)
  BY <1>1, <1>10, <1>11
<1> QED  BY <1>5, <1>12, <1>13, <1>14 DEF C, W

(* Of the hashes, each candidate gets its weight's share, to within one:   *)
(* the fallback spills the load of an endpoint that failed over the others *)
(* in proportion to their weights (Pool.js _chooseUntried, K10).           *)
THEOREM SpillAlwaysProportional == Spec => []SpillProportional
<1>1. TypeOK => SpillProportional
  <2> SUFFICES ASSUME TypeOK, NEW r \in Runs, NEW i \in Candidates(Holding(r))
               PROVE  LET C == Candidates(Holding(r))
                          W == WeightOf(C)
                          hits == Cardinality({h \in Hashes : ChooseUntried(Holding(r), h) = i})
                      IN  /\ hits * W - weight[i] * HashRange < W
                          /\ weight[i] * HashRange - hits * W < W
    BY DEF SpillProportional
  <2> DEFINE C == Candidates(Holding(r))
             W == WeightOf(C)
             a == HashRange * Before(C, i)
             b == HashRange * UpTo(C, i)
  <2>1. weight \in [Nodes -> Weights] /\ eligible \subseteq Nodes  BY DEF TypeOK
  <2>2. C \in SUBSET Nodes /\ i \in C /\ weight[i] > 0
    BY <2>1 DEF Candidates
  <2>3. {h \in Hashes : ChooseUntried(Holding(r), h) = i}
        = {h \in 0 .. HashRange-1 : a <= h * W /\ h * W < b}
    BY <2>1, ChosenByPart DEF Hashes
  <2> HIDE DEF C
  <2>4. /\ weight[i] \in Nat /\ W \in Nat /\ HashRange \in Nat
        /\ Before(C, i) \in Nat /\ UpTo(C, i) \in Nat
        /\ UpTo(C, i) = Before(C, i) + weight[i]
        /\ UpTo(C, i) <= W
    BY <2>1, <2>2, RunningSum, PoolAssumption
  <2> HIDE DEF W
  <2>5. W > 0  BY <2>2, <2>4
  <2>6. a \in Nat /\ b \in Nat /\ HashRange * W \in Nat  BY <2>4
  <2>7. b - a = weight[i] * HashRange
    <3>1. HashRange * (Before(C, i) + weight[i])
          = HashRange * Before(C, i) + weight[i] * HashRange  BY <2>4
    <3>2. weight[i] * HashRange \in Nat  BY <2>4
    <3> QED  BY <2>4, <2>6, <3>1, <3>2
  <2>8. weight[i] * HashRange \in Nat  BY <2>4
  <2>9. b <= HashRange * W
    <3>1. UpTo(C, i) * HashRange <= W * HashRange  BY <2>4, MulMono
    <3> QED  BY <2>4, <3>1
  <2> HIDE DEF a, b
  <2>10. a <= b  BY <2>6, <2>7, <2>8
  <2>11. LET hits == Cardinality({h \in 0 .. HashRange-1 : a <= h * W /\ h * W < b})
         IN  hits * W - (b - a) < W /\ (b - a) - hits * W < W
    <3>1. W \in Nat \ {0} /\ HashRange \in Nat  BY <2>4, <2>5
    <3> QED  BY <2>6, <2>9, <2>10, <3>1, MultiplesBetween
  <2> QED  BY <2>3, <2>7, <2>11 DEF C, W
<1> QED  BY <1>1, TypeCorrect, PTL

------------------------------------------------------------------------------
(* What each dispatch and each end of a run is decided on *)

(* A dispatch in this step, and an end in this step, of run r. *)
FreshDispatch(r) ==
  Len(held'[r]) > Len(held[r]) =>
    ~aborted'[r] /\ held'[r][Len(held'[r])] \in Pickable
HonestEnd(r) ==
  outcome'[r] # outcome[r] =>
    /\ outcome'[r] = "exhausted" => Len(held[r]) = tries[r]
    /\ outcome'[r] = "spent" => Pickable \subseteq Holding(r)
    /\ outcome'[r] = "none" => Pickable = {}
Decided == \A r \in Runs : FreshDispatch(r) /\ HonestEnd(r)

(* Nothing to select: nothing is up with weight, or all of it was tried. *)
LEMMA NothingSelected ==
  ASSUME TypeOK, NEW r \in Runs, NONE \in Selections(Range(held[r]))
  PROVE  IF held[r] = <<>> THEN Pickable = {} ELSE Pickable \subseteq Holding(r)
<1>1. Pickable \subseteq Nodes /\ NONE \notin Nodes /\ held[r] \in Seq(Nodes)
  <2>1. Pickable \subseteq Nodes /\ held[r] \in Seq(Nodes)  BY DEF TypeOK, Pickable
  <2>2. NONE \notin Nodes  BY PoolAssumption DEF Nodes, NONE
  <2> QED  BY <2>1, <2>2
<1>2. CASE held[r] = <<>>
  <2>1. Range(held[r]) = {}  BY <1>2 DEF Range
  <2> QED  BY <1>1, <1>2, <2>1 DEF Selections
<1>3. CASE held[r] # <<>>
  <2>1. 1 \in DOMAIN held[r]  BY <1>1, <1>3
  <2>2. Range(held[r]) # {}  BY <2>1 DEF Range
  <2>3. PICK h \in Hashes : ChooseUntried(Range(held[r]), h) = NONE
    BY <1>1, <2>2 DEF Selections
  <2>4. eligible \subseteq Nodes  BY DEF TypeOK
  <2>5. Candidates(Range(held[r])) \subseteq Nodes  BY <2>4 DEF Candidates
  <2>6. Candidates(Range(held[r])) = {}
    BY <1>1, <2>3, <2>4, <2>5, ChooseUntriedType
  <2> QED  BY <1>3, <2>6 DEF Candidates, Pickable, Holding
<1> QED  BY <1>2, <1>3

(* A run that ends dispatches nothing, and the others do nothing. *)
LEMMA FinishDecided ==
  ASSUME TypeOK, NEW r \in Runs, NEW why, NEW inf, NEW h, NEW tot, NEW n,
         Finish(r, why, inf, h, tot, n),
         why = "exhausted" => Len(held[r]) = tries[r],
         why = "spent" => Pickable \subseteq Holding(r),
         why = "none" => Pickable = {}
  PROVE  Decided
<1>1. held \in [Runs -> Seq(Nodes)] /\ outcome \in [Runs -> Outcomes]  BY DEF TypeOK
<1>2. /\ held'[r] = <<>> /\ outcome'[r] = why
      /\ \A q \in Runs \ {r} : held'[q] = held[q] /\ outcome'[q] = outcome[q]
  BY <1>1 DEF Finish
<1>3. \A q \in Runs : Len(held[q]) \in Nat  BY <1>1
<1>4. \A q \in Runs : ~(Len(held'[q]) > Len(held[q]))
  <2>1. Len(<<>>) = 0  OBVIOUS
  <2> QED  BY <1>2, <1>3, <2>1
<1>5. \A q \in Runs : FreshDispatch(q)  BY <1>4 DEF FreshDispatch
<1>6. \A q \in Runs : HonestEnd(q)  BY <1>2 DEF HonestEnd
<1> QED  BY <1>5, <1>6 DEF Decided

(* A dispatch goes to what was selected in this very step. *)
LEMMA DispatchDecided ==
  ASSUME TypeOK, NEW r \in Runs, NEW n, NEW i \in Pickable, Dispatch(r, i, n, FALSE)
  PROVE  Decided
<1>1. /\ held \in [Runs -> Seq(Nodes)] /\ outcome \in [Runs -> Outcomes]
      /\ aborted \in [Runs -> BOOLEAN] /\ i \in Nodes
  BY DEF TypeOK, Pickable
<1>2. /\ held'[r] = Append(held[r], i) /\ outcome'[r] = "new" /\ ~aborted'[r]
      /\ \A q \in Runs \ {r} : held'[q] = held[q] /\ outcome'[q] = outcome[q]
  BY <1>1 DEF Dispatch
<1>3. held'[r][Len(held'[r])] = i
  <2>1. PICK s \in Seq(Nodes) : s = held[r]  BY <1>1
  <2>2. Append(s, i)[Len(Append(s, i))] = i  OBVIOUS
  <2> QED  BY <1>2, <2>1, <2>2
<1>4. \A q \in Runs \ {r} : ~(Len(held'[q]) > Len(held[q]))  BY <1>1, <1>2
<1>5. \A q \in Runs : FreshDispatch(q)  BY <1>2, <1>3, <1>4 DEF FreshDispatch
<1>6. \A q \in Runs : HonestEnd(q)  BY <1>2 DEF HonestEnd
<1> QED  BY <1>5, <1>6 DEF Decided

LEMMA AttemptDecided ==
  ASSUME TypeOK, NEW r \in Runs, NEW n, NEW sig \in BOOLEAN, Attempt(r, n, sig)
  PROVE  Decided
<1>1. CASE \E why \in {"aborted", "clock", "hook"} : Stop(r, why)
  BY <1>1, FinishDecided DEF Stop
<1>2. ASSUME ~sig, NEW i \in Selections(Range(held[r])) \ {NONE}, Dispatch(r, i, n, sig)
      PROVE  Decided
  <2>1. i \in Pickable  BY SelectionsType DEF TypeOK
  <2>2. sig = FALSE  BY <1>2
  <2> QED  BY <1>2, <2>1, <2>2, DispatchDecided
<1>3. ASSUME NEW i, DispatchThrows(r, i)  PROVE Decided
  BY <1>3, FinishDecided DEF DispatchThrows
<1>4. ASSUME NONE \in Selections(Range(held[r])),
             Stop(r, IF held[r] = <<>> THEN "none" ELSE "spent")
      PROVE  Decided
  <2>1. IF held[r] = <<>> THEN Pickable = {} ELSE Pickable \subseteq Holding(r)
    BY <1>4, NothingSelected
  <2>2. CASE held[r] = <<>>  BY <1>4, <2>1, <2>2, FinishDecided DEF Stop
  <2>3. CASE held[r] # <<>>  BY <1>4, <2>1, <2>3, FinishDecided DEF Stop
  <2> QED  BY <2>2, <2>3
<1> QED  BY <1>1, <1>2, <1>3, <1>4 DEF Attempt

LEMMA StepDecided == TypeOK /\ [Next]_vars => Decided
<1> SUFFICES ASSUME TypeOK, [Next]_vars  PROVE Decided
  OBVIOUS
<1>1. ASSUME UNCHANGED <<held, outcome>>  PROVE Decided
  <2>1. \A r \in Runs : Len(held[r]) \in Nat  BY DEF TypeOK
  <2> QED  BY <1>1, <2>1 DEF Decided, FreshDispatch, HonestEnd
<1>2. ASSUME NEW r \in Runs, Call(r)  PROVE Decided
  BY <1>2, AttemptDecided DEF Call
<1>3. ASSUME NEW r \in Runs, SettleOk(r)  PROVE Decided
  BY <1>3, FinishDecided DEF SettleOk, Stop
<1>4. ASSUME NEW r \in Runs, SettleErr(r)  PROVE Decided
  <2>1. CASE \E why \in {"aborted", "fnError"} : Stop(r, why)
    BY <2>1, FinishDecided DEF Stop
  <2>2. CASE Len(held[r]) >= tries[r] /\ Stop(r, "exhausted")
    <3>1. pc[r] = "await"  BY <1>4 DEF SettleErr
    <3>2. Len(held[r]) \in 1 .. tries[r] /\ tries[r] \in 1 .. MaxTries  BY <3>1 DEF TypeOK
    <3>3. Len(held[r]) = tries[r]  BY <2>2, <3>2, PoolAssumption
    <3> QED  BY <2>2, <3>3, FinishDecided DEF Stop
  <2>3. CASE Attempt(r, tries[r], FALSE)  BY <2>3, AttemptDecided
  <2> QED  BY <1>4, <2>1, <2>2, <2>3 DEF SettleErr
<1>5. ASSUME NEW r \in Runs, Abort(r)  PROVE Decided
  BY <1>1, <1>5 DEF Abort
<1>6. ASSUME NEW i \in Nodes, NEW up \in BOOLEAN, SetEligible(i, up)  PROVE Decided
  BY <1>1, <1>6 DEF SetEligible, runVars
<1>7. ASSUME NEW i \in Nodes, NEW w \in Weights, SetWeight(i, w)  PROVE Decided
  BY <1>1, <1>7 DEF SetWeight, runVars
<1>8. CASE UNCHANGED vars  BY <1>1, <1>8 DEF vars, runVars
<1> QED  BY <1>2, <1>3, <1>4, <1>5, <1>6, <1>7, <1>8 DEF Next, Settle

(* Pool.run decides each dispatch on the state of the step that makes it:  *)
(* the signal has not aborted, and the endpoint is up and has weight, even *)
(* when fallback and re-picks follow an await (Pool.js run, _chooseUntried)*)
THEOREM DispatchesFreshAlways == Spec => DispatchesOnFreshState
<1>1. Decided => [\A r \in Runs : Len(held'[r]) > Len(held[r]) =>
                    LET i == held'[r][Len(held'[r])]
                    IN  ~aborted'[r] /\ i \in eligible /\ weight[i] > 0]_vars
  BY DEF Decided, FreshDispatch, Pickable
<1> QED  BY <1>1, StepDecided, TypeCorrect, PTL DEF Spec, DispatchesOnFreshState

(* Pool.run gives up only when the attempts are used up or every endpoint  *)
(* up with weight was tried, and reports that there is none only when      *)
(* there is none (Pool.js run, LITE_PICK_NONE and the break).              *)
THEOREM GivesUpAlways == Spec => GivesUpOnlyWhenSpent
<1>1. Decided => [\A r \in Runs : outcome'[r] # outcome[r] =>
                    CASE outcome'[r] = "exhausted" -> Len(held[r]) = tries[r]
                      [] outcome'[r] = "spent" -> Pickable \subseteq Holding(r)
                      [] outcome'[r] = "none" -> Pickable = {}
                      [] OTHER -> TRUE]_vars
  BY DEF Decided, HonestEnd
<1> QED  BY <1>1, StepDecided, TypeCorrect, PTL DEF Spec, GivesUpOnlyWhenSpent

------------------------------------------------------------------------------
(* Refinement *)

(* Pool.run's sequences, flags and clamped counters implement the lease:   *)
(* endpoints are taken one at a time and all given back at once.           *)
THEOREM ImplementsLease == Spec => LeaseSpec
<1>1. Init => L!Init
  BY DEF Init, L!Init, Range
<1>2. IInv /\ [Next]_vars => [L!Next]_(L!vars)
  <2> SUFFICES ASSUME IInv, [Next]_vars  PROVE [L!Next]_(L!vars)
    OBVIOUS
  <2>1. held \in [Runs -> Seq(Nodes)] /\ inflight \in [Nodes -> Nat]
    BY DEF IInv, TypeOK
  <2>2. CASE Keeps  BY <2>2 DEF Keeps, L!vars
  <2>3. ASSUME NEW r \in Runs, NEW i \in Nodes, Takes(r, i)  PROVE L!Acquire(r, i)
    <3>1. Range(held'[r]) = Range(held[r]) \cup {i}
      BY <2>1, <2>3, AppendOnce DEF Takes
    <3>2. \A q \in Runs \ {r} : held'[q] = held[q]  BY <2>1, <2>3 DEF Takes
    <3>3. [q \in Runs |-> Range(held'[q])]
          = [[q \in Runs |-> Range(held[q])] EXCEPT ![r] = @ \cup {i}]
      BY <3>1, <3>2
    <3> QED  BY <2>3, <3>3 DEF Takes, Holding, L!Acquire
  <2>4. ASSUME NEW r \in Runs, Gives(r)  PROVE L!ReleaseAll(r)
    <3>1. held'[r] = <<>> /\ \A q \in Runs \ {r} : held'[q] = held[q]
      BY <2>1, <2>4 DEF Gives
    <3>2. Range(held'[r]) = {}  BY <3>1 DEF Range
    <3>3. [q \in Runs |-> Range(held'[q])]
          = [[q \in Runs |-> Range(held[q])] EXCEPT ![r] = {}]
      BY <3>1, <3>2
    <3> QED  BY <2>4, <3>3 DEF Gives, Holding, L!ReleaseAll
  <2> QED  BY <2>2, <2>3, <2>4, StepShape DEF L!Next
<1> QED  BY <1>1, <1>2, Invariance, PTL DEF Spec, LeaseSpec, L!Spec
==============================================================================
