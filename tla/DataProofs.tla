------------------------------ MODULE DataProofs ------------------------------
(***************************************************************************)
(* What the proofs about the components share: facts about the data they   *)
(* are built from.                                                         *)
(*                                                                         *)
(* Induction comes first, stated for a set rather than for an operator: a  *)
(* set of naturals, or a family of subsets, that is closed under the step  *)
(* has everything.  With it the sums the modules are written with          *)
(* (SumFunctionOnSet, a fold) can be reasoned about: the fold's recursion  *)
(* has one solution, and the value does not depend on the order.  Then     *)
(* counts; sequences without repetition; rings, multiples and rests, up to *)
(* the fact the Maglev table rests on, that steps of one length around a   *)
(* prime number of places come everywhere; and last the generator of Prng: *)
(* one step is a permutation of the 32-bit words that leaves 0, and only   *)
(* 0, where it is.                                                         *)
(***************************************************************************)
EXTENDS Prng, Sequences, Functions, FiniteSetTheorems, WellFoundedInduction, TLAPS

------------------------------------------------------------------------------
(* Induction *)

(* A set of natural numbers has a least element: among the sets of its     *)
(* members up to some y, one is minimal.                                   *)
LEMMA LeastExists ==
  ASSUME NEW T \in SUBSET Nat, T # {}
  PROVE  \E x \in T : \A y \in T : x <= y
<1> DEFINE R == OpToRel(<, Nat)
<1>1. \E x \in T : \A y \in T : <<y, x>> \notin R
  <2> HIDE DEF R
  <2>1. IsWellFoundedOn(R, Nat)
    BY NatLessThanWellFounded DEF R
  <2> QED
    BY <2>1, WFMin
<1>2. PICK x \in T : \A y \in T : ~(y < x)
  BY <1>1 DEF OpToRel
<1> QED
  BY <1>2

(* Induction, for a set that is given as such. *)
LEMMA NatInduct ==
  ASSUME NEW T \in SUBSET Nat, 0 \in T, \A n \in T : n + 1 \in T
  PROVE  T = Nat
<1> SUFFICES ASSUME Nat \ T # {} PROVE FALSE
  OBVIOUS
<1>1. PICK x \in Nat \ T : \A y \in Nat \ T : x <= y
  BY LeastExists
<1>2. x # 0 /\ x - 1 \in Nat
  BY <1>1
<1>3. x - 1 \in T
  BY <1>1, <1>2
<1> QED
  BY <1>1, <1>2, <1>3

(* A family that has a subset of S whenever it has all the sets one        *)
(* element smaller has S itself, if S is finite.                           *)
LEMMA SubsetInduct ==
  ASSUME NEW S, IsFiniteSet(S), NEW F,
         \A T \in SUBSET S : (\A x \in T : T \ {x} \in F) => T \in F
  PROVE  S \in F
<1> DEFINE Small == {n \in Nat : \A T \in SUBSET S : Cardinality(T) = n => T \in F}
<1>1. \A T \in SUBSET S : IsFiniteSet(T) /\ Cardinality(T) \in Nat
  BY FS_Subset, FS_CardinalityType
<1>2. 0 \in Small
  BY <1>1, FS_EmptySet
<1>3. ASSUME NEW n \in Small PROVE n + 1 \in Small
  <2> SUFFICES ASSUME NEW T \in SUBSET S, Cardinality(T) = n + 1, NEW x \in T
               PROVE  T \ {x} \in F
    OBVIOUS
  <2>1. Cardinality(T \ {x}) = Cardinality(T) - 1 /\ n \in Nat
    BY <1>1, FS_RemoveElement
  <2> QED
    BY <2>1
<1>4. Small = Nat
  <2> HIDE DEF Small
  <2>1. Small \subseteq Nat
    BY DEF Small
  <2> QED
    BY <1>2, <1>3, <2>1, NatInduct
<1> QED
  BY <1>1, <1>4

(* A family of subsets of S that has the empty set, and any set that is    *)
(* one element larger than a member, has S itself, if S is finite.         *)
LEMMA SetInduct ==
  ASSUME NEW S, IsFiniteSet(S), NEW F, {} \in F,
         \A T \in SUBSET S, x \in S : T \in F /\ x \notin T => T \cup {x} \in F
  PROVE  S \in F
<1>1. ASSUME NEW T \in SUBSET S, \A x \in T : T \ {x} \in F PROVE T \in F
  <2>1. CASE T = {}
    BY <2>1
  <2>2. CASE T # {}
    <3>1. PICK x \in T : T \ {x} \in F
      BY <1>1, <2>2
    <3>2. T = (T \ {x}) \cup {x} /\ T \ {x} \in SUBSET S
      OBVIOUS
    <3> QED
      BY <3>1, <3>2
  <2> QED
    BY <2>1, <2>2
<1> QED
  BY <1>1, SubsetInduct

(* In a finite set one element has the most. *)
LEMMA MostExists ==
  ASSUME NEW S, IsFiniteSet(S), S # {}, NEW f, \A x \in S : f[x] \in Int
  PROVE  \E x \in S : \A y \in S : f[y] <= f[x]
<1> DEFINE F == {T \in SUBSET S : T # {} => \E x \in T : \A y \in T : f[y] <= f[x]}
<1>1. {} \in F
  OBVIOUS
<1>2. ASSUME NEW T \in SUBSET S, NEW z \in S, T \in F, z \notin T PROVE T \cup {z} \in F
  <2>1. CASE T = {}
    <3>1. f[z] <= f[z]
      OBVIOUS
    <3> QED
      BY <2>1, <3>1
  <2>2. CASE T # {}
    <3>1. PICK x \in T : \A y \in T : f[y] <= f[x]
      BY <1>2, <2>2
    <3>2. CASE f[z] <= f[x]
      BY <3>1, <3>2
    <3>3. CASE ~(f[z] <= f[x])
      <4>1. \A y \in T \cup {z} : f[y] <= f[z]
        BY <3>1, <3>3
      <4> QED
        BY <4>1
    <3> QED
      BY <3>2, <3>3
  <2> QED
    BY <2>1, <2>2
<1>3. S \in F
  <2> HIDE DEF F
  <2> QED
    BY <1>1, <1>2, SetInduct
<1> QED
  BY <1>3

------------------------------------------------------------------------------
(* Sums *)

(* The recursion by which the library sums f over a set, for the sets in D. *)
One(s) == CHOOSE x \in s : TRUE
SumsUp(g, f, D) == g = [s \in D |-> IF s = {} THEN 0 ELSE f[One(s)] + g[s \ {One(s)}]]

LEMMA SumUnfold ==
  ASSUME NEW f, NEW S
  PROVE  SumFunctionOnSet(f, S) = (CHOOSE g : SumsUp(g, f, SUBSET S))[S]
  BY DEF SumFunctionOnSet, FoldFunctionOnSet, MapThenFoldSet, SumsUp, One

(* The recursion has a solution: one for the sets of up to n elements, for *)
(* any n.                                                                  *)
LEMMA SumsUpExists ==
  ASSUME NEW f, NEW S, IsFiniteSet(S)
  PROVE  \E g : SumsUp(g, f, SUBSET S)
<1> DEFINE UpTo(n) == {s \in SUBSET S : Cardinality(s) <= n}
           Solved == {n \in Nat : \E g : SumsUp(g, f, UpTo(n))}
<1>1. \A s \in SUBSET S : IsFiniteSet(s) /\ Cardinality(s) \in Nat
  BY FS_Subset, FS_CardinalityType
<1>2. 0 \in Solved
  <2> DEFINE g == [s \in UpTo(0) |-> 0]
  <2>1. UpTo(0) = {{}}
    BY <1>1, FS_EmptySet
  <2>2. SumsUp(g, f, UpTo(0))
    <3> HIDE DEF UpTo
    <3> QED
      BY <2>1 DEF SumsUp
  <2> QED
    BY <2>2
<1>3. ASSUME NEW n \in Solved PROVE n + 1 \in Solved
  <2>1. n \in Nat /\ n + 1 \in Nat
    OBVIOUS
  <2>2. PICK g : SumsUp(g, f, UpTo(n))
    OBVIOUS
  <2> DEFINE h == [s \in UpTo(n+1) |-> IF s = {} THEN 0 ELSE f[One(s)] + g[s \ {One(s)}]]
  <2>3. \A s \in UpTo(n+1) : s # {} => One(s) \in s /\ s \ {One(s)} \in UpTo(n)
    <3> SUFFICES ASSUME NEW s \in UpTo(n+1), s # {}
                 PROVE  One(s) \in s /\ s \ {One(s)} \in UpTo(n)
      OBVIOUS
    <3>1. One(s) \in s
      BY DEF One
    <3>2. Cardinality(s \ {One(s)}) = Cardinality(s) - 1
      BY <1>1, <3>1, FS_RemoveElement
    <3> QED
      BY <1>1, <2>1, <3>1, <3>2
  <2>4. \A s \in UpTo(n) : s \in UpTo(n+1)
    BY <1>1, <2>1
  <2>5. \A s \in UpTo(n) : h[s] = g[s]
    <3> HIDE DEF UpTo
    <3> QED
      BY <2>2, <2>4 DEF SumsUp
  <2>6. SumsUp(h, f, UpTo(n+1))
    <3> HIDE DEF UpTo
    <3>1. \A s \in UpTo(n+1) :
            h[s] = IF s = {} THEN 0 ELSE f[One(s)] + h[s \ {One(s)}]
      BY <2>3, <2>5
    <3> QED
      BY <3>1 DEF SumsUp
  <2> HIDE DEF h
  <2> QED
    BY <2>1, <2>6
<1>4. Solved = Nat
  <2> HIDE DEF Solved
  <2>1. Solved \subseteq Nat
    BY DEF Solved
  <2> QED
    BY <1>2, <1>3, <2>1, NatInduct
<1>5. Cardinality(S) \in Nat /\ SUBSET S = UpTo(Cardinality(S))
  BY <1>1, FS_Subset
<1>6. \E g : SumsUp(g, f, UpTo(Cardinality(S)))
  BY <1>4, <1>5
<1> HIDE DEF UpTo
<1> QED
  BY <1>5, <1>6

(* Two solutions agree wherever both are defined. *)
LEMMA SumsUpUnique ==
  ASSUME NEW f, NEW S, NEW T, NEW g, NEW h,
         SumsUp(g, f, SUBSET S), SumsUp(h, f, SUBSET T), T \subseteq S, IsFiniteSet(T)
  PROVE  g[T] = h[T]
<1> DEFINE F == {s \in SUBSET T : g[s] = h[s]}
<1>1. ASSUME NEW U \in SUBSET T, \A x \in U : U \ {x} \in F PROVE U \in F
  <2>1. U \in SUBSET S
    OBVIOUS
  <2>2. /\ g[U] = IF U = {} THEN 0 ELSE f[One(U)] + g[U \ {One(U)}]
        /\ h[U] = IF U = {} THEN 0 ELSE f[One(U)] + h[U \ {One(U)}]
    BY <2>1 DEF SumsUp
  <2>3. U # {} => One(U) \in U
    BY DEF One
  <2> QED
    BY <1>1, <2>2, <2>3
<1>2. T \in F
  <2> HIDE DEF F
  <2> QED
    BY <1>1, SubsetInduct
<1> QED
  BY <1>2

(* The sum over no element, and over one element more than another sum.    *)
LEMMA SumEmpty == \A f : SumFunctionOnSet(f, {}) = 0
<1> SUFFICES ASSUME NEW f PROVE SumFunctionOnSet(f, {}) = 0
  OBVIOUS
<1> DEFINE g == CHOOSE g : SumsUp(g, f, SUBSET {})
<1>1. SumsUp(g, f, SUBSET {})
  BY SumsUpExists, FS_EmptySet
<1>2. g[{}] = 0
  <2> HIDE DEF g
  <2> QED
    BY <1>1 DEF SumsUp
<1> QED
  BY <1>2, SumUnfold

LEMMA SumStep ==
  ASSUME NEW f, NEW S, IsFiniteSet(S), S # {}
  PROVE  SumFunctionOnSet(f, S) = f[One(S)] + SumFunctionOnSet(f, S \ {One(S)})
<1> DEFINE T == S \ {One(S)}
           g == CHOOSE a : SumsUp(a, f, SUBSET S)
           h == CHOOSE a : SumsUp(a, f, SUBSET T)
<1>1. IsFiniteSet(T)
  BY FS_Subset
<1>2. SumsUp(g, f, SUBSET S) /\ SumsUp(h, f, SUBSET T)
  BY <1>1, SumsUpExists
<1>3. SumFunctionOnSet(f, S) = g[S] /\ SumFunctionOnSet(f, T) = h[T]
  BY SumUnfold
<1> HIDE DEF g, h
<1>4. g[S] = f[One(S)] + g[T]
  BY <1>2 DEF SumsUp
<1>5. g[T] = h[T]
  <2>1. T \subseteq S
    OBVIOUS
  <2> HIDE DEF T
  <2> QED
    BY <1>1, <1>2, <2>1, SumsUpUnique
<1> QED
  BY <1>3, <1>4, <1>5

(* The value of a sum, and one element taken out of it, whichever one. *)
LEMMA SumType ==
  ASSUME NEW S, IsFiniteSet(S), NEW f, \A x \in S : f[x] \in Int
  PROVE  SumFunctionOnSet(f, S) \in Int
<1> DEFINE F == {T \in SUBSET S : SumFunctionOnSet(f, T) \in Int}
<1>1. ASSUME NEW T \in SUBSET S, \A x \in T : T \ {x} \in F PROVE T \in F
  <2>1. CASE T = {}
    BY <2>1, SumEmpty
  <2>2. CASE T # {}
    <3>1. One(T) \in T /\ IsFiniteSet(T)
      BY <2>2, FS_Subset DEF One
    <3>2. SumFunctionOnSet(f, T) = f[One(T)] + SumFunctionOnSet(f, T \ {One(T)})
      BY <2>2, <3>1, SumStep
    <3> QED
      BY <1>1, <3>1, <3>2
  <2> QED
    BY <2>1, <2>2
<1>2. S \in F
  <2> HIDE DEF F
  <2> QED
    BY <1>1, SubsetInduct
<1> QED
  BY <1>2

LEMMA SumRemove ==
  ASSUME NEW S, IsFiniteSet(S), NEW f, \A x \in S : f[x] \in Int, NEW x \in S
  PROVE  SumFunctionOnSet(f, S) = f[x] + SumFunctionOnSet(f, S \ {x})
<1> DEFINE F == {T \in SUBSET S : \A y \in T :
                   SumFunctionOnSet(f, T) = f[y] + SumFunctionOnSet(f, T \ {y})}
<1>1. ASSUME NEW T \in SUBSET S, \A y \in T : T \ {y} \in F PROVE T \in F
  <2> SUFFICES ASSUME NEW y \in T
               PROVE  SumFunctionOnSet(f, T) = f[y] + SumFunctionOnSet(f, T \ {y})
    OBVIOUS
  <2>1. PICK c : c = One(T)
    OBVIOUS
  <2>2. c \in T /\ IsFiniteSet(T)
    BY <2>1, FS_Subset DEF One
  <2>3. SumFunctionOnSet(f, T) = f[c] + SumFunctionOnSet(f, T \ {c})
    BY <2>1, <2>2, SumStep
  <2>4. CASE y = c
    BY <2>3, <2>4
  <2>5. CASE y # c
    <3>1. PICK U : U = (T \ {c}) \ {y}
      OBVIOUS
    <3>2. U = (T \ {y}) \ {c} /\ U \subseteq T
      BY <3>1
    <3>3. SumFunctionOnSet(f, T \ {c}) = f[y] + SumFunctionOnSet(f, U)
      BY <1>1, <2>2, <2>5, <3>1
    <3>4. SumFunctionOnSet(f, T \ {y}) = f[c] + SumFunctionOnSet(f, U)
      BY <1>1, <2>2, <2>5, <3>2
    <3>5. SumFunctionOnSet(f, U) \in Int /\ f[c] \in Int /\ f[y] \in Int
      <4>1. IsFiniteSet(U) /\ \A z \in U : f[z] \in Int
        BY <2>2, <3>2, FS_Subset
      <4> QED
        BY <2>2, <4>1, SumType
    <3> HIDE DEF F
    <3> QED
      BY <2>3, <3>3, <3>4, <3>5
  <2> QED
    BY <2>4, <2>5
<1>2. S \in F
  <2> HIDE DEF F
  <2> QED
    BY <1>1, SubsetInduct
<1> QED
  BY <1>2

LEMMA SumAdd ==
  ASSUME NEW S, IsFiniteSet(S), NEW f, NEW x, x \notin S,
         f[x] \in Int, \A y \in S : f[y] \in Int
  PROVE  SumFunctionOnSet(f, S \cup {x}) = SumFunctionOnSet(f, S) + f[x]
<1>1. PICK T : T = S \cup {x}
  OBVIOUS
<1>2. IsFiniteSet(T) /\ x \in T /\ T \ {x} = S /\ \A y \in T : f[y] \in Int
  BY <1>1, FS_AddElement
<1>3. SumFunctionOnSet(f, T) = f[x] + SumFunctionOnSet(f, T \ {x})
  BY <1>2, SumRemove
<1>4. SumFunctionOnSet(f, S) \in Int
  BY SumType
<1>5. SumFunctionOnSet(f, T) = f[x] + SumFunctionOnSet(f, S)
  BY <1>2, <1>3
<1> QED
  BY <1>1, <1>4, <1>5

(* One element more, below a set whose terms are all integers. *)
LEMMA SumAddWithin ==
  ASSUME NEW S, IsFiniteSet(S), NEW f, \A y \in S : f[y] \in Int,
         NEW T \in SUBSET S, NEW x \in S, x \notin T
  PROVE  /\ SumFunctionOnSet(f, T \cup {x}) = SumFunctionOnSet(f, T) + f[x]
         /\ SumFunctionOnSet(f, T) \in Int /\ f[x] \in Int
<1>1. IsFiniteSet(T) /\ f[x] \in Int /\ \A y \in T : f[y] \in Int
  BY FS_Subset
<1> QED
  BY <1>1, SumAdd, SumType

------------------------------------------------------------------------------
(* Comparing sums *)

(* Two sums compare as their terms do, all at once. *)
LEMMA SumCompare ==
  ASSUME NEW S, IsFiniteSet(S), NEW f, NEW g,
         \A x \in S : f[x] \in Int /\ g[x] \in Int /\ f[x] <= g[x]
  PROVE  SumFunctionOnSet(f, S) <= SumFunctionOnSet(g, S)
<1> DEFINE F == {T \in SUBSET S : SumFunctionOnSet(f, T) <= SumFunctionOnSet(g, T)}
<1>1. {} \in F
  BY SumEmpty
<1>2. ASSUME NEW T \in SUBSET S, NEW x \in S, T \in F, x \notin T PROVE T \cup {x} \in F
  <2>1. IsFiniteSet(T)
    BY FS_Subset
  <2>2. /\ SumFunctionOnSet(f, T \cup {x}) = SumFunctionOnSet(f, T) + f[x]
        /\ SumFunctionOnSet(g, T \cup {x}) = SumFunctionOnSet(g, T) + g[x]
    BY <1>2, <2>1, SumAdd
  <2>3. SumFunctionOnSet(f, T) \in Int /\ SumFunctionOnSet(g, T) \in Int
    BY <2>1, SumType
  <2>4. SumFunctionOnSet(f, T \cup {x}) <= SumFunctionOnSet(g, T \cup {x})
    BY <1>2, <2>2, <2>3
  <2> QED
    BY <2>4
<1>3. S \in F
  <2> HIDE DEF F
  <2> QED
    BY <1>1, <1>2, SetInduct
<1> QED
  BY <1>3

LEMMA SumAgree ==
  ASSUME NEW S, IsFiniteSet(S), NEW f, NEW g, \A x \in S : f[x] \in Int /\ f[x] = g[x]
  PROVE  SumFunctionOnSet(f, S) = SumFunctionOnSet(g, S)
<1>1. SumFunctionOnSet(f, S) \in Int /\ SumFunctionOnSet(g, S) \in Int
  BY SumType
<1>2. /\ SumFunctionOnSet(f, S) <= SumFunctionOnSet(g, S)
      /\ SumFunctionOnSet(g, S) <= SumFunctionOnSet(f, S)
  BY SumCompare
<1> QED
  BY <1>1, <1>2

(* One term changes, and the sum with it. *)
LEMMA SumChange ==
  ASSUME NEW S, IsFiniteSet(S), NEW f, NEW g, NEW x \in S,
         \A y \in S : f[y] \in Int /\ g[y] \in Int,
         \A y \in S \ {x} : f[y] = g[y]
  PROVE  SumFunctionOnSet(g, S) = SumFunctionOnSet(f, S) + (g[x] - f[x])
<1>1. PICK T : T = S \ {x}
  OBVIOUS
<1>2. IsFiniteSet(T)
  BY <1>1, FS_Subset
<1>3. /\ SumFunctionOnSet(f, S) = f[x] + SumFunctionOnSet(f, T)
      /\ SumFunctionOnSet(g, S) = g[x] + SumFunctionOnSet(g, T)
  BY <1>1, SumRemove
<1>4. SumFunctionOnSet(f, T) = SumFunctionOnSet(g, T)
  BY <1>1, <1>2, SumAgree
<1>5. SumFunctionOnSet(f, T) \in Int
  BY <1>1, <1>2, SumType
<1> QED
  BY <1>3, <1>4, <1>5

(* The sum of a function that is the sum of two. *)
LEMMA SumPlus ==
  ASSUME NEW S, IsFiniteSet(S), NEW f, NEW g, NEW h,
         \A x \in S : f[x] \in Int /\ g[x] \in Int /\ h[x] = f[x] + g[x]
  PROVE  SumFunctionOnSet(h, S) = SumFunctionOnSet(f, S) + SumFunctionOnSet(g, S)
<1> DEFINE F == {T \in SUBSET S : SumFunctionOnSet(h, T)
                                  = SumFunctionOnSet(f, T) + SumFunctionOnSet(g, T)}
<1>1. {} \in F
  BY SumEmpty
<1>2. ASSUME NEW T \in SUBSET S, NEW x \in S, T \in F, x \notin T PROVE T \cup {x} \in F
  <2>1. IsFiniteSet(T)
    BY FS_Subset
  <2>2. ASSUME NEW k, \A y \in S : k[y] \in Int
        PROVE  /\ SumFunctionOnSet(k, T \cup {x}) = SumFunctionOnSet(k, T) + k[x]
               /\ SumFunctionOnSet(k, T) \in Int /\ k[x] \in Int
    BY <1>2, <2>2, SumAddWithin
  <2>3. \A y \in S : f[y] \in Int /\ g[y] \in Int /\ h[y] \in Int
    OBVIOUS
  <2>4. /\ SumFunctionOnSet(f, T \cup {x}) = SumFunctionOnSet(f, T) + f[x]
        /\ SumFunctionOnSet(f, T) \in Int /\ f[x] \in Int
    BY <2>2, <2>3
  <2>5. /\ SumFunctionOnSet(g, T \cup {x}) = SumFunctionOnSet(g, T) + g[x]
        /\ SumFunctionOnSet(g, T) \in Int /\ g[x] \in Int
    BY <2>2, <2>3
  <2>6. SumFunctionOnSet(h, T \cup {x}) = SumFunctionOnSet(h, T) + h[x]
    BY <2>2, <2>3
  <2>7. SumFunctionOnSet(h, T) = SumFunctionOnSet(f, T) + SumFunctionOnSet(g, T)
    BY <1>2
  <2>8. SumFunctionOnSet(h, T \cup {x})
        = SumFunctionOnSet(f, T \cup {x}) + SumFunctionOnSet(g, T \cup {x})
    <3>1. h[x] = f[x] + g[x]
      OBVIOUS
    <3> HIDE DEF F
    <3> QED
      BY <2>4, <2>5, <2>6, <2>7, <3>1
  <2> QED
    BY <2>8
<1>3. S \in F
  <2> HIDE DEF F
  <2> QED
    BY <1>1, <1>2, SetInduct
<1> QED
  BY <1>3

(* A sum of equal terms. *)
LEMMA SumConst ==
  ASSUME NEW S, IsFiniteSet(S), NEW f, NEW c \in Int, \A x \in S : f[x] = c
  PROVE  SumFunctionOnSet(f, S) = c * Cardinality(S)
<1> DEFINE F == {T \in SUBSET S : SumFunctionOnSet(f, T) = c * Cardinality(T)}
<1>1. {} \in F
  BY SumEmpty, FS_EmptySet
<1>2. ASSUME NEW T \in SUBSET S, NEW x \in S, T \in F, x \notin T PROVE T \cup {x} \in F
  <2>1. IsFiniteSet(T)
    BY FS_Subset
  <2>2. SumFunctionOnSet(f, T \cup {x}) = SumFunctionOnSet(f, T) + f[x]
    <3>1. f[x] \in Int /\ \A y \in T : f[y] \in Int
      OBVIOUS
    <3> HIDE DEF F
    <3> QED
      BY <1>2, <2>1, <3>1, SumAdd
  <2>3. Cardinality(T \cup {x}) = Cardinality(T) + 1 /\ Cardinality(T) \in Nat
    BY <1>2, <2>1, FS_AddElement, FS_CardinalityType
  <2>4. SumFunctionOnSet(f, T) = c * Cardinality(T) /\ f[x] = c
    BY <1>2
  <2>5. c * (Cardinality(T) + 1) = c * Cardinality(T) + c
    BY <2>3
  <2>6. SumFunctionOnSet(f, T \cup {x}) = c * Cardinality(T \cup {x})
    BY <2>2, <2>3, <2>4, <2>5
  <2> QED
    BY <2>6
<1>3. S \in F
  <2> HIDE DEF F
  <2> QED
    BY <1>1, <1>2, SetInduct
<1> QED
  BY <1>3

(* A sum of natural numbers is one, at least each of its terms. *)
LEMMA SumNat ==
  ASSUME NEW S, IsFiniteSet(S), NEW f, \A x \in S : f[x] \in Nat
  PROVE  /\ SumFunctionOnSet(f, S) \in Nat
         /\ \A x \in S : f[x] <= SumFunctionOnSet(f, S)
<1>1. ASSUME NEW T \in SUBSET S PROVE SumFunctionOnSet(f, T) \in Nat
  <2> DEFINE z == [x \in T |-> 0]
  <2>1. IsFiniteSet(T)
    BY FS_Subset
  <2>2. SumFunctionOnSet(z, T) = 0 * Cardinality(T) /\ Cardinality(T) \in Nat
    <3>1. \A x \in T : z[x] = 0
      OBVIOUS
    <3> HIDE DEF z
    <3> QED
      BY <2>1, <3>1, SumConst, FS_CardinalityType
  <2>3. SumFunctionOnSet(z, T) <= SumFunctionOnSet(f, T)
    <3>1. \A x \in T : z[x] \in Int /\ f[x] \in Int /\ z[x] <= f[x]
      OBVIOUS
    <3> HIDE DEF z
    <3> QED
      BY <2>1, <3>1, SumCompare
  <2>4. SumFunctionOnSet(f, T) \in Int
    BY <2>1, SumType
  <2> HIDE DEF z
  <2> QED
    BY <2>2, <2>3, <2>4
<1>2. ASSUME NEW x \in S PROVE f[x] <= SumFunctionOnSet(f, S)
  <2>1. SumFunctionOnSet(f, S) = f[x] + SumFunctionOnSet(f, S \ {x})
    BY SumRemove
  <2>2. SumFunctionOnSet(f, S \ {x}) \in Nat /\ f[x] \in Nat
    BY <1>1
  <2> QED
    BY <2>1, <2>2
<1> QED
  BY <1>1, <1>2

(* The sum over a part of the set, of natural numbers. *)
LEMMA SumPart ==
  ASSUME NEW S, IsFiniteSet(S), NEW T \in SUBSET S, NEW f, \A x \in S : f[x] \in Nat
  PROVE  SumFunctionOnSet(f, T) <= SumFunctionOnSet(f, S)
<1> DEFINE F == {U \in SUBSET (S \ T) : SumFunctionOnSet(f, T) <= SumFunctionOnSet(f, T \cup U)}
<1>1. IsFiniteSet(S \ T)
  BY FS_Subset
<1>2. {} \in F
  <2>1. SumFunctionOnSet(f, T) \in Nat /\ T \cup {} = T
    BY SumNat, FS_Subset
  <2> QED
    BY <2>1
<1>3. ASSUME NEW U \in SUBSET (S \ T), NEW x \in S \ T, U \in F, x \notin U
      PROVE  U \cup {x} \in F
  <2>1. PICK V : V = T \cup U
    OBVIOUS
  <2>2. IsFiniteSet(V) /\ IsFiniteSet(T) /\ V \subseteq S /\ x \notin V /\ T \cup (U \cup {x}) = V \cup {x}
    BY <1>3, <2>1, FS_Subset
  <2>3. SumFunctionOnSet(f, V \cup {x}) = SumFunctionOnSet(f, V) + f[x]
    BY <2>2, SumAdd
  <2>4. SumFunctionOnSet(f, V) \in Nat /\ SumFunctionOnSet(f, T) \in Nat /\ f[x] \in Nat
    BY <2>2, SumNat
  <2>5. SumFunctionOnSet(f, T) <= SumFunctionOnSet(f, V)
    BY <1>3, <2>1
  <2>6. SumFunctionOnSet(f, T) <= SumFunctionOnSet(f, V \cup {x})
    BY <2>3, <2>4, <2>5
  <2> QED
    BY <2>2, <2>6
<1>4. S \ T \in F
  <2> HIDE DEF F
  <2> QED
    BY <1>1, <1>2, <1>3, SetInduct
<1>5. T \cup (S \ T) = S
  OBVIOUS
<1> QED
  BY <1>4, <1>5

(* Terms that are not all below the average: some term is at most it. *)
LEMMA SumSome ==
  ASSUME NEW S, IsFiniteSet(S), S # {}, NEW f, \A x \in S : f[x] \in Int
  PROVE  \E x \in S : f[x] * Cardinality(S) <= SumFunctionOnSet(f, S)
<1> DEFINE F == {T \in SUBSET S : T # {} =>
                   \E x \in T : \A y \in T : f[x] <= f[y]}
<1>1. {} \in F
  OBVIOUS
<1>2. ASSUME NEW T \in SUBSET S, NEW y \in S, T \in F, y \notin T PROVE T \cup {y} \in F
  <2>1. CASE T = {}
    BY <2>1
  <2>2. CASE T # {}
    <3>1. PICK x \in T : \A z \in T : f[x] <= f[z]
      BY <1>2, <2>2
    <3>2. CASE f[x] <= f[y]
      BY <3>1, <3>2
    <3>3. CASE ~(f[x] <= f[y])
      <4>1. \A z \in T \cup {y} : f[y] <= f[z]
        BY <3>1, <3>3
      <4> QED
        BY <4>1
    <3> QED
      BY <3>2, <3>3
  <2> QED
    BY <2>1, <2>2
<1>3. S \in F
  <2> HIDE DEF F
  <2> QED
    BY <1>1, <1>2, SetInduct
<1>4. PICK x \in S : \A y \in S : f[x] <= f[y]
  BY <1>3
<1>5. PICK c \in Int : c = f[x]
  OBVIOUS
<1>6. PICK g : g = [y \in S |-> c]
  OBVIOUS
<1>7. SumFunctionOnSet(g, S) = c * Cardinality(S)
  <2>1. \A y \in S : g[y] = c
    BY <1>6
  <2> QED
    BY <2>1, SumConst
<1>8. SumFunctionOnSet(g, S) <= SumFunctionOnSet(f, S)
  <2>1. \A y \in S : g[y] \in Int /\ f[y] \in Int /\ g[y] <= f[y]
    BY <1>4, <1>5, <1>6
  <2> QED
    BY <2>1, SumCompare
<1> QED
  BY <1>5, <1>7, <1>8

(* A function given by an indicator of T sums up to T's size. *)
LEMMA SumCount ==
  ASSUME NEW S, IsFiniteSet(S), NEW T \in SUBSET S, NEW f,
         \A x \in S : f[x] = IF x \in T THEN 1 ELSE 0
  PROVE  SumFunctionOnSet(f, S) = Cardinality(T)
<1> DEFINE F == {U \in SUBSET S : SumFunctionOnSet(f, U) = Cardinality(U \cap T)}
<1>1. {} \in F
  <2>1. {} \cap T = {}
    OBVIOUS
  <2> QED
    BY <2>1, SumEmpty, FS_EmptySet
<1>2. ASSUME NEW U \in SUBSET S, NEW x \in S, U \in F, x \notin U PROVE U \cup {x} \in F
  <2>1. IsFiniteSet(U) /\ IsFiniteSet(U \cap T)
    BY FS_Subset
  <2>2. SumFunctionOnSet(f, U \cup {x}) = SumFunctionOnSet(f, U) + f[x]
    <3>1. f[x] \in Int /\ \A y \in U : f[y] \in Int
      OBVIOUS
    <3> HIDE DEF F
    <3> QED
      BY <1>2, <2>1, <3>1, SumAdd
  <2>3. Cardinality(U \cap T) \in Nat
    BY <2>1, FS_CardinalityType
  <2>4. CASE x \in T
    <3>1. (U \cup {x}) \cap T = (U \cap T) \cup {x} /\ x \notin U \cap T
      BY <1>2, <2>4
    <3>2. Cardinality((U \cup {x}) \cap T) = Cardinality(U \cap T) + 1
      BY <2>1, <3>1, FS_AddElement
    <3>3. SumFunctionOnSet(f, U \cup {x}) = Cardinality((U \cup {x}) \cap T)
      BY <1>2, <2>2, <2>3, <2>4, <3>2
    <3> QED
      BY <3>3
  <2>5. CASE x \notin T
    <3>1. (U \cup {x}) \cap T = U \cap T
      BY <2>5
    <3>2. SumFunctionOnSet(f, U \cup {x}) = Cardinality((U \cup {x}) \cap T)
      BY <1>2, <2>2, <2>3, <2>5, <3>1
    <3> QED
      BY <3>2
  <2> QED
    BY <2>4, <2>5
<1>3. S \in F
  <2> HIDE DEF F
  <2> QED
    BY <1>1, <1>2, SetInduct
<1>4. S \cap T = T
  OBVIOUS
<1> QED
  BY <1>3, <1>4

(* Numbers of one sign that sum up to nothing are all zero. *)
LEMMA SumZero ==
  ASSUME NEW S, IsFiniteSet(S), NEW f, \A x \in S : f[x] \in Nat,
         SumFunctionOnSet(f, S) = 0
  PROVE  \A x \in S : f[x] = 0
<1>1. \A x \in S : f[x] <= SumFunctionOnSet(f, S)
  BY SumNat
<1> QED
  BY <1>1

(* A sum of multiples. *)
LEMMA SumScale ==
  ASSUME NEW S, IsFiniteSet(S), NEW k \in Int, NEW f, NEW g,
         \A x \in S : f[x] \in Int /\ g[x] = k * f[x]
  PROVE  SumFunctionOnSet(g, S) = k * SumFunctionOnSet(f, S)
<1> DEFINE F == {T \in SUBSET S : SumFunctionOnSet(g, T) = k * SumFunctionOnSet(f, T)}
<1>1. {} \in F
  BY SumEmpty
<1>2. ASSUME NEW T \in SUBSET S, NEW x \in S, T \in F, x \notin T PROVE T \cup {x} \in F
  <2>1. \A y \in S : f[y] \in Int /\ g[y] \in Int
    OBVIOUS
  <2>2. /\ SumFunctionOnSet(f, T \cup {x}) = SumFunctionOnSet(f, T) + f[x]
        /\ SumFunctionOnSet(f, T) \in Int /\ f[x] \in Int
    BY <1>2, <2>1, SumAddWithin
  <2>3. /\ SumFunctionOnSet(g, T \cup {x}) = SumFunctionOnSet(g, T) + g[x]
        /\ SumFunctionOnSet(g, T) \in Int /\ g[x] \in Int
    BY <1>2, <2>1, SumAddWithin
  <2>4. PICK a \in Int, b \in Int : a = SumFunctionOnSet(f, T) /\ b = f[x]
    BY <2>2
  <2>5. SumFunctionOnSet(g, T) = k * a /\ g[x] = k * b
    BY <1>2, <2>4
  <2>6. k * (a + b) = k * a + k * b
    OBVIOUS
  <2>7. SumFunctionOnSet(g, T \cup {x}) = k * SumFunctionOnSet(f, T \cup {x})
    BY <2>2, <2>3, <2>4, <2>5, <2>6
  <2> QED
    BY <2>7
<1> HIDE DEF F
<1>3. S \in F
  BY <1>1, <1>2, SetInduct
<1> QED
  BY <1>3 DEF F

(* A sum splits into the sums over a part and over the rest. *)
LEMMA SumSplit ==
  ASSUME NEW S, IsFiniteSet(S), NEW f, \A x \in S : f[x] \in Int, NEW T \in SUBSET S
  PROVE  /\ SumFunctionOnSet(f, S) = SumFunctionOnSet(f, T) + SumFunctionOnSet(f, S \ T)
         /\ SumFunctionOnSet(f, T) \in Int /\ SumFunctionOnSet(f, S \ T) \in Int
<1> DEFINE F == {U \in SUBSET S : SumFunctionOnSet(f, U)
                   = SumFunctionOnSet(f, U \cap T) + SumFunctionOnSet(f, U \ T)}
<1>1. {} \in F
  <2>1. {} \cap T = {} /\ {} \ T = {}
    OBVIOUS
  <2> QED
    BY <2>1, SumEmpty
<1>2. ASSUME NEW U \in SUBSET S, NEW x \in S, U \in F, x \notin U PROVE U \cup {x} \in F
  <2>1. PICK V, A, B : V = U \cup {x} /\ A = U \cap T /\ B = U \ T
    OBVIOUS
  <2>2. /\ A \in SUBSET S /\ B \in SUBSET S /\ x \notin A /\ x \notin B
        /\ SumFunctionOnSet(f, U) = SumFunctionOnSet(f, A) + SumFunctionOnSet(f, B)
    BY <1>2, <2>1
  <2>3. /\ SumFunctionOnSet(f, U \cup {x}) = SumFunctionOnSet(f, U) + f[x]
        /\ SumFunctionOnSet(f, U) \in Int /\ f[x] \in Int
    BY ONLY <1>2, SumAddWithin, IsFiniteSet(S), \A y \in S : f[y] \in Int
  <2>4. /\ SumFunctionOnSet(f, A \cup {x}) = SumFunctionOnSet(f, A) + f[x]
        /\ SumFunctionOnSet(f, B \cup {x}) = SumFunctionOnSet(f, B) + f[x]
        /\ SumFunctionOnSet(f, A) \in Int /\ SumFunctionOnSet(f, B) \in Int
    BY ONLY <1>2, <2>2, SumAddWithin, IsFiniteSet(S), \A y \in S : f[y] \in Int
  <2>5. SumFunctionOnSet(f, V) = SumFunctionOnSet(f, U) + f[x] /\ f[x] \in Int
    BY <2>1, <2>3
  <2>6. CASE x \in T
    <3>1. V \cap T = A \cup {x} /\ V \ T = B
      BY <2>1, <2>6
    <3>2. SumFunctionOnSet(f, V) = SumFunctionOnSet(f, A \cup {x}) + SumFunctionOnSet(f, B)
      BY <2>2, <2>4, <2>5
    <3>3. SumFunctionOnSet(f, V) = SumFunctionOnSet(f, V \cap T) + SumFunctionOnSet(f, V \ T)
      BY <3>1, <3>2
    <3> QED
      BY <2>1, <3>3
  <2>7. CASE x \notin T
    <3>1. V \cap T = A /\ V \ T = B \cup {x}
      BY <2>1, <2>7
    <3>2. SumFunctionOnSet(f, V) = SumFunctionOnSet(f, A) + SumFunctionOnSet(f, B \cup {x})
      BY <2>2, <2>4, <2>5
    <3>3. SumFunctionOnSet(f, V) = SumFunctionOnSet(f, V \cap T) + SumFunctionOnSet(f, V \ T)
      BY <3>1, <3>2
    <3> QED
      BY <2>1, <3>3
  <2> QED
    BY <2>6, <2>7
<1>3. S \in F
  <2> HIDE DEF F
  <2> QED
    BY <1>1, <1>2, SetInduct
<1>4. S \cap T = T /\ IsFiniteSet(T) /\ IsFiniteSet(S \ T)
  BY FS_Subset
<1>5. SumFunctionOnSet(f, T) \in Int /\ SumFunctionOnSet(f, S \ T) \in Int
  <2>1. (\A x \in T : f[x] \in Int) /\ \A x \in S \ T : f[x] \in Int
    OBVIOUS
  <2> QED
    BY <1>4, <2>1, SumType
<1> QED
  BY <1>3, <1>4, <1>5

(* Elements of which f is 0 do not matter. *)
LEMMA SumOff ==
  ASSUME NEW S, IsFiniteSet(S), NEW f, \A x \in S : f[x] \in Int, NEW T \in SUBSET S,
         \A x \in S \ T : f[x] = 0
  PROVE  SumFunctionOnSet(f, S) = SumFunctionOnSet(f, T)
<1>1. PICK R : R = S \ T
  OBVIOUS
<1>2. /\ SumFunctionOnSet(f, S) = SumFunctionOnSet(f, T) + SumFunctionOnSet(f, R)
      /\ SumFunctionOnSet(f, T) \in Int
  BY <1>1, SumSplit
<1>3. IsFiniteSet(R) /\ \A x \in R : f[x] = 0
  BY <1>1, FS_Subset
<1>4. SumFunctionOnSet(f, R) = 0 * Cardinality(R) /\ Cardinality(R) \in Nat
  BY ONLY <1>3, SumConst, FS_CardinalityType, 0 \in Int
<1> QED
  BY <1>2, <1>4

(* A sum of numbers none of which is above v. *)
LEMMA SumBelow ==
  ASSUME NEW S, IsFiniteSet(S), NEW f, NEW v \in Int, \A x \in S : f[x] \in Int /\ f[x] <= v
  PROVE  SumFunctionOnSet(f, S) <= v * Cardinality(S)
<1>1. PICK g : g = [x \in S |-> v]
  OBVIOUS
<1>2. \A x \in S : g[x] = v
  BY <1>1
<1>3. SumFunctionOnSet(g, S) = v * Cardinality(S)
  BY ONLY <1>2, SumConst, IsFiniteSet(S), v \in Int
<1>4. \A x \in S : f[x] \in Int /\ g[x] \in Int /\ f[x] <= g[x]
  BY <1>2
<1>5. SumFunctionOnSet(f, S) <= SumFunctionOnSet(g, S)
  BY ONLY <1>4, SumCompare, IsFiniteSet(S)
<1> QED
  BY <1>3, <1>5

(* What a function gives out, counted value by value. *)
LEMMA SumFibres ==
  ASSUME NEW S, IsFiniteSet(S), NEW V, IsFiniteSet(V), NEW t \in [S -> V], NEW g,
         \A v \in V : g[v] = Cardinality({s \in S : t[s] = v})
  PROVE  SumFunctionOnSet(g, V) = Cardinality(S)
<1> DEFINE own(T) == [v \in V |-> Cardinality({s \in T : t[s] = v})]
           F == {T \in SUBSET S : SumFunctionOnSet(own(T), V) = Cardinality(T)}
<1>1. {} \in F
  <2>1. \A v \in V : own({})[v] = 0
    BY FS_EmptySet
  <2>2. PICK h : h = own({})
    OBVIOUS
  <2>3. SumFunctionOnSet(h, V) = 0 * Cardinality(V)
    <3>1. \A v \in V : h[v] = 0
      BY <2>1, <2>2
    <3> QED
      BY <3>1, SumConst
  <2>4. SumFunctionOnSet(own({}), V) = 0
    BY <2>2, <2>3, FS_CardinalityType
  <2> QED
    BY <2>4, FS_EmptySet
<1>2. ASSUME NEW T \in SUBSET S, NEW x \in S, T \in F, x \notin T PROVE T \cup {x} \in F
  <2>1. PICK a, b : a = own(T) /\ b = own(T \cup {x})
    OBVIOUS
  <2>2. ASSUME NEW v \in V
        PROVE  /\ a[v] \in Int /\ b[v] \in Int
               /\ b[v] = a[v] + (IF v = t[x] THEN 1 ELSE 0)
    <3>1. PICK A, B : A = {s \in T : t[s] = v} /\ B = {s \in T \cup {x} : t[s] = v}
      OBVIOUS
    <3>2. IsFiniteSet(A) /\ x \notin A
      BY <1>2, <3>1, FS_Subset
    <3>3. B = IF v = t[x] THEN A \cup {x} ELSE A
      BY <3>1
    <3>4. Cardinality(A) \in Nat /\ Cardinality(A \cup {x}) = Cardinality(A) + 1
      BY ONLY <3>2, FS_AddElement, FS_CardinalityType
    <3>5. a[v] = Cardinality(A) /\ b[v] = Cardinality(B)
      BY <2>1, <3>1
    <3> QED
      BY <3>3, <3>4, <3>5
  <2>3. PICK y : y = t[x]
    OBVIOUS
  <2>4. y \in V /\ \A v \in V \ {y} : a[v] = b[v]
    BY <2>2, <2>3
  <2> HIDE DEF F, own
  <2>5. SumFunctionOnSet(b, V) = SumFunctionOnSet(a, V) + (b[y] - a[y])
    BY ONLY IsFiniteSet(V), <2>2, <2>4, SumChange
  <2>6. b[y] - a[y] = 1
    BY <2>2, <2>3, <2>4
  <2>7. SumFunctionOnSet(a, V) = Cardinality(T)
    BY <1>2, <2>1 DEF F
  <2>8. Cardinality(T \cup {x}) = Cardinality(T) + 1
    BY <1>2, FS_Subset, FS_AddElement
  <2>9. SumFunctionOnSet(b, V) = Cardinality(T \cup {x})
    BY <2>5, <2>6, <2>7, <2>8
  <2> QED
    BY <2>1, <2>9 DEF F
<1> HIDE DEF F
<1>3. S \in F
  BY <1>1, <1>2, SetInduct
<1>4. \A v \in V : g[v] = own(S)[v] /\ g[v] \in Int
  <2> SUFFICES ASSUME NEW v \in V PROVE g[v] = own(S)[v] /\ g[v] \in Int
    OBVIOUS
  <2>1. {s \in S : t[s] = v} \in SUBSET S
    OBVIOUS
  <2>2. Cardinality({s \in S : t[s] = v}) \in Nat
    BY <2>1, FS_Subset, FS_CardinalityType
  <2> QED
    BY <2>2
<1>5. SumFunctionOnSet(own(S), V) = Cardinality(S)
  BY <1>3 DEF F
<1> HIDE DEF own
<1>6. PICK h : h = own(S)
  OBVIOUS
<1>7. SumFunctionOnSet(g, V) = SumFunctionOnSet(h, V)
  BY <1>4, <1>6, SumAgree
<1> QED
  BY <1>5, <1>6, <1>7

------------------------------------------------------------------------------
(* Sums over a whole function *)

LEMMA SumAllNat ==
  ASSUME NEW S, IsFiniteSet(S), NEW f \in [S -> Nat]
  PROVE  SumFunction(f) \in Nat /\ \A x \in S : f[x] <= SumFunction(f)
<1>1. SumFunction(f) = SumFunctionOnSet(f, S)
  BY DEF SumFunction
<1> QED
  BY <1>1, SumNat

LEMMA SumAllZero ==
  ASSUME NEW S, IsFiniteSet(S)
  PROVE  SumFunction([x \in S |-> 0]) = 0
<1>1. PICK z : z = [x \in S |-> 0]
  OBVIOUS
<1>2. SumFunctionOnSet(z, S) = 0 * Cardinality(S) /\ Cardinality(S) \in Nat
  <2>1. \A x \in S : z[x] = 0
    BY <1>1
  <2> QED
    BY <2>1, SumConst, FS_CardinalityType
<1>3. SumFunction(z) = 0
  BY <1>1, <1>2 DEF SumFunction
<1> QED
  BY <1>1, <1>3

(* One term is replaced. *)
LEMMA SumAllExcept ==
  ASSUME NEW S, IsFiniteSet(S), NEW f \in [S -> Nat], NEW x \in S, NEW v \in Nat
  PROVE  SumFunction([f EXCEPT ![x] = v]) = SumFunction(f) + (v - f[x])
<1>1. PICK g : g = [f EXCEPT ![x] = v]
  OBVIOUS
<1>2. g \in [S -> Nat] /\ g[x] = v /\ \A y \in S \ {x} : f[y] = g[y]
  BY <1>1
<1>3. \A y \in S : f[y] \in Int /\ g[y] \in Int
  BY <1>2
<1>4. SumFunctionOnSet(g, S) = SumFunctionOnSet(f, S) + (g[x] - f[x])
  BY <1>2, <1>3, SumChange
<1>5. SumFunction(g) = SumFunctionOnSet(g, S) /\ SumFunction(f) = SumFunctionOnSet(f, S)
  BY <1>2 DEF SumFunction
<1>6. SumFunction(g) = SumFunction(f) + (v - f[x])
  BY <1>2, <1>4, <1>5
<1> QED
  BY <1>1, <1>6

(* Two functions that differ by one on T and nowhere else. *)
LEMMA SumTaken ==
  ASSUME NEW S, IsFiniteSet(S), NEW f \in [S -> Nat], NEW g \in [S -> Nat],
         NEW T \in SUBSET S, \A x \in S : f[x] = g[x] + (IF x \in T THEN 1 ELSE 0)
  PROVE  /\ SumFunction(f) = SumFunction(g) + Cardinality(T)
         /\ SumFunction(f) \in Nat /\ SumFunction(g) \in Nat /\ Cardinality(T) \in Nat
<1>1. PICK h : h = [x \in S |-> IF x \in T THEN 1 ELSE 0]
  OBVIOUS
<1>2. SumFunctionOnSet(h, S) = Cardinality(T)
  BY <1>1, SumCount
<1>3. SumFunctionOnSet(f, S) = SumFunctionOnSet(g, S) + SumFunctionOnSet(h, S)
  <2>1. \A x \in S : g[x] \in Int /\ h[x] \in Int /\ f[x] = g[x] + h[x]
    BY <1>1
  <2> QED
    BY <2>1, SumPlus
<1>4. SumFunction(f) = SumFunctionOnSet(f, S) /\ SumFunction(g) = SumFunctionOnSet(g, S)
  BY DEF SumFunction
<1>5. Cardinality(T) \in Nat
  BY FS_Subset, FS_CardinalityType
<1> QED
  BY <1>2, <1>3, <1>4, <1>5, SumAllNat

------------------------------------------------------------------------------
(* Counts *)

(* The numbers below n are finitely many, n of them. *)
LEMMA BelowFinite ==
  ASSUME NEW n \in Nat
  PROVE  IsFiniteSet(0 .. n-1) /\ Cardinality(0 .. n-1) = n
<1>1. IsFiniteSet(0 .. n-1) /\ Cardinality(0 .. n-1) = IF 0 > n-1 THEN 0 ELSE (n-1) - 0 + 1
  BY FS_Interval
<1> QED
  BY <1>1

(* Some of them are at most n. *)
LEMMA CountInRange ==
  ASSUME NEW n \in Nat, NEW S \in SUBSET (0 .. n-1)
  PROVE  IsFiniteSet(S) /\ Cardinality(S) \in 0 .. n
<1>1. IsFiniteSet(S) /\ Cardinality(S) <= Cardinality(0 .. n-1)
  BY BelowFinite, FS_Subset
<1>2. Cardinality(S) \in Nat
  BY <1>1, FS_CardinalityType
<1> QED
  BY <1>1, <1>2, BelowFinite

(* The k least of a set of numbers are k. *)
LEMMA LeastCount ==
  ASSUME NEW n \in Nat, NEW S \in SUBSET (0 .. n-1), NEW k \in Nat, k <= Cardinality(S)
  PROVE  Cardinality({b \in S : Cardinality({c \in S : c < b}) < k}) = k
<1> DEFINE below(m) == {c \in S : c < m}
           few(m) == {b \in S : b < m /\ Cardinality(below(b)) < k}
           Short(m) == IF Cardinality(below(m)) <= k THEN Cardinality(below(m)) ELSE k
           G == {m \in Nat : Cardinality(few(m)) = Short(m)}
<1>1. IsFiniteSet(S) /\ Cardinality(S) \in Nat /\ \A b \in S : b \in Nat /\ b < n
  BY CountInRange
<1>2. ASSUME NEW m \in Nat
      PROVE  /\ IsFiniteSet(below(m)) /\ IsFiniteSet(few(m))
             /\ Cardinality(below(m)) \in Nat
             /\ m \notin below(m) /\ m \notin few(m)
  <2>1. below(m) \in SUBSET S /\ few(m) \in SUBSET S
    OBVIOUS
  <2>2. m \notin below(m) /\ m \notin few(m)
    OBVIOUS
  <2> HIDE DEF below, few
  <2> QED
    BY <1>1, <2>1, <2>2, FS_Subset, FS_CardinalityType
<1>3. 0 \in G
  <2>1. \A c \in S : ~(c < 0)
    BY <1>1
  <2>2. below(0) = {} /\ few(0) = {}
    BY <2>1
  <2> HIDE DEF below, few
  <2>3. Cardinality(below(0)) = 0 /\ Cardinality(few(0)) = 0
    BY <2>2, FS_EmptySet
  <2> QED
    BY <2>3
<1>4. ASSUME NEW m \in Nat, m \notin S
      PROVE  below(m + 1) = below(m) /\ few(m + 1) = few(m)
  <2>1. \A c \in S : c < m + 1 <=> c < m
    BY <1>1, <1>4
  <2> QED
    BY <2>1
<1>5. ASSUME NEW m \in S
      PROVE  /\ below(m + 1) = below(m) \cup {m}
             /\ few(m + 1) = IF Cardinality(below(m)) < k THEN few(m) \cup {m} ELSE few(m)
  <2>1. \A c \in S : c < m + 1 <=> (c < m \/ c = m)
    BY <1>1
  <2> QED
    BY <2>1
<1> HIDE DEF below, few
<1>6. ASSUME NEW m \in G PROVE m + 1 \in G
  <2>1. m \in Nat /\ m + 1 \in Nat /\ Cardinality(few(m)) = Short(m)
    OBVIOUS
  <2>2. CASE m \notin S
    BY <1>4, <2>1, <2>2
  <2>3. CASE m \in S
    <3>1. PICK x \in Nat : x = Cardinality(below(m))
      BY <1>2, <2>1
    <3>2. Cardinality(below(m + 1)) = x + 1
      <4>1. IsFiniteSet(below(m)) /\ m \notin below(m)
        BY <1>2, <2>1
      <4>2. Cardinality(below(m) \cup {m}) = Cardinality(below(m)) + 1
        BY ONLY <4>1, FS_AddElement
      <4> QED
        BY <1>5, <2>3, <3>1, <4>2
    <3>3. Cardinality(few(m)) = IF x <= k THEN x ELSE k
      BY <2>1, <3>1
    <3>4. Cardinality(few(m + 1)) = IF x < k THEN x + 1 ELSE k
      <4>1. CASE x < k
        <5>1. few(m + 1) = few(m) \cup {m}
          BY <1>5, <2>3, <3>1, <4>1
        <5>2. Cardinality(few(m) \cup {m}) = Cardinality(few(m)) + 1
          BY <1>2, <2>1, FS_AddElement
        <5> QED
          BY <3>3, <4>1, <5>1, <5>2
      <4>2. CASE ~(x < k)
        <5>1. few(m + 1) = few(m)
          BY <1>5, <2>3, <3>1, <4>2
        <5> QED
          BY <3>3, <4>2, <5>1
      <4> QED
        BY <4>1, <4>2
    <3>5. Cardinality(few(m + 1)) = Short(m + 1)
      BY <3>2, <3>4
    <3> QED
      BY <2>1, <3>5
  <2> QED
    BY <2>2, <2>3
<1>7. G = Nat
  <2>1. G \in SUBSET Nat
    OBVIOUS
  <2> HIDE DEF G
  <2> QED
    BY <1>3, <1>6, <2>1, NatInduct
<1>8. Cardinality(few(n)) = Short(n)
  BY <1>7
<1>9. below(n) = S /\ few(n) = {b \in S : Cardinality({c \in S : c < b}) < k}
  BY <1>1 DEF below, few
<1>10. Short(n) = k
  BY <1>1, <1>9
<1> QED
  BY <1>8, <1>9, <1>10

(* A count that follows the arrivals and departures stays exact: what      *)
(* setEligible does, whether or not it changes anything.                   *)
LEMMA CountFollows ==
  ASSUME NEW n \in Nat, NEW S \in SUBSET (0 .. n-1), NEW i \in 0 .. n-1,
         NEW up \in BOOLEAN, NEW T, T = IF up THEN S \cup {i} ELSE S \ {i}
  PROVE  /\ T \in SUBSET (0 .. n-1)
         /\ Cardinality(T) = IF up = (i \in S) THEN Cardinality(S)
                             ELSE IF up THEN Cardinality(S) + 1 ELSE Cardinality(S) - 1
<1>1. IsFiniteSet(S) /\ Cardinality(S) \in Nat
  BY CountInRange
<1>2. Cardinality(S \cup {i}) = IF i \in S THEN Cardinality(S) ELSE Cardinality(S) + 1
  BY <1>1, FS_AddElement
<1>3. Cardinality(S \ {i}) = IF i \in S THEN Cardinality(S) - 1 ELSE Cardinality(S)
  BY <1>1, FS_RemoveElement
<1>4. CASE up
  BY <1>2, <1>4
<1>5. CASE ~up
  BY <1>3, <1>5
<1> QED
  BY <1>4, <1>5

(* Two sets that differ in one element at most. *)
LEMMA CountOne ==
  ASSUME NEW S, IsFiniteSet(S), NEW A \in SUBSET S, NEW B \in SUBSET S, NEW x \in S,
         A \ {x} = B \ {x}
  PROVE  /\ Cardinality(A) \in Nat /\ Cardinality(B) \in Nat
         /\ Cardinality(B) = Cardinality(A) + (IF x \in B THEN 1 ELSE 0)
                                            - (IF x \in A THEN 1 ELSE 0)
<1>1. IsFiniteSet(A) /\ IsFiniteSet(B)
  BY FS_Subset
<1>2. Cardinality(A) \in Nat /\ Cardinality(B) \in Nat
  BY <1>1, FS_CardinalityType
<1>3. Cardinality(A \ {x}) = IF x \in A THEN Cardinality(A) - 1 ELSE Cardinality(A)
  BY <1>1, FS_RemoveElement
<1>4. Cardinality(B \ {x}) = IF x \in B THEN Cardinality(B) - 1 ELSE Cardinality(B)
  BY <1>1, FS_RemoveElement
<1>5. Cardinality(A \ {x}) = Cardinality(B \ {x})
  OBVIOUS
<1> QED
  BY <1>2, <1>3, <1>4, <1>5

------------------------------------------------------------------------------
(* Sequences without repetition *)

(* What occurs in one: once, or not at all. *)
LEMMA OccursOnce ==
  ASSUME NEW S, NEW h \in Seq(S), \A j, k \in DOMAIN h : h[j] = h[k] => j = k, NEW i \in S
  PROVE  Cardinality({k \in DOMAIN h : h[k] = i}) = IF i \in Range(h) THEN 1 ELSE 0
<1> DEFINE K == {k \in DOMAIN h : h[k] = i}
<1>1. CASE i \in Range(h)
  <2>1. PICK k \in DOMAIN h : h[k] = i
    BY <1>1 DEF Range
  <2>2. K = {k}
    BY <2>1
  <2> QED
    BY <1>1, <2>2, FS_Singleton
<1>2. CASE i \notin Range(h)
  <2>1. K = {}
    BY <1>2 DEF Range
  <2> QED
    BY <1>2, <2>1, FS_EmptySet
<1> QED
  BY <1>1, <1>2

(* It has as many elements as places. *)
LEMMA CountDistinct ==
  ASSUME NEW S, NEW h \in Seq(S), \A j, k \in DOMAIN h : h[j] = h[k] => j = k
  PROVE  IsFiniteSet(Range(h)) /\ Cardinality(Range(h)) = Len(h)
<1>1. h \in Bijection(1 .. Len(h), Range(h))
  BY DEF Bijection, Injection, Surjection, IsInjective, Range
<1>2. IsFiniteSet(1 .. Len(h)) /\ Cardinality(1 .. Len(h)) = Len(h)
  <2>1. Len(h) \in Nat
    OBVIOUS
  <2>2. Cardinality(1 .. Len(h)) = IF 1 > Len(h) THEN 0 ELSE Len(h) - 1 + 1
    BY <2>1, FS_Interval
  <2> QED
    BY <2>1, <2>2, FS_Interval
<1> QED
  BY <1>1, <1>2, FS_Bijection DEF ExistsBijection

(* It grows by an element it has not. *)
LEMMA AppendOnce ==
  ASSUME NEW S, NEW s \in Seq(S), NEW i \in S
  PROVE  /\ Append(s, i) \in Seq(S)
         /\ Len(Append(s, i)) = Len(s) + 1
         /\ Range(Append(s, i)) = Range(s) \cup {i}
         /\ /\ \A j, k \in DOMAIN s : s[j] = s[k] => j = k
            /\ i \notin Range(s)
            => \A j, k \in DOMAIN Append(s, i) :
                 Append(s, i)[j] = Append(s, i)[k] => j = k
<1> DEFINE t == Append(s, i)
<1>1. /\ t \in Seq(S)
      /\ DOMAIN s = 1 .. Len(s)
      /\ DOMAIN t = 1 .. Len(s) + 1
      /\ \A k \in DOMAIN s : t[k] = s[k]
      /\ t[Len(s) + 1] = i
      /\ Len(s) \in Nat /\ Len(t) = Len(s) + 1
  OBVIOUS
<1> HIDE DEF t
<1>2. DOMAIN t = DOMAIN s \cup {Len(s) + 1}
  BY <1>1
<1>3. Range(t) = Range(s) \cup {i}
  <2>1. Range(t) = {t[k] : k \in DOMAIN s} \cup {t[Len(s) + 1]}
    BY <1>2 DEF Range
  <2>2. {t[k] : k \in DOMAIN s} = Range(s)
    BY <1>1 DEF Range
  <2> QED
    BY <1>1, <2>1, <2>2
<1>4. ASSUME \A j, k \in DOMAIN s : s[j] = s[k] => j = k, i \notin Range(s),
             NEW j \in DOMAIN t, NEW k \in DOMAIN t, t[j] = t[k]
      PROVE  j = k
  BY <1>1, <1>2, <1>4 DEF Range
<1> QED
  BY <1>1, <1>3, <1>4 DEF t

(* It loses its last element. *)
LEMMA FrontOnce ==
  ASSUME NEW S, NEW s \in Seq(S), s # <<>>, \A j, k \in DOMAIN s : s[j] = s[k] => j = k
  PROVE  LET t == SubSeq(s, 1, Len(s) - 1)
         IN  /\ s[Len(s)] \in S /\ s[Len(s)] \in Range(s)
             /\ t \in Seq(S) /\ Len(t) = Len(s) - 1
             /\ Range(t) = Range(s) \ {s[Len(s)]}
             /\ \A j, k \in DOMAIN t : t[j] = t[k] => j = k
<1> DEFINE t == SubSeq(s, 1, Len(s) - 1)
           n == Len(s)
<1>1. /\ t \in Seq(S) /\ n \in Nat /\ n # 0 /\ Len(t) = n - 1
      /\ DOMAIN s = 1 .. n /\ DOMAIN t = 1 .. n - 1
      /\ \A k \in 1 .. n - 1 : t[k] = s[k]
      /\ s[n] \in S
  <2>1. n \in Nat /\ n # 0 /\ DOMAIN s = 1 .. n
    OBVIOUS
  <2>2. s[n] \in S
    BY <2>1
  <2>3. /\ t = [k \in 1 .. n - 1 |-> s[k]]
        /\ \A k \in 1 .. n - 1 : s[k] \in S
    BY <2>1
  <2>4. n - 1 \in Nat
    BY <2>1
  <2> HIDE DEF t, n
  <2>5. t \in Seq(S) /\ Len(t) = n - 1
    BY <2>3, <2>4
  <2> QED
    BY <2>1, <2>2, <2>3, <2>5
<1> HIDE DEF t, n
<1>2. n \in DOMAIN s /\ DOMAIN t = DOMAIN s \ {n}
  BY <1>1
<1>3. Range(t) = Range(s) \ {s[n]}
  <2>1. Range(t) = {s[k] : k \in DOMAIN s \ {n}}
    BY <1>1, <1>2 DEF Range
  <2>2. {s[k] : k \in DOMAIN s \ {n}} = {s[k] : k \in DOMAIN s} \ {s[n]}
    BY <1>2
  <2> QED
    BY <2>1, <2>2 DEF Range
<1>4. \A j, k \in DOMAIN t : t[j] = t[k] => j = k
  BY <1>1, <1>2
<1>5. s[n] \in Range(s)
  BY <1>2 DEF Range
<1> QED
  BY <1>1, <1>3, <1>4, <1>5 DEF t, n

------------------------------------------------------------------------------
(* Once around *)

(* k steps on from a around a ring of n, fewer than n: elsewhere. *)
LEMMA RingStep ==
  ASSUME NEW n \in Nat \ {0}, NEW a \in 0 .. n-1, NEW k \in 1 .. n-1
  PROVE  /\ (a + k) % n \in 0 .. n-1
         /\ (a + k) % n # a
<1>1. CASE a + k < n
  <2>1. (a + k) % n = a + k
    BY <1>1
  <2> QED
    BY <1>1, <2>1
<1>2. CASE a + k >= n
  <2>1. (a + k) % n = a + k - n
    BY <1>2
  <2> QED
    BY <1>2, <2>1
<1> QED
  BY <1>1, <1>2

------------------------------------------------------------------------------
(* Multiples *)

LEMMA MulMono ==
  ASSUME NEW x \in Int, NEW y \in Int, NEW k \in Nat, x <= y
  PROVE  x * k <= y * k
<1>1. PICK d \in Nat : y = x + d
  <2>1. y - x \in Nat /\ y = x + (y - x)
    OBVIOUS
  <2> QED
    BY <2>1
<1>2. y * k = x * k + d * k /\ d * k \in Nat /\ x * k \in Int
  BY <1>1
<1> QED
  BY <1>2

(* The first multiple of w that reaches a. *)
LEMMA FirstMultiple ==
  ASSUME NEW a \in Nat, NEW w \in Nat \ {0}
  PROVE  \E c \in Nat : /\ a <= c * w /\ c * w < a + w
                        /\ \A h \in Nat : a <= h * w <=> c <= h
<1> DEFINE T == {c \in Nat : a <= c * w}
<1>1. a \in T
  <2>1. a * 1 <= a * w
    <3>1. 1 * a <= w * a
      BY MulMono
    <3> QED
      BY <3>1
  <2> QED
    BY <2>1
<1>2. PICK c \in T : \A y \in T : c <= y
  <2>1. T \in SUBSET Nat
    OBVIOUS
  <2> HIDE DEF T
  <2> QED
    BY <1>1, <2>1, LeastExists
<1>3. c \in Nat /\ a <= c * w
  BY <1>2
<1>4. c * w < a + w
  <2>1. CASE c = 0
    BY <2>1
  <2>2. CASE c # 0
    <3>1. c - 1 \in Nat /\ c - 1 \notin T
      BY <1>2, <1>3, <2>2
    <3>2. (c - 1) * w = c * w - w
      BY <1>3
    <3>3. ~(a <= (c - 1) * w)
      BY <3>1
    <3> QED
      BY <1>3, <3>2, <3>3
  <2> QED
    BY <2>1, <2>2
<1>5. ASSUME NEW h \in Nat PROVE a <= h * w <=> c <= h
  <2>1. ASSUME c <= h PROVE a <= h * w
    <3>1. c * w <= h * w /\ c * w \in Nat /\ h * w \in Nat
      BY <1>3, <2>1, MulMono
    <3> QED
      BY <1>3, <3>1
  <2>2. ASSUME a <= h * w PROVE c <= h
    BY <1>2, <2>2
  <2> QED
    BY <2>1, <2>2
<1> QED
  BY <1>3, <1>4, <1>5

(* The multiples of w from a to b are as many as the length of the range   *)
(* has room for, to within one.                                            *)
LEMMA MultiplesBetween ==
  ASSUME NEW a \in Nat, NEW b \in Nat, NEW n \in Nat, NEW w \in Nat \ {0},
         a <= b, b <= n * w
  PROVE  LET hits == Cardinality({h \in 0 .. n-1 : a <= h * w /\ h * w < b})
         IN  hits * w - (b - a) < w /\ (b - a) - hits * w < w
<1> DEFINE H == {h \in 0 .. n-1 : a <= h * w /\ h * w < b}
<1>1. PICK c \in Nat : /\ a <= c * w /\ c * w < a + w
                       /\ \A h \in Nat : a <= h * w <=> c <= h
  BY FirstMultiple
<1>2. PICK d \in Nat : /\ b <= d * w /\ d * w < b + w
                       /\ \A h \in Nat : b <= h * w <=> d <= h
  BY FirstMultiple
<1>3. d <= n
  BY <1>2
<1>4. c <= d
  <2>1. a <= d * w
    <3>1. d * w \in Nat
      OBVIOUS
    <3> QED
      BY <1>2, <3>1
  <2> QED
    BY <1>1, <2>1
<1>5. \A h \in Nat : h * w < b <=> h < d
  <2> SUFFICES ASSUME NEW h \in Nat PROVE h * w < b <=> h < d
    OBVIOUS
  <2>1. h * w \in Nat /\ (b <= h * w <=> d <= h)
    BY <1>2
  <2> QED
    BY <2>1
<1>6. H = c .. d-1
  <2>1. \A h \in 0 .. n-1 : (a <= h * w /\ h * w < b) <=> h \in c .. d-1
    <3> SUFFICES ASSUME NEW h \in 0 .. n-1
                 PROVE  (a <= h * w /\ h * w < b) <=> h \in c .. d-1
      OBVIOUS
    <3>1. h \in Nat
      OBVIOUS
    <3>2. (a <= h * w <=> c <= h) /\ (h * w < b <=> h < d)
      BY <1>1, <1>5, <3>1
    <3> QED
      BY <3>1, <3>2
  <2>2. c .. d-1 \subseteq 0 .. n-1
    BY <1>3
  <2> QED
    BY <2>1, <2>2
<1>7. Cardinality(c .. d-1) = d - c
  <2>1. Cardinality(c .. d-1) = IF c > d-1 THEN 0 ELSE (d-1) - c + 1
    BY FS_Interval
  <2> QED
    BY <1>4, <2>1
<1>8. (d - c) * w = d * w - c * w
  OBVIOUS
<1>9. Cardinality(H) * w = d * w - c * w
  BY <1>6, <1>7, <1>8
<1>10. PICK cw \in Nat, dw \in Nat : cw = c * w /\ dw = d * w
  OBVIOUS
<1>11. /\ a <= cw /\ cw < a + w /\ b <= dw /\ dw < b + w
       /\ Cardinality(H) * w = dw - cw
  BY <1>1, <1>2, <1>9, <1>10
<1> HIDE DEF H
<1>12. Cardinality(H) * w - (b - a) < w /\ (b - a) - Cardinality(H) * w < w
  BY <1>11
<1> QED
  BY <1>12 DEF H

------------------------------------------------------------------------------
(* Rests, and primes *)

(* Division with a rest, and the rest of what is given by parts. *)
LEMMA DivMod ==
  ASSUME NEW n \in Nat \ {0}, NEW a \in Nat
  PROVE  a \div n \in Nat /\ a % n \in 0 .. n-1 /\ a = ((a \div n) * n) + (a % n)
  OBVIOUS

LEMMA MulStrict ==
  ASSUME NEW x \in Int, NEW y \in Int, NEW n \in Nat \ {0}, x < y
  PROVE  x * n + n <= y * n
<1>1. PICK d \in Nat : y = x + 1 + d
  <2>1. y - x - 1 \in Nat /\ y = x + 1 + (y - x - 1)
    OBVIOUS
  <2> QED
    BY <2>1
<1>2. y * n = x * n + n + d * n /\ d * n \in Nat /\ x * n \in Int
  BY <1>1
<1> QED
  BY <1>2

LEMMA ModOf ==
  ASSUME NEW n \in Nat \ {0}, NEW q \in Nat, NEW r \in 0 .. n-1
  PROVE  (q * n + r) % n = r /\ (q * n + r) \div n = q
<1>1. PICK x \in Nat : x = q * n + r
  <2>1. q * n \in Nat
    OBVIOUS
  <2> QED
    BY <2>1
<1>2. PICK p \in Nat, s \in 0 .. n-1 : p = x \div n /\ s = x % n /\ x = p * n + s
  BY DivMod
<1>3. p = q
  <2>1. CASE p < q
    <3>1. p * n + n <= q * n
      BY <2>1, MulStrict
    <3>2. p * n \in Nat /\ q * n \in Nat
      OBVIOUS
    <3> QED
      BY <1>1, <1>2, <3>1, <3>2
  <2>2. CASE q < p
    <3>1. q * n + n <= p * n
      BY <2>2, MulStrict
    <3>2. p * n \in Nat /\ q * n \in Nat
      OBVIOUS
    <3> QED
      BY <1>1, <1>2, <3>1, <3>2
  <2> QED
    BY <2>1, <2>2
<1>4. s = r
  <2>1. q * n \in Nat
    OBVIOUS
  <2> QED
    BY <1>1, <1>2, <1>3, <2>1
<1> QED
  BY <1>1, <1>2, <1>3, <1>4

(* A number below a prime, taken fewer than that many times, is no multiple*)
(* of it.                                                                  *)
LEMMA PrimeApart ==
  ASSUME NEW p \in Nat, p >= 2, \A d \in 2 .. p-1 : p % d # 0,
         NEW k \in 1 .. p-1, NEW j \in 1 .. p-1, NEW m \in Nat
  PROVE  j * k # m * p
<1> DEFINE D == {d \in Nat : d # 0 /\ \E e \in Nat : d * k = e * p}
<1>1. p \in D
  <2>1. p * k = k * p /\ p \in Nat /\ p # 0 /\ k \in Nat
    OBVIOUS
  <2> QED
    BY <2>1
<1>2. PICK d \in D : \A y \in D : d <= y
  <2>1. D \in SUBSET Nat
    OBVIOUS
  <2> HIDE DEF D
  <2> QED
    BY <1>1, <2>1, LeastExists
<1>3. d \in Nat \ {0}
  OBVIOUS
<1>4. PICK e \in Nat : d * k = e * p
  OBVIOUS
<1>5. d <= p
  BY <1>1, <1>2
<1> HIDE DEF D
<1>6. p % d = 0
  <2>1. PICK q \in Nat, r \in 0 .. d-1 : q = p \div d /\ r = p % d /\ p = q * d + r
    BY <1>3, DivMod
  <2>2. r * k = (k - q * e) * p
    <3>1. p * k = (q * d) * k + r * k
      BY <1>3, <2>1
    <3>2. (q * d) * k = q * (d * k)
      BY <1>3
    <3>3. q * (e * p) = (q * e) * p
      OBVIOUS
    <3>4. (k - q * e) * p = p * k - (q * e) * p
      OBVIOUS
    <3> QED
      BY <1>3, <1>4, <3>1, <3>2, <3>3, <3>4
  <2>3. k - q * e \in Nat
    <3>1. PICK z \in Int : z = k - q * e
      OBVIOUS
    <3>2. CASE z < 0
      <4>1. z * p + p <= 0 * p
        BY <3>2, MulStrict
      <4>2. r * k \in Nat
        BY <1>3
      <4> QED
        BY <2>2, <3>1, <4>1, <4>2
    <3> QED
      BY <3>1, <3>2
  <2>4. CASE r # 0
    <3>1. r \in D
      <4>1. r \in Nat
        BY <1>3
      <4> QED
        BY <2>2, <2>3, <2>4, <4>1 DEF D
    <3> QED
      BY <1>2, <1>3, <3>1
  <2> QED
    BY <2>1, <2>4
<1>7. d = 1 \/ d = p
  BY <1>3, <1>5, <1>6
<1>8. d # 1
  <2> SUFFICES ASSUME d = 1 PROVE FALSE
    OBVIOUS
  <2>1. k = e * p
    BY <1>4
  <2>2. CASE e = 0
    BY <2>1, <2>2
  <2>3. CASE e # 0
    <3>1. 0 * p + p <= e * p
      BY <2>3, MulStrict
    <3> QED
      BY <2>1, <3>1
  <2> QED
    BY <2>2, <2>3
<1>9. j \notin D
  BY <1>2, <1>7, <1>8
<1>10. j \in Nat /\ j # 0
  OBVIOUS
<1> QED
  BY <1>9, <1>10 DEF D

(* Steps of one length around a ring of a prime number come everywhere. *)
LEMMA PrimeStride ==
  ASSUME NEW p \in Nat, p >= 2, \A d \in 2 .. p-1 : p % d # 0,
         NEW o \in 0 .. p-1, NEW k \in 1 .. p-1, NEW s \in 0 .. p-1
  PROVE  \E j \in 0 .. p-1 : (o + j * k) % p = s
<1> DEFINE f == [j \in 0 .. p-1 |-> (o + j * k) % p]
<1>1. f \in [0 .. p-1 -> 0 .. p-1]
  <2>1. \A j \in 0 .. p-1 : o + j * k \in Nat
    <3> SUFFICES ASSUME NEW j \in 0 .. p-1 PROVE o + j * k \in Nat
      OBVIOUS
    <3>1. j \in Nat /\ k \in Nat /\ o \in Nat
      OBVIOUS
    <3>2. j * k \in Nat
      BY <3>1
    <3> QED
      BY <3>1, <3>2
  <2> QED
    BY <2>1, DivMod
<1>2. ASSUME NEW i \in 0 .. p-1, NEW j \in 0 .. p-1, i < j PROVE f[i] # f[j]
  <2> SUFFICES ASSUME (o + i * k) % p = (o + j * k) % p PROVE FALSE
    OBVIOUS
  <2>1. PICK x \in Nat, y \in Nat : x = i * k /\ y = j * k
    <3>1. i \in Nat /\ j \in Nat /\ k \in Nat
      OBVIOUS
    <3> QED
      BY <3>1
  <2>2. PICK a \in Nat, b \in Nat, r \in 0 .. p-1 : o + x = a * p + r /\ o + y = b * p + r
    <3>1. PICK u \in Nat, v \in Nat : u = o + x /\ v = o + y
      BY <2>1
    <3>2. u % p = v % p /\ p \in Nat \ {0}
      BY <2>1, <3>1
    <3>3. /\ u \div p \in Nat /\ u = ((u \div p) * p) + (u % p) /\ u % p \in 0 .. p-1
          /\ v \div p \in Nat /\ v = ((v \div p) * p) + (v % p)
      BY <3>2, DivMod
    <3> QED
      BY <3>1, <3>2, <3>3
  <2>3. (j - i) * k = (b - a) * p
    <3>1. (j - i) * k = y - x
      BY <2>1
    <3>2. (b - a) * p = b * p - a * p
      OBVIOUS
    <3> QED
      BY <2>2, <3>1, <3>2
  <2>4. j - i \in 1 .. p-1
    BY <1>2
  <2>5. b - a \in Nat
    <3>1. CASE b < a
      <4>1. (b - a) * p + p <= 0 * p
        BY <3>1, MulStrict
      <4>2. (j - i) * k \in Nat
        BY <2>4
      <4> QED
        BY <2>3, <4>1, <4>2
    <3> QED
      BY <3>1
  <2> QED
    BY <2>3, <2>4, <2>5, PrimeApart
<1> HIDE DEF f
<1>3. f \in Injection(0 .. p-1, 0 .. p-1)
  <2>1. \A i, j \in 0 .. p-1 : f[i] = f[j] => i = j
    <3> SUFFICES ASSUME NEW i \in 0 .. p-1, NEW j \in 0 .. p-1, i # j PROVE f[i] # f[j]
      OBVIOUS
    <3>1. i < j \/ j < i
      OBVIOUS
    <3> QED
      BY <1>2, <3>1
  <2> QED
    BY <1>1, <2>1 DEF Injection, IsInjective
<1>4. f \in Surjection(0 .. p-1, 0 .. p-1)
  BY <1>3, FS_Injection, BelowFinite
<1>5. \E j \in 0 .. p-1 : f[j] = s
  BY <1>4 DEF Surjection
<1> QED
  BY <1>5 DEF f

------------------------------------------------------------------------------
(* The generator *)

LEMMA StepType ==
  ASSUME NEW x \in Words
  PROVE  Mix1(x) \in Words /\ Mix2(x) \in Words /\ Mix3(x) \in Words
BY DEF Words, Mix1, Mix2, Mix3, Xor, ShiftLeft, ShiftRight

(* A left shift is undone bit by bit from the lowest: bit b of the result  *)
(* tells bit b of the word once bit b - 13 is known.                       *)
LEMMA Mix1Injective ==
  ASSUME NEW x \in Words, NEW y \in Words, Mix1(x) = Mix1(y)
  PROVE  x = y
<1>1. \A b \in Bits : (b \in x <=> b \in y) <=> (b - 13 \in x <=> b - 13 \in y)
  BY DEF Mix1, Xor, ShiftLeft, Words, Bits
<1>2. \A b \in Bits : b < 13 => (b \in x <=> b \in y)
  BY <1>1 DEF Words, Bits, Width
<1>3. \A b \in Bits : b < 26 => (b \in x <=> b \in y)
  BY <1>1, <1>2 DEF Words, Bits, Width
<1>4. \A b \in Bits : b \in x <=> b \in y
  BY <1>1, <1>3 DEF Words, Bits, Width
<1> QED BY <1>4 DEF Words

(* A right shift is undone from the highest bit. *)
LEMMA Mix2Injective ==
  ASSUME NEW x \in Words, NEW y \in Words, Mix2(x) = Mix2(y)
  PROVE  x = y
<1>1. \A b \in Bits : (b \in x <=> b \in y) <=> (b + 17 \in x <=> b + 17 \in y)
  BY DEF Mix2, Xor, ShiftRight, Words, Bits
<1>2. \A b \in Bits : b >= 15 => (b \in x <=> b \in y)
  BY <1>1 DEF Words, Bits, Width
<1>3. \A b \in Bits : b \in x <=> b \in y
  BY <1>1, <1>2 DEF Words, Bits, Width
<1> QED BY <1>3 DEF Words

LEMMA Mix3Injective ==
  ASSUME NEW x \in Words, NEW y \in Words, Mix3(x) = Mix3(y)
  PROVE  x = y
<1> DEFINE Same(n) == \A b \in Bits : b < n => (b \in x <=> b \in y)
<1>1. \A b \in Bits : (b \in x <=> b \in y) <=> (b - 5 \in x <=> b - 5 \in y)
  BY DEF Mix3, Xor, ShiftLeft, Words, Bits
<1>2. Same(5)
  BY <1>1 DEF Words, Bits, Width
<1>3. ASSUME NEW n \in Nat, Same(n) PROVE Same(n + 5)
  BY <1>1, <1>2, <1>3 DEF Words, Bits, Width
<1> HIDE DEF Same
<1>4. Same(10) BY <1>2, <1>3
<1>5. Same(15) BY <1>4, <1>3
<1>6. Same(20) BY <1>5, <1>3
<1>7. Same(25) BY <1>6, <1>3
<1>8. Same(30) BY <1>7, <1>3
<1>9. Same(35) BY <1>8, <1>3
<1>10. \A b \in Bits : b \in x <=> b \in y
  BY <1>9 DEF Same, Bits, Width
<1> QED BY <1>10 DEF Words

(* Two words never step to the same one: the stream of a seed comes back   *)
(* to the seed, as reset() and the reproducible benchmarks need, and never *)
(* runs into a shorter cycle (Prng.next).                                  *)
THEOREM StepInjective ==
  ASSUME NEW x \in Words, NEW y \in Words, Step(x) = Step(y)
  PROVE  x = y
<1>1. Mix2(Mix1(x)) = Mix2(Mix1(y))
  BY StepType, Mix3Injective DEF Step
<1>2. Mix1(x) = Mix1(y)
  BY <1>1, StepType, Mix2Injective
<1> QED BY <1>2, Mix1Injective

LEMMA StepOfZero == Step({}) = {}
BY DEF Step, Mix1, Mix2, Mix3, Xor, ShiftLeft, ShiftRight, Bits

(* A generator that was seeded is never at 0, whatever the seed and        *)
(* however often it steps: not by the seed, and not by a step from a word  *)
(* that is not 0 (the constructor's remap, Prng.next).                     *)
THEOREM NeverStuck ==
  /\ \A seed \in Words : Seeded(seed) \in Words \ {{}}
  /\ \A x \in Words \ {{}} : Step(x) \in Words \ {{}}
<1>1. \A seed \in Words : Seeded(seed) \in Words \ {{}}
  BY DEF Seeded, DefaultSeed, Words, Bits, Width
<1>2. ASSUME NEW x \in Words, x # {}
      PROVE  Step(x) \in Words \ {{}}
  <2>1. Step(x) \in Words
    BY StepType DEF Step
  <2>2. {} \in Words
    BY DEF Words
  <2> QED BY <1>2, <2>1, <2>2, StepOfZero, StepInjective
<1> QED BY <1>1, <1>2
===============================================================================
