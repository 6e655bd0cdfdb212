--------------------------------- MODULE Prng ---------------------------------
(***************************************************************************)
(* The xorshift32 generator of Pick.js that every random choice draws      *)
(* from, at its full width.  A word is the set of its bits that are 1, so  *)
(* exclusive or is symmetric difference and a shift moves the members.     *)
(***************************************************************************)
EXTENDS Integers

Width == 32
Bits == 0 .. Width-1
Words == SUBSET Bits

Xor(x, y) == (x \ y) \cup (y \ x)
ShiftLeft(x, k) == {b \in Bits : b - k \in x}       \* x << k, cut to 32 bits
ShiftRight(x, k) == {b \in Bits : b + k \in x}      \* x >>> k

(* new Prng(seed): 0 is remapped to 0x9e3779b9, a generator at 0 would     *)
(* stay there.                                                             *)
DefaultSeed == {0, 3, 4, 5, 7, 8, 11, 12, 13, 14, 16, 17, 18, 20, 21, 25, 26, 27, 28, 31}
Bug_Seeded(seed) == seed
Seeded(seed) == IF seed = {} THEN DefaultSeed ELSE seed

(* next(): the three exclusive ors of a step. *)
Mix1(x) == Xor(x, ShiftLeft(x, 13))
Mix2(x) == Xor(x, ShiftRight(x, 17))
Mix3(x) == Xor(x, ShiftLeft(x, 5))
Step(x) == Mix3(Mix2(Mix1(x)))

(* floor(x / 2^32 * n), the scaling of nextBelow(n): bit by bit from the   *)
(* lowest, for halving and taking the floor as it goes loses nothing.      *)
Below(x, n) ==
  LET top[b \in -1 .. Width-1] ==
        IF b = -1 THEN 0 ELSE (top[b-1] + IF b \in x THEN n ELSE 0) \div 2
  IN  top[Width-1]
===============================================================================
