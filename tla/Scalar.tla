------------------------------- MODULE Scalar -------------------------------
(***************************************************************************)
(* Arithmetic modulo the order of the base point, l = 2^252 + delta        *)
(* (vrf/edwards25519/edwards25519.go, ScMulAdd and ScReduce): numbers of   *)
(* 12 limbs of 21 bits, products of 24.  2^252 is the small number -delta  *)
(* modulo l, kept as the limbs Mu, so that a limb from 12 on is folded     *)
(* into the ones below by a multiplication with Mu.                        *)
(*                                                                         *)
(* The number of limbs, their width, the width of a byte and Mu are        *)
(* parameters.  A scalar is the function from byte positions to bytes.     *)
(***************************************************************************)
EXTENDS Integers, Sequences, SequencesExt

CONSTANTS
  ScLimbs,      \* 12
  ScWide,       \* 21
  ScByteBits,   \* 8
  ScBytes,      \* 32: the bytes of a scalar
  Mu            \* <<666643, 470296, 654183, -997805, 136657, -683901>>

(* The limbs of a product, s0 .. s23. *)
Double == 0 .. 2 * ScLimbs - 1

bit(s, k) == (s[k \div ScByteBits] \div 2^(k % ScByteBits)) % 2

(* Limb i of the number of m limbs that the bytes s hold: all bits that are
   left are in the last one.                                               *)
loadLimb(s, i, m) ==
  LET lo == i * ScWide
      hi == IF i = m - 1 THEN ScByteBits * (IF m = ScLimbs THEN 1 ELSE 2) * ScBytes
                         ELSE lo + ScWide
      term(k) == bit(s, k) * 2^(k - lo)
  IN  MapThenSumSet(term, lo .. hi - 1)

(* c + a b, schoolbook. *)
MulAddLimbs(a, b, c) ==
  [k \in Double |->
     LET term(i) == loadLimb(a, i, ScLimbs) * loadLimb(b, k - i, ScLimbs)
         low == 0 .. ScLimbs - 1
     IN  (IF k \in low THEN loadLimb(c, k, ScLimbs) ELSE 0)
           + MapThenSumSet(term, {i \in low : k - i \in low})]

-----------------------------------------------------------------------------
roundCarry(s, i) ==
  LET c == (s[i] + 2^(ScWide - 1)) \div 2^ScWide
  IN  [s EXCEPT ![i] = @ - c * 2^ScWide, ![i + 1] = @ + c]

downCarry(s, i) ==
  LET c == s[i] \div 2^ScWide
  IN  [s EXCEPT ![i] = @ - c * 2^ScWide, ![i + 1] = @ + c]

(* Mutant: the last coefficient is left out. *)
MutFold(s, i) ==
  [k \in Double |->
     IF k = i THEN 0
     ELSE IF k - (i - ScLimbs) + 1 \in 1 .. Len(Mu) - 1
       THEN s[k] + s[i] * Mu[k - (i - ScLimbs) + 1] ELSE s[k]]

(* Limb i, i >= 12, times 2^(21 i) is s[i] Mu times 2^(21 (i - 12)). *)
fold(s, i) ==
  [k \in Double |->
     IF k = i THEN 0
     ELSE IF k - (i - ScLimbs) + 1 \in DOMAIN Mu
       THEN s[k] + s[i] * Mu[k - (i - ScLimbs) + 1] ELSE s[k]]

(* <<lo, lo + by, ...>> up to hi, and <<hi, hi - 1, ...>> down to lo. *)
up(lo, hi, by) == [k \in 1 .. (hi - lo) \div by + 1 |-> lo + (k - 1) * by]
down(hi, lo) == [k \in 1 .. hi - lo + 1 |-> hi - (k - 1)]

(* Even limbs first, then the odd ones in between. *)
roundCarries(s, lo, lastEven, lastOdd) ==
  FoldLeft(roundCarry, s, up(lo, lastEven, 2) \o up(lo + 1, lastOdd, 2))

Half == ScLimbs \div 2

(* From 24 limbs to 18, carries over the limbs that were folded into, ... *)
FoldHigh(s) ==
  roundCarries(FoldLeft(fold, s, down(2 * ScLimbs - 1, ScLimbs + Half)),
               Half, ScLimbs + Half - 2, ScLimbs + Half - 3)

(* ... then to 12 and what is carried from limb 11 ... *)
FoldLow(s) ==
  roundCarries(FoldLeft(fold, s, down(ScLimbs + Half - 1, ScLimbs)),
               0, ScLimbs - 2, ScLimbs - 1)

(* Mutant: the second time around for limb 12 is left out. *)
MutFinish(s) == FoldLeft(downCarry, fold(s, ScLimbs), up(0, ScLimbs - 2, 1))

(* ... which is folded, carried to again, and folded again. *)
Finish(s) ==
  LET t == FoldLeft(downCarry, fold(s, ScLimbs), up(0, ScLimbs - 1, 1))
  IN  FoldLeft(downCarry, fold(t, ScLimbs), up(0, ScLimbs - 2, 1))

(* The limbs 0 .. 11 as bytes. *)
scToBytes(s) ==
  LET term(i) == s[i] * 2^(i * ScWide)
      v == MapThenSumSet(term, 0 .. ScLimbs - 1)
  IN  [j \in 0 .. ScBytes - 1 |-> (v \div 2^(ScByteBits * j)) % 2^ScByteBits]

reduce(s) == scToBytes(Finish(FoldLow(FoldHigh(s))))

(* (a b + c) mod l. *)
ScMulAdd(a, b, c) ==
  reduce(roundCarries(MulAddLimbs(a, b, c), 0, 2 * ScLimbs - 2, 2 * ScLimbs - 3))

(* s mod l, for twice as many bytes. *)
ScReduce(s) == reduce([i \in Double |-> loadLimb(s, i, 2 * ScLimbs)])
=============================================================================
