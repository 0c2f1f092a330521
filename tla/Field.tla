------------------------------- MODULE Field --------------------------------
(***************************************************************************)
(* Arithmetic in GF(2^255 - 19) (vrf/edwards25519/edwards25519.go,         *)
(* FieldElement): an element is an array of signed limbs of 26 and 25 bits *)
(* in turn.  The number of limbs, their width and the width of a byte are  *)
(* parameters; all limbs together have the bits of the prime, and what     *)
(* overflows the last limb comes back to the first one times 19.           *)
(*                                                                         *)
(* A byte string stands for the integer it encodes, little end first.      *)
(***************************************************************************)
EXTENDS Powers, Sequences, SequencesExt

CONSTANTS
  Limbs,    \* 10
  Wide,     \* 26: the bits of an even limb; an odd one has one bit less
  ByteBits  \* 8

Limb == 0 .. Limbs - 1
Width(i) == IF i % 2 = 0 THEN Wide ELSE Wide - 1

(* The exponent of limb i: 0, 26, 51, 77, ... *)
Offset(i) == i * Wide - (i \div 2)
FieldBits == Offset(Limbs)

shiftR(x, n) == x \div pow2(n)

-----------------------------------------------------------------------------
FeZero == [i \in Limb |-> 0]
FeOne == [FeZero EXCEPT ![0] = 1]
FeAdd(a, b) == [i \in Limb |-> a[i] + b[i]]
FeSub(a, b) == [i \in Limb |-> a[i] - b[i]]
FeNeg(f) == [i \in Limb |-> -f[i]]

(* The limbs of g if b is 1, those of f if it is 0. *)
FeCMove(f, g, b) == IF b = 1 THEN g ELSE f

(* Mutant: what overflows the last limb is dropped. *)
MutCarry(h, i) ==
  LET c == shiftR(h[i] + pow2(Width(i) - 1), Width(i))
  IN  IF i = Limbs - 1
        THEN [h EXCEPT ![i] = @ - c * pow2(Width(i))]
        ELSE [h EXCEPT ![i] = @ - c * pow2(Width(i)), ![i + 1] = @ + c]

(* The carry from limb i, rounded, so that what is left is small in absolute
   value.                                                                  *)
carry(h, i) ==
  LET c == shiftR(h[i] + pow2(Width(i) - 1), Width(i))
      g == [h EXCEPT ![i] = @ - c * pow2(Width(i))]
  IN  IF i = Limbs - 1 THEN [g EXCEPT ![0] = @ + 19 * c]
                       ELSE [g EXCEPT ![i + 1] = @ + c]

(* Mutant: no carry after the one around the end. *)
MutCarryOrder ==
  LET m == Limbs \div 2 - 1
  IN  [k \in 1 .. 2 * m |-> IF k % 2 = 1 THEN k \div 2 ELSE m + k \div 2 - 1]
        \o <<m, 2 * m, 2 * m + 1>>

(* Two chains of carries, from limb 0 and from the limb in the middle, then
   the one around the end.                                                 *)
CarryOrder ==
  LET m == Limbs \div 2 - 1
  IN  [k \in 1 .. 2 * m |-> IF k % 2 = 1 THEN k \div 2 ELSE m + k \div 2 - 1]
        \o <<m, 2 * m, 2 * m + 1, 0>>

FeCombine(h) == FoldLeft(carry, h, CarryOrder)

(* The limbs of a product, schoolbook: two odd limbs are half a bit short of
   their place each, and limbs beyond the last one wrap around.            *)
Products(f, g) ==
  [k \in Limb |->
     LET term(i) == LET j == (k - i) % Limbs
                    IN  f[i] * g[j] * (IF i % 2 = 1 /\ j % 2 = 1 THEN 2 ELSE 1)
                                    * (IF i + j >= Limbs THEN 19 ELSE 1)
     IN  MapThenSumSet(term, Limb)]

FeMul(f, g) == FeCombine(Products(f, g))

(* Each product of two different limbs once, doubled. *)
feSquare(f) ==
  [k \in Limb |->
     LET pairs == {i \in Limb : i <= (k - i) % Limbs}
         term(i) == LET j == (k - i) % Limbs
                    IN  f[i] * f[j] * (IF i = j THEN 1 ELSE 2)
                                    * (IF i % 2 = 1 /\ j % 2 = 1 THEN 2 ELSE 1)
                                    * (IF i + j >= Limbs THEN 19 ELSE 1)
     IN  MapThenSumSet(term, pairs)]

FeSquare(f) == FeCombine(feSquare(f))
FeSquare2(f) == FeCombine([k \in Limb |-> 2 * feSquare(f)[k]])

-----------------------------------------------------------------------------
(* Bytes.                                                                  *)

(* load3 and load4: the bits of s from lo up to hi. *)
load(s, lo, hi) == (s \div pow2(lo)) % pow2(hi - lo)

(* Limbs are read from whole bytes: limb i from the first byte that begins at
   its exponent or above.  The bit above the prime, the sign, is dropped.  *)
Start(i) ==
  IF i = Limbs THEN FieldBits ELSE ByteBits * ((Offset(i) + ByteBits - 1) \div ByteBits)

FeFromBytes(s) ==
  FeCombine([i \in Limb |-> load(s, Start(i), Start(i + 1)) * pow2(Start(i) - Offset(i))])

(* Mutant: the carry of the quotient starts without the 19 h9 / 2^25. *)
MutQuotient(h) ==
  LET q(c, i) == shiftR(h[i] + c, Width(i))
  IN  FoldLeft(q, 0, [k \in 1 .. Limbs |-> k - 1])

(* q = floor(h / p), by a carry through all limbs. *)
Quotient(h) ==
  LET q(c, i) == shiftR(h[i] + c, Width(i))
  IN  FoldLeft(q, shiftR(19 * h[Limbs - 1] + pow2(Width(Limbs - 1) - 1), Width(Limbs - 1)),
               [k \in 1 .. Limbs |-> k - 1])

(* The carry from limb i, rounded down; that from the last one is left out. *)
floorCarry(h, i) ==
  LET c == shiftR(h[i], Width(i))
      g == [h EXCEPT ![i] = @ - c * pow2(Width(i))]
  IN  IF i = Limbs - 1 THEN g ELSE [g EXCEPT ![i + 1] = @ + c]

(* The limbs of h - p q, each in its width.  FeToBytes leaves them in its
   argument (Limbs!ToBytes), also when FeIsNegative or FeIsNonZero call it. *)
Canonical(h) ==
  FoldLeft(floorCarry, [h EXCEPT ![0] = @ + 19 * Quotient(h)], [k \in 1 .. Limbs |-> k - 1])

Value(h) == LET term(i) == h[i] * pow2(Offset(i)) IN MapThenSumSet(term, Limb)

(* The bytes that these limbs make up. *)
FeToBytes(h) == Value(Canonical(h))

FeIsNegative(f) == FeToBytes(f) % 2
FeIsNonZero(f) == IF FeToBytes(f) = 0 THEN 0 ELSE 1

-----------------------------------------------------------------------------
(* Powers.  The addition chains of FeInvert and fePow22523, by the exponent *)
(* of z that they reach: a product adds exponents and n squarings shift one *)
(* by n.  Exponents are kept modulo m.                                      *)

(* a 2^n mod m for m < 2^15, 15 bits at a time. *)
Squarings(a, n, m) ==
  LET d[k \in 0 .. n \div 15] == IF k = 0 THEN (a * pow2(n % 15)) % m ELSE (d[k - 1] * pow2(15)) % m
  IN  d[n \div 15]

(* The exponents 11 and 2^5 - 1 that the chains begin with, and 2^250 - 1. *)
z11(m) == LET t0 == Squarings(1, 1, m) IN (t0 + (1 + Squarings(t0, 2, m))) % m
z5(m) == LET t1 == 1 + Squarings(1, 3, m) IN (t1 + Squarings(z11(m), 1, m)) % m

z250(m) ==
  LET mul(a, b) == (a + b) % m
      t10  == mul(Squarings(z5(m), 5, m), z5(m))
      t20  == mul(Squarings(t10, 10, m), t10)
      t40  == mul(Squarings(t20, 20, m), t20)
      t50  == mul(Squarings(t40, 10, m), t10)
      t100 == mul(Squarings(t50, 50, m), t50)
      t200 == mul(Squarings(t100, 100, m), t100)
  IN  mul(Squarings(t200, 50, m), t50)

(* Mutant: the loop of the last squarings runs once too often. *)
MutFeInvert(m) == (Squarings(z250(m), 6, m) + z11(m)) % m

(* 1/z = z^(2^255 - 21). *)
FeInvert(m) == (Squarings(z250(m), 5, m) + z11(m)) % m

(* z^(2^252 - 3). *)
fePow22523(m) == (Squarings(z250(m), 2, m) + 1) % m
=============================================================================
