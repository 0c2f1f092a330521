------------------------------- MODULE Limbs --------------------------------
(***************************************************************************)
(* Sequences of calls of the limb arithmetic of Field and Scalar, as the   *)
(* curve code makes them: each call works on the results of earlier ones.  *)
(* A register keeps, beside the limbs, the number they have to stand for   *)
(* (val) and how many products were added up in it since a carry (weight). *)
(***************************************************************************)
EXTENDS Field, Scalar

CONSTANTS
  FieldInputs,   \* byte strings (integers) a register can be read from
  ScalarInputs,  \* scalars
  MaxCalls,      \* bound of the calls in a row
  MaxWeight,     \* 3: what ProjectiveGroupElement.Double leaves to a product
  ChainModuli    \* the numbers modulo which exponents of the chains are compared

VARIABLES
  unit,    \* "field" or "scalar": what this sequence of calls is about
  x, y,    \* the last two results in the field
  s,       \* the last result modulo l
  calls

vars == <<unit, x, y, s, calls>>

p == pow2(FieldBits) - 19
l == LET term(k) == Mu[k] * 2^((k - 1) * ScWide)
     IN  2^(ScLimbs * ScWide) - MapThenSumSet(term, DOMAIN Mu)

(* The shapes of limbs that the arithmetic is meant for: of an even number,
   wide against a byte and against the 19 of the prime.                    *)
FieldShape ==
  /\ {Limbs, Wide, ByteBits} \subseteq Nat
  /\ FieldInputs \subseteq Nat /\ ChainModuli \subseteq Nat \ {0}
  /\ Limbs >= 2 /\ Limbs % 2 = 0
  /\ 1 <= ByteBits /\ ByteBits <= Wide /\ 4 <= Wide

(* The room that a limb leaves for carries that come back times 19, after a
   product of sums of MaxWeight products, canonical limbs among them.      *)
FieldRoom ==
  /\ MaxWeight \in Nat /\ MaxWeight >= 2
  /\ 147200 * Limbs * MaxWeight * MaxWeight <= pow2(Wide - 2)

(* a b mod m, bit by bit. *)
MulMod(a, b, m, bits) ==
  LET d[k \in 0 .. bits] ==
        IF k = 0 THEN 0 ELSE (((2 * d[k - 1]) % m) + ((b \div pow2(bits - k)) % 2) * (a % m)) % m
  IN  d[bits]

fmul(a, b) == MulMod(a, b, p, FieldBits)

-----------------------------------------------------------------------------
Read(b) == [fe |-> FeFromBytes(b), val |-> (b % pow2(FieldBits)) % p, weight |-> 1]

ScRead(a) ==
  LET step(acc, j) == (acc * 2^ScByteBits + a[j]) % l
      n == Cardinality(DOMAIN a)
  IN  FoldLeft(step, 0, [j \in 1 .. n |-> n - j])

Init ==
  /\ unit \in {"field", "scalar"}
  /\ \E a, b \in FieldInputs : x = Read(a) /\ y = Read(b)
  /\ \E a \in ScalarInputs : s = [bytes |-> a, val |-> ScRead(a)]
  /\ unit = "field" => s.bytes = [j \in 0 .. ScBytes - 1 |-> 0]
  /\ unit = "scalar" => x.val = 0 /\ y.val = 0
  /\ calls = 0

Call(u) == unit = u /\ calls < MaxCalls /\ calls' = calls + 1 /\ UNCHANGED unit

Result(fe, val, weight) ==
  Call("field") /\ x' = [fe |-> fe, val |-> val, weight |-> weight] /\ y' = x /\ UNCHANGED s

Constant == Result(FeZero, 0, 1) \/ Result(FeOne, 1, 1)

Add ==
  x.weight + y.weight <= MaxWeight
    /\ Result(FeAdd(x.fe, y.fe), (x.val + y.val) % p, x.weight + y.weight)

Sub ==
  x.weight + y.weight <= MaxWeight
    /\ Result(FeSub(x.fe, y.fe), (x.val - y.val) % p, x.weight + y.weight)

Neg == Result(FeNeg(x.fe), (-x.val) % p, x.weight)

Mul == Result(FeMul(x.fe, y.fe), fmul(x.val, y.val), 1)
Square == Result(FeSquare(x.fe), fmul(x.val, x.val), 1)

(* FeSquare2 is called with a coordinate Z only: a product, or one. *)
Square2 == x.weight = 1 /\ Result(FeSquare2(x.fe), fmul(x.val, (2 * x.val) % p), 1)

CMove ==
  \E b \in {0, 1} : LET r == IF b = 1 THEN y ELSE x
                    IN  Result(FeCMove(x.fe, y.fe, b), r.val, r.weight)

(* FeToBytes, FeIsNegative and FeIsNonZero write canonical limbs into their
   argument, and FromBytes computes on with it.  These fill their width and
   not half of it: they weigh as much as two products.                     *)
ToBytes ==
  /\ Call("field")
  /\ x' = [fe |-> Canonical(x.fe), val |-> x.val, weight |-> 2]
  /\ UNCHANGED <<y, s>>

MulAdd ==
  /\ Call("scalar") /\ UNCHANGED <<x, y>>
  /\ \E b, c \in ScalarInputs :
       s' = [bytes |-> ScMulAdd(s.bytes, b, c),
             val   |-> (MulMod(s.val, ScRead(b), l, ScLimbs * ScWide + 1) + ScRead(c)) % l]

Reduce ==
  /\ Call("scalar") /\ UNCHANGED <<x, y>>
  /\ \E a \in ScalarInputs :
       LET both == [j \in 0 .. 2 * ScBytes - 1 |-> IF j < ScBytes THEN s.bytes[j] ELSE a[j - ScBytes]]
       IN  s' = [bytes |-> ScReduce(both), val |-> ScRead(both)]

Next == Constant \/ Add \/ Sub \/ Neg \/ Mul \/ Square \/ Square2 \/ CMove \/ ToBytes
          \/ MulAdd \/ Reduce

Spec == Init /\ [][Next]_vars

-----------------------------------------------------------------------------
(* The limbs stand for the number that the calls so far compute modulo p.    *)
(* A carry that is lost, or comes back at a wrong limb or without the        *)
(* factor 19, shows here after some further product.                         *)
LimbsExact == \A r \in {x, y} : (Value(r.fe) - r.val) % p = 0

(* FeToBytes gives the one encoding below p, also for an element that is a   *)
(* sum of products not carried since; sign and zero test follow it.          *)
BytesExact ==
  \A r \in {x, y} : /\ FeToBytes(r.fe) = r.val
                    /\ FeIsNegative(r.fe) = r.val % 2
                    /\ FeIsNonZero(r.fe) = (IF r.val = 0 THEN 0 ELSE 1)

(* The bounds the comments of FeMul and FeSquare promise: each limb of a     *)
(* product is at most 1.1 times half its range, so that a sum of MaxWeight   *)
(* products can be multiplied again and nothing overflows in a long          *)
(* computation, also one that goes on with what FeToBytes wrote.             *)
LimbsBounded ==
  \A r \in {x, y}, i \in Limb :
    /\ 10 * r.fe[i] <= 11 * r.weight * pow2(Width(i) - 1)
    /\ -10 * r.fe[i] <= 11 * r.weight * pow2(Width(i) - 1)

(* A result of ScMulAdd or ScReduce is a b + c, or s, modulo l, and below l: *)
(* the second fold of limb 12 is enough for every input.                     *)
ScalarExact ==
  ScRead(s.bytes) = s.val /\ (calls > 0 /\ unit = "scalar" =>
     LET term(j) == s.bytes[j] * 2^(ScByteBits * j)
     IN  MapThenSumSet(term, DOMAIN s.bytes) = s.val)

(* The chain of FeInvert raises to p - 2 and that of fePow22523 to (p - 5)/8  *)
(* for p = 2^255 - 19: exponents are compared modulo numbers whose product    *)
(* exceeds them.                                                              *)
ChainsExact ==
  unit = "field" /\ calls = 0 =>
    \A m \in ChainModuli : /\ FeInvert(m) = (Squarings(1, 255, m) - 21) % m
                           /\ fePow22523(m) = (Squarings(1, 252, m) - 3) % m
=============================================================================
