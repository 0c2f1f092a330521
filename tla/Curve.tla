------------------------------- MODULE Curve --------------------------------
(***************************************************************************)
(* Points of the twisted Edwards curve -x^2 + y^2 = 1 + d x^2 y^2          *)
(* (vrf/edwards25519/edwards25519.go and const.go) in the four kinds of    *)
(* coordinates of the code, over the integers modulo P; Field models how   *)
(* the code computes modulo 2^255 - 19.  The prime, the curve and the      *)
(* length of a scalar are parameters: everything else is as in the code.   *)
(*                                                                         *)
(* Scalars and encoded points stand for the integers they encode, little   *)
(* end first; the top bit of an encoded point is the sign of x.            *)
(***************************************************************************)
EXTENDS Integers, Sequences, SequencesExt

CONSTANTS
  P,           \* 2^255 - 19
  d,           \* a non-square
  SqrtM1,      \* a square root of -1
  Base,        \* the base point <<x, y>>, of prime order
  SignBit,     \* 2^255
  ScalarBits   \* 256

F(x) == x % P
d2 == F(2 * d)

(* The one element of a set.  TLC evaluates it where the set is, and not where
   the element is used in the end, deep in a loop.                          *)
The(S) == CHOOSE e \in S : TRUE

(* A loop: op(acc, s[k]) for each k in turn. *)
Loop(op(_, _), start, s) ==
  LET acc[k \in 0 .. Len(s)] ==
        IF k = 0 THEN start ELSE The({op(a, s[k]) : a \in {acc[k - 1]}})
  IN  acc[Len(s)]

(* z^e. *)
Power(z, e) ==
  LET pow[k \in 0 .. e] ==
        IF k = 0 THEN 1
        ELSE The({F(F(h * h) * (IF k % 2 = 1 THEN z ELSE 1)) : h \in {pow[k \div 2]}})
  IN  pow[e]

Invert(z) == Power(z, P - 2)
Pow22523(z) == Power(z, (P - 5) \div 8)
IsNegative(x) == x % 2

-----------------------------------------------------------------------------
(* The group elements: Projective, Extended, Completed, PreComputed, Cached. *)

ProjectiveZero == [X |-> 0, Y |-> 1, Z |-> 1]
ExtendedZero == [X |-> 0, Y |-> 1, Z |-> 1, T |-> 0]
PreComputedZero == [yPlusX |-> 1, yMinusX |-> 1, xy2d |-> 0]

Double(p) ==
  LET xx == F(p.X * p.X)
      yy == F(p.Y * p.Y)
      t0 == F((p.X + p.Y) * (p.X + p.Y))
  IN  [X |-> F(t0 - (yy + xx)), Y |-> F(yy + xx), Z |-> F(yy - xx),
       T |-> F(2 * p.Z * p.Z - (yy - xx))]

(* ToBytes of Projective and Extended. *)
ToBytes(p) ==
  LET recip == Invert(p.Z)
  IN  F(p.Y * recip) + SignBit * IsNegative(F(p.X * recip))

ToCached(p) ==
  [yPlusX |-> F(p.Y + p.X), yMinusX |-> F(p.Y - p.X), Z |-> p.Z, T2d |-> F(p.T * d2)]

(* ToProjective and ToExtended of Completed. *)
ToProjective(p) == [X |-> F(p.X * p.T), Y |-> F(p.Y * p.Z), Z |-> F(p.Z * p.T)]
ToExtended(p) ==
  [X |-> F(p.X * p.T), Y |-> F(p.Y * p.Z), Z |-> F(p.Z * p.T), T |-> F(p.X * p.Y)]

nil == [X |-> -1]

(* u v^3 (u v^7)^((P-5)/8): the root of u / v, up to a root of -1. *)
candidate(u, v, v3) == F(F(Pow22523(F(F(F(v3 * v3) * v) * u)) * v3) * u)

(* The point with this x or its negative, by the sign. *)
signed(x, y, sign) ==
  LET X == IF IsNegative(x) = sign THEN x ELSE F(-x)
  IN  [X |-> X, Y |-> y, Z |-> 1, T |-> F(X * y)]

(* Mutant: the root of -1 is not multiplied to the candidate. *)
MutFromCandidate(r, vxx, u, y, sign) ==
  IF vxx = u THEN signed(r, y, sign)
  ELSE IF vxx = F(-u) THEN signed(r, y, sign)
  ELSE nil

fromCandidate(r, vxx, u, y, sign) ==
  IF vxx = u THEN signed(r, y, sign)
  ELSE IF vxx = F(-u) THEN signed(F(r * SqrtM1), y, sign)
  ELSE nil

(* The point with y as given and x = sqrt((y^2 - 1) / (d y^2 + 1)), or nil. *)
FromBytes(s) ==
  LET y == F(s % SignBit)
      u == F(y * y - 1)
      v == F(d * F(y * y) + 1)
      r == candidate(u, v, F(F(v * v) * v))
  IN  fromCandidate(r, F(F(r * r) * v), u, y, s \div SignBit)

-----------------------------------------------------------------------------
(* Addition: a and b are the products of the sums and differences, t0 twice  *)
(* the product of the Zs, t the product of the Ts with 2d.                   *)

completed(a, b, t0, t) == [X |-> F(a - b), Y |-> F(a + b), Z |-> F(t0 + t), T |-> F(t0 - t)]

geAdd(p, q) ==
  completed(F((p.Y + p.X) * q.yPlusX), F((p.Y - p.X) * q.yMinusX), 2 * F(p.Z * q.Z), F(q.T2d * p.T))
geSub(p, q) ==
  completed(F((p.Y + p.X) * q.yMinusX), F((p.Y - p.X) * q.yPlusX), 2 * F(p.Z * q.Z), -F(q.T2d * p.T))
geMixedAdd(p, q) ==
  completed(F((p.Y + p.X) * q.yPlusX), F((p.Y - p.X) * q.yMinusX), 2 * p.Z, F(q.xy2d * p.T))

(* Mutant: only the sums are exchanged, the sign of t is not. *)
MutGeMixedSub(p, q) ==
  completed(F((p.Y + p.X) * q.yMinusX), F((p.Y - p.X) * q.yPlusX), 2 * p.Z, F(q.xy2d * p.T))

geMixedSub(p, q) ==
  completed(F((p.Y + p.X) * q.yMinusX), F((p.Y - p.X) * q.yPlusX), 2 * p.Z, -F(q.xy2d * p.T))

-----------------------------------------------------------------------------
(* The reference: affine points and their sum.                             *)
AffineAdd(p, q) ==
  LET t == F(F(d * F(p[1] * q[1])) * F(p[2] * q[2]))
  IN  <<F(F(p[1] * q[2] + q[1] * p[2]) * Invert(F(1 + t))),
        F(F(p[2] * q[2] + p[1] * q[1]) * Invert(F(1 - t)))>>

Multiple(n, p) ==
  LET m[k \in 0 .. n] ==
        IF k = 0 THEN <<0, 1>>
        ELSE The({IF k % 2 = 1 THEN AffineAdd(twice, p) ELSE twice :
                    twice \in {AffineAdd(h, h) : h \in {m[k \div 2]}}})
  IN  m[n]

Affine(p) == <<F(p.X * Invert(p.Z)), F(p.Y * Invert(p.Z))>>

(* The tables of const.go, by the multiple of the base point that each entry
   is: odd ones up to 15 B, and (j + 1) 256^i B.                            *)
precomputed(b) ==
  [yPlusX |-> F(b[2] + b[1]), yMinusX |-> F(b[2] - b[1]), xy2d |-> F(F(d2 * b[1]) * b[2])]

bi == [j \in 0 .. 7 |-> precomputed(Multiple(2 * j + 1, Base))]
base ==
  [i \in 0 .. ScalarBits \div 8 - 1 |-> [j \in 0 .. 7 |-> precomputed(Multiple((j + 1) * 256^i, Base))]]

-----------------------------------------------------------------------------
Bits == 0 .. ScalarBits - 1
Ascending(n) == [k \in 1 .. n |-> k - 1]

(* The carry when 2^b is taken from digit i: the run of ones from i + b on is
   cleared and the zero after it set; at the top of the array it is lost.  *)
borrow(r, k) ==
  LET zeros == {z \in Bits : z >= k /\ r[z] = 0}
      z == IF zeros = {} THEN ScalarBits ELSE CHOOSE m \in zeros : \A n \in zeros : m <= n
  IN  [j \in Bits |-> IF j = z THEN 1 ELSE IF j >= k /\ j < z THEN 0 ELSE r[j]]

(* One b of the loop at digit i; at.go is false after the break. *)
slideStep(at, i, b) ==
  LET r == at.r
      up == r[i + b] * 2^b
  IN  IF ~at.go \/ i + b \notin Bits \/ r[i] = 0 THEN at
      ELSE IF r[i + b] = 0 THEN at
      ELSE IF r[i] + up <= 15 THEN [at EXCEPT !.r = [r EXCEPT ![i] = @ + up, ![i + b] = 0]]
      ELSE IF r[i] - up >= -15
        THEN [at EXCEPT !.r = borrow([r EXCEPT ![i] = @ - up], i + b)]
      ELSE [at EXCEPT !.go = FALSE]

(* The digits of a: zero or odd, of at most 15 in absolute value. *)
slide(a) ==
  LET digit(r, i) ==
        LET step(at, b) == slideStep(at, i, b)
        IN  Loop(step, [r |-> r, go |-> TRUE], [b \in 1 .. 6 |-> b]).r
  IN  Loop(digit, [i \in Bits |-> (a \div 2^i) % 2], Ascending(ScalarBits))

(* a A + b B, from the highest digit of either that is not zero. *)
GeDoubleScalarMultVartime(a, A, b) ==
  LET aS == slide(a)
      bS == slide(b)
      A2 == ToExtended(Double(A))
      Ai[j \in 0 .. 7] == IF j = 0 THEN ToCached(A) ELSE ToCached(ToExtended(geAdd(A2, Ai[j - 1])))
      top == {i \in Bits : \E k \in Bits : k >= i /\ (aS[k] # 0 \/ bS[k] # 0)}
      step(r, i) ==
        LET t == Double(r)
            ta == IF aS[i] > 0 THEN geAdd(ToExtended(t), Ai[aS[i] \div 2])
                  ELSE IF aS[i] < 0 THEN geSub(ToExtended(t), Ai[(-aS[i]) \div 2]) ELSE t
            tb == IF bS[i] > 0 THEN geMixedAdd(ToExtended(ta), bi[bS[i] \div 2])
                  ELSE IF bS[i] < 0 THEN geMixedSub(ToExtended(ta), bi[(-bS[i]) \div 2]) ELSE ta
        IN  ToProjective(tb)
  IN  Loop(step, ProjectiveZero, Reverse(Ascending(Cardinality(top))))

(* b 256^pos B for -8 <= b <= 8. *)
minus(t) == [yPlusX |-> t.yMinusX, yMinusX |-> t.yPlusX, xy2d |-> F(-t.xy2d)]
selectPoint(pos, b) ==
  IF b = 0 THEN PreComputedZero
  ELSE IF b < 0 THEN minus(base[pos][-b - 1]) ELSE base[pos][b - 1]

(* The digits of a to the base 16, from -8 to 8. *)
Nibbles == ScalarBits \div 4
signedDigits(a) ==
  LET carry(e, i) ==
        LET c == (e[i] + 8) \div 16 IN [e EXCEPT ![i] = @ - 16 * c, ![i + 1] = @ + c]
  IN  Loop(carry, [i \in 0 .. Nibbles - 1 |-> (a \div 16^i) % 16], Ascending(Nibbles - 1))

(* a B: the odd digits, times 16, then the even ones. *)
GeScalarMultBase(a) ==
  LET e == signedDigits(a)
      add(h, i) == ToExtended(geMixedAdd(h, selectPoint(i \div 2, e[i])))
      odd == [k \in 1 .. Nibbles \div 2 |-> 2 * k - 1]
      even == [k \in 1 .. Nibbles \div 2 |-> 2 * k - 2]
      h16 == ToExtended(Double(ToProjective(Double(ToProjective(Double(
               ToProjective(Double(Loop(add, ExtendedZero, odd)))))))))
  IN  Loop(add, h16, even)
=============================================================================
