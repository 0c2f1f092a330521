---------------------------- MODULE LimbsProofs -----------------------------
(***************************************************************************)
(* The arithmetic modulo p for every shape of limbs in FieldShape, that of *)
(* the code (ten limbs of 26 and 25 bits, bytes of 8) among them.          *)
(*                                                                         *)
(* Limbs stand for an integer.  Every operation changes that integer, if   *)
(* at all, by a multiple of p more or less than it should: a carry moves   *)
(* bits between limbs or around the end (2^FieldBits is 19 modulo p), and  *)
(* the factors of a product put each pair of limbs in its place.           *)
(*                                                                         *)
(* FeToBytes writes the digits of its argument back into it, and only of   *)
(* limbs that are small it finds the right quotient by p; so what the      *)
(* limbs stand for rests on their size.  BoundInv has both: the limbs of a *)
(* register are congruent to the number they have to stand for, and limbs  *)
(* with room (FieldRoom) stay small, whatever is added up, encoded and     *)
(* multiplied again.  From it also the code's limbs never overflow.        *)
(***************************************************************************)
EXTENDS Limbs, SumProofs, TLAPS

(* Limbs of any size. *)
Elements == [Limb -> Int]

(* What limb i of h contributes to the number h stands for. *)
Weighted(h) == [i \in Limb |-> h[i] * pow2(Offset(i))]

(* The set of limbs. *)
LEMMA LimbFinite ==
  ASSUME FieldShape
  PROVE  IsFiniteSet(Limb) /\ Limb \subseteq Nat /\ 0 \in Limb /\ Limbs - 1 \in Limb
<1>1. IsFiniteSet(0 .. Limbs - 1)
  BY FS_Interval DEF FieldShape
<1> QED
  BY <1>1 DEF Limb, FieldShape

(* Powers of two. *)
LEMMA Pow2Facts ==
  ASSUME NEW n \in Nat
  PROVE  pow2(n) \in Nat \ {0} /\ pow2(0) = 1 /\ pow2(n + 1) = 2 * pow2(n)
<1>1. pow2(n) \in Nat /\ pow2(n) # 0
  BY PowerNat, PowerPos DEF pow2
<1>2. pow2(0) = 1
  BY PowerUnfold DEF pow2
<1>3. n + 1 \in Nat /\ n + 1 # 0 /\ (n + 1) - 1 = n
  OBVIOUS
<1>4. Power(2, n + 1) = 2 * Power(2, (n + 1) - 1)
  BY <1>3, PowerUnfold
<1> QED
  BY <1>1, <1>2, <1>3, <1>4 DEF pow2

(* Exponents add up. *)
LEMMA Pow2Add ==
  ASSUME NEW a \in Nat, NEW b \in Nat
  PROVE  pow2(a + b) = pow2(a) * pow2(b)
BY PowerAdd DEF pow2

(* Larger exponents have larger powers. *)
LEMMA Pow2Mono ==
  ASSUME NEW a \in Nat, NEW b \in Nat, a <= b
  PROVE  pow2(a) <= pow2(b)
<1>1. b - a \in Nat /\ a + (b - a) = b
  OBVIOUS
<1>2. pow2(b) = pow2(a) * pow2(b - a)
  BY <1>1, Pow2Add
<1>3. pow2(a) \in Nat \ {0} /\ pow2(b - a) \in Nat \ {0}
  BY <1>1, Pow2Facts
<1>4. \A c, d \in Nat \ {0} : c <= c * d
  OBVIOUS
<1> QED
  BY <1>2, <1>3, <1>4

(* Where limbs begin. *)
LEMMA WidthFacts ==
  ASSUME FieldShape, NEW i \in Nat
  PROVE  Width(i) \in Nat /\ Width(i) >= 3 /\ Width(i) - 1 \in Nat /\ Width(i) <= Wide
BY DEF FieldShape, Width

(* Limbs follow one another, and the limbs after the last one begin again
   FieldBits higher. *)
LEMMA OffsetFacts ==
  ASSUME FieldShape, NEW i \in Nat
  PROVE  /\ Offset(i) \in Nat /\ Offset(0) = 0
         /\ Offset(i + 1) = Offset(i) + Width(i)
         /\ Offset(i + Limbs) = FieldBits + Offset(i)
<1>1. Wide \in Nat /\ Wide >= 4 /\ Limbs \in Nat /\ Limbs % 2 = 0
  BY DEF FieldShape
<1>2. i * Wide \in Nat /\ i * Wide >= i /\ (i + 1) * Wide = i * Wide + Wide
      /\ Limbs * Wide \in Nat /\ (i + Limbs) * Wide = i * Wide + Limbs * Wide
  BY <1>1
<1>3. Offset(i) \in Nat
  BY <1>1, <1>2 DEF Offset
<1>4. Offset(0) = 0
  BY <1>1 DEF Offset
<1>5. Offset(i + 1) = Offset(i) + Width(i)
  BY <1>1, <1>2 DEF Offset, Width
<1>6. (i + Limbs) \div 2 = (i \div 2) + (Limbs \div 2)
  BY <1>1
<1>7. Offset(i + Limbs) = FieldBits + Offset(i)
  BY <1>1, <1>2, <1>6 DEF Offset, FieldBits
<1> QED
  BY <1>3, <1>4, <1>5, <1>7

(* Two odd limbs are a bit short of their place together. *)
LEMMA OffsetAdd ==
  ASSUME FieldShape, NEW i \in Nat, NEW j \in Nat
  PROVE  Offset(i) + Offset(j) = Offset(i + j) + (IF i % 2 = 1 /\ j % 2 = 1 THEN 1 ELSE 0)
<1>1. Wide \in Nat /\ Wide >= 4
  BY DEF FieldShape
<1>2. i * Wide \in Nat /\ j * Wide \in Nat /\ (i + j) * Wide = i * Wide + j * Wide
  BY <1>1
<1>3. (i + j) \div 2 = (i \div 2) + (j \div 2) + (IF i % 2 = 1 /\ j % 2 = 1 THEN 1 ELSE 0)
  OBVIOUS
<1> QED
  BY <1>1, <1>2, <1>3 DEF Offset

(* The limbs together have the bits of the prime. *)
LEMMA FieldBitsFacts ==
  ASSUME FieldShape
  PROVE  /\ FieldBits \in Nat /\ FieldBits >= 7 /\ p \in Nat \ {0}
         /\ pow2(FieldBits) = p + 19
         /\ Offset(Limbs - 1) + Width(Limbs - 1) = FieldBits
<1>1. Limbs - 1 \in Nat /\ Limbs \in Nat /\ Limbs >= 2 /\ Wide \in Nat /\ Wide >= 4 /\ (Limbs - 1) + 1 = Limbs
  BY DEF FieldShape
<1>2. FieldBits \in Nat /\ Offset(Limbs - 1) + Width(Limbs - 1) = FieldBits
  BY <1>1, OffsetFacts DEF FieldBits
<1>3. Limbs - 2 \in Nat /\ (Limbs - 2) + 1 = Limbs - 1
  BY <1>1
<1>4. Offset(Limbs - 1) = Offset(Limbs - 2) + Width(Limbs - 2) /\ Offset(Limbs - 2) \in Nat
  BY <1>3, OffsetFacts
<1>5. Width(Limbs - 1) + Width(Limbs - 2) >= 7
  BY <1>1 DEF Width
<1>6. Width(Limbs - 1) \in Nat /\ Width(Limbs - 2) \in Nat
  BY <1>1, <1>3, WidthFacts
<1>7. FieldBits >= 7
  BY <1>2, <1>4, <1>5, <1>6
<1>8. pow2(7) = 128
  <2>1. pow2(0 + 1) = 2 /\ pow2(1 + 1) = 2 * pow2(1) /\ pow2(2 + 1) = 2 * pow2(2)
        /\ pow2(3 + 1) = 2 * pow2(3) /\ pow2(4 + 1) = 2 * pow2(4) /\ pow2(5 + 1) = 2 * pow2(5)
        /\ pow2(6 + 1) = 2 * pow2(6)
    BY Pow2Facts
  <2> QED
    BY <2>1
<1>9. pow2(FieldBits) >= 128 /\ pow2(FieldBits) \in Nat
  BY <1>2, <1>7, <1>8, Pow2Mono, Pow2Facts
<1> QED
  BY <1>2, <1>7, <1>9 DEF p

(* The number that limbs stand for is a sum. *)
LEMMA ValueIsSum ==
  ASSUME FieldShape, NEW h
  PROVE  Value(h) = Sum(Weighted(h), Limb)
<1> DEFINE w == Weighted(h)
           F(g) == [t \in SUBSET Limb |->
                     IF t = {} THEN 0 ELSE h[Chosen(t)] * pow2(Offset(Chosen(t))) + g[t \ {Chosen(t)}]]
<1>1. Value(h) = (CHOOSE g : g = F(g))[Limb]
  BY DEF Value, MapThenSumSet, MapThenFoldSet, Chosen
<1>2. ASSUME NEW g
      PROVE  F(g) = [t \in SUBSET Limb |-> IF t = {} THEN 0 ELSE w[Chosen(t)] + g[t \ {Chosen(t)}]]
  <2>1. \A t \in SUBSET Limb : t # {} => w[Chosen(t)] = h[Chosen(t)] * pow2(Offset(Chosen(t)))
    BY ChosenIn DEF Weighted
  <2> QED
    BY <2>1
<1> HIDE DEF F, w
<1>3. \A g : IsSum(g, Limb, w) <=> g = F(g)
  BY <1>2 DEF IsSum
<1>4. (CHOOSE g : g = F(g)) = (CHOOSE g : IsSum(g, Limb, w))
  BY <1>3
<1> QED
  BY <1>1, <1>4, SumIs DEF SumFcn, w

(* Elements stand for integers. *)
LEMMA WeightedInt ==
  ASSUME FieldShape, NEW h \in Elements
  PROVE  \A i \in Limb : Weighted(h)[i] = h[i] * pow2(Offset(i)) /\ Weighted(h)[i] \in Int
<1>1. \A i \in Limb : pow2(Offset(i)) \in Nat
  BY LimbFinite, OffsetFacts, Pow2Facts
<1> QED
  BY <1>1 DEF Weighted, Elements

(* Limbs stand for an integer. *)
LEMMA ValueInt ==
  ASSUME FieldShape, NEW h \in Elements
  PROVE  Value(h) \in Int
BY WeightedInt, ValueIsSum, LimbFinite, SumInt

(* What a change of one limb changes. *)
LEMMA ValueChange ==
  ASSUME FieldShape, NEW h \in Elements, NEW i \in Limb, NEW a \in Int
  PROVE  /\ [h EXCEPT ![i] = @ + a] \in Elements
         /\ Value([h EXCEPT ![i] = @ + a]) = Value(h) + a * pow2(Offset(i))
<1> DEFINE g == [h EXCEPT ![i] = @ + a]
<1>1. g \in Elements
  BY DEF Elements
<1>2. g[i] = h[i] + a /\ \A e \in Limb : e # i => g[e] = h[e]
  BY DEF Elements
<1> HIDE DEF g
<1>3. pow2(Offset(i)) \in Nat /\ h[i] \in Int
  BY LimbFinite, OffsetFacts, Pow2Facts DEF Elements
<1>4. /\ \A e \in Limb : Weighted(h)[e] \in Int /\ (e # i => Weighted(g)[e] = Weighted(h)[e])
      /\ Weighted(g)[i] \in Int
      /\ Weighted(g)[i] = (h[i] + a) * pow2(Offset(i)) /\ Weighted(h)[i] = h[i] * pow2(Offset(i))
  BY <1>1, <1>2, WeightedInt
<1>5. Sum(Weighted(g), Limb) = Sum(Weighted(h), Limb) + (Weighted(g)[i] - Weighted(h)[i])
  BY <1>4, LimbFinite, SumChange
<1>6. \A u, v, z \in Int : (u + v) * z - u * z = v * z
  OBVIOUS
<1>7. Weighted(g)[i] - Weighted(h)[i] = a * pow2(Offset(i))
  BY <1>3, <1>4, <1>6
<1> QED
  BY <1>1, <1>5, <1>7, ValueIsSum DEF g

(* What goes from a limb to the next one, or around the end, leaves the number
   the same modulo the prime, however much it is.                          *)
LEMMA MoveSame ==
  ASSUME FieldShape, NEW h \in Elements, NEW i \in Limb, NEW c \in Int
  PROVE  LET g == [h EXCEPT ![i] = @ - c * pow2(Width(i))]
             r == IF i = Limbs - 1 THEN [g EXCEPT ![0] = @ + 19 * c] ELSE [g EXCEPT ![i + 1] = @ + c]
         IN  r \in Elements /\ Same(Value(r), Value(h), p)
             /\ (i # Limbs - 1 => Value(r) = Value(h))
<1> DEFINE g == [h EXCEPT ![i] = @ - c * pow2(Width(i))]
           a == -(c * pow2(Width(i)))
           P == pow2(Offset(i))
           r == IF i = Limbs - 1 THEN [g EXCEPT ![0] = @ + 19 * c] ELSE [g EXCEPT ![i + 1] = @ + c]
<1>1. i \in Nat /\ Width(i) \in Nat /\ Offset(i) \in Nat /\ pow2(Width(i)) \in Nat /\ P \in Nat
      /\ a \in Int /\ h[i] \in Int /\ Value(h) \in Int /\ p \in Nat \ {0}
  <2>1. i \in Nat
    BY LimbFinite
  <2>2. Width(i) \in Nat /\ Offset(i) \in Nat
    BY <2>1, WidthFacts, OffsetFacts
  <2>3. pow2(Width(i)) \in Nat /\ P \in Nat
    BY <2>2, Pow2Facts
  <2> QED
    BY <2>1, <2>2, <2>3, ValueInt, FieldBitsFacts DEF Elements
<1>2. g = [h EXCEPT ![i] = @ + a]
  BY <1>1
<1>3. g \in Elements /\ Value(g) = Value(h) + a * P
  <2> HIDE DEF g, a
  <2> QED
    BY <1>1, <1>2, ValueChange
<1>4. pow2(Width(i)) * P = pow2(Offset(i) + Width(i))
  <2>1. pow2(Offset(i) + Width(i)) = pow2(Offset(i)) * pow2(Width(i))
    BY <1>1, Pow2Add
  <2> QED
    BY <1>1, <2>1
<1>5. a * P = -(c * pow2(Offset(i) + Width(i)))
  BY <1>1, <1>4
<1>6. pow2(Offset(i) + Width(i)) \in Nat
  BY <1>1, Pow2Facts
<1>7. CASE i = Limbs - 1
  <2>1. Offset(i) + Width(i) = FieldBits /\ pow2(FieldBits) = p + 19
    BY <1>7, FieldBitsFacts
  <2>2. 0 \in Limb /\ pow2(Offset(0)) = 1 /\ 19 * c \in Int
    BY LimbFinite, OffsetFacts, Pow2Facts
  <2> HIDE DEF g
  <2>3. r = [g EXCEPT ![0] = @ + 19 * c]
    BY <1>7
  <2>4. r \in Elements /\ Value(r) = Value(g) + (19 * c) * 1
    BY <1>3, <2>2, <2>3, ValueChange
  <2>5. Value(r) = Value(h) - c * (p + 19) + 19 * c
    BY <1>1, <1>3, <1>5, <2>1, <2>4
  <2>6. Value(r) - Value(h) = (-c) * p /\ -c \in Int
    BY <1>1, <2>5
  <2> QED
    BY <1>7, <2>4, <2>6 DEF Same, g
<1>8. CASE i # Limbs - 1
  <2>1. i + 1 \in Limb /\ Offset(i + 1) = Offset(i) + Width(i)
    <3>1. i + 1 \in Limb
      BY <1>8 DEF Limb, FieldShape
    <3>2. Offset(i + 1) = Offset(i) + Width(i)
      BY <1>1, OffsetFacts
    <3> QED
      BY <3>1, <3>2
  <2> HIDE DEF g
  <2>2. r = [g EXCEPT ![i + 1] = @ + c]
    BY <1>8
  <2>3. r \in Elements /\ Value(r) = Value(g) + c * pow2(Offset(i + 1))
    <3> DEFINE k == i + 1
    <3> HIDE DEF r, k
    <3>1. r = [g EXCEPT ![k] = @ + c] /\ k \in Limb
      BY <2>1, <2>2 DEF k
    <3>2. r \in Elements /\ Value(r) = Value(g) + c * pow2(Offset(k))
      BY <1>3, <3>1, ValueChange
    <3> QED
      BY <3>2 DEF k
  <2>4. Value(r) = Value(h)
    <3>1. Value(r) = (Value(h) + (-(c * pow2(Offset(i) + Width(i))))) + c * pow2(Offset(i) + Width(i))
      BY <1>3, <1>5, <2>1, <2>3
    <3>2. \A u, v \in Int : (u + (-v)) + v = u
      OBVIOUS
    <3>3. c * pow2(Offset(i) + Width(i)) \in Int
      BY <1>6
    <3> QED
      BY <1>1, <3>1, <3>2, <3>3
  <2> QED
    BY <1>1, <1>8, <2>3, <2>4, SameReflexive DEF g
<1> QED
  BY <1>7, <1>8

(* A carry keeps the number modulo p, also the one around the end. *)
LEMMA CarrySame ==
  ASSUME FieldShape, NEW h \in Elements, NEW i \in Limb
  PROVE  carry(h, i) \in Elements /\ Same(Value(carry(h, i)), Value(h), p)
<1> DEFINE c == shiftR(h[i] + pow2(Width(i) - 1), Width(i))
<1>1. c \in Int
  <2>1. Width(i) \in Nat /\ Width(i) - 1 \in Nat /\ h[i] \in Int
    BY LimbFinite, WidthFacts DEF Elements
  <2>2. pow2(Width(i)) \in Nat \ {0} /\ pow2(Width(i) - 1) \in Nat
    BY <2>1, Pow2Facts
  <2> QED
    BY <2>1, <2>2 DEF shiftR
<1> HIDE DEF c
<1> QED
  BY <1>1, MoveSame DEF carry, c

(* Two sequences after one another. *)
LEMMA ConcatAt ==
  ASSUME NEW A \in Seq(Int), NEW B \in Seq(Int)
  PROVE  /\ DOMAIN (A \o B) = 1 .. Len(A) + Len(B)
         /\ \A k \in 1 .. Len(A) : (A \o B)[k] = A[k]
         /\ \A k \in 1 .. Len(B) : (A \o B)[Len(A) + k] = B[k]
<1>1. Len(A) \in Nat /\ Len(B) \in Nat
  OBVIOUS
<1>2. \A k \in 1 .. Len(B) : Len(A) + k > Len(A) /\ Len(A) + k \in 1 .. Len(A) + Len(B) /\ (Len(A) + k) - Len(A) = k
  BY <1>1
<1>3. \A k \in 1 .. Len(A) + Len(B) : (A \o B)[k] = IF k <= Len(A) THEN A[k] ELSE B[k - Len(A)]
  OBVIOUS
<1>4. A \o B \in Seq(Int) /\ Len(A \o B) = Len(A) + Len(B)
  OBVIOUS
<1>5. DOMAIN (A \o B) = 1 .. Len(A) + Len(B)
  BY <1>4
<1>6. \A k \in 1 .. Len(B) : (A \o B)[Len(A) + k] = B[k]
  BY <1>1, <1>2, <1>3
<1>7. \A k \in 1 .. Len(A) : (A \o B)[k] = A[k]
  BY <1>1, <1>3
<1> QED
  BY <1>5, <1>6, <1>7

(* The limbs of a chain of carries, one after the other. *)
LEMMA CarryOrderFacts ==
  ASSUME FieldShape
  PROVE  /\ DOMAIN CarryOrder = 1 .. Limbs + 2
         /\ \A k \in 1 .. Limbs - 2 :
              CarryOrder[k] = IF k % 2 = 1 THEN k \div 2 ELSE (Limbs \div 2 - 1) + k \div 2 - 1
         /\ CarryOrder[Limbs - 1] = Limbs \div 2 - 1
         /\ CarryOrder[Limbs] = Limbs - 2
         /\ CarryOrder[Limbs + 1] = Limbs - 1
         /\ CarryOrder[Limbs + 2] = 0
         /\ \A k \in 1 .. Limbs + 2 : CarryOrder[k] \in Limb
<1> DEFINE m == Limbs \div 2 - 1
           A == [k \in 1 .. 2 * m |-> IF k % 2 = 1 THEN k \div 2 ELSE m + k \div 2 - 1]
           B == <<m, 2 * m, 2 * m + 1, 0>>
<1>1. Limbs \in Nat /\ m \in Nat /\ 2 * m = Limbs - 2
  BY DEF FieldShape
<1>2. A \in Seq(Int) /\ Len(A) = 2 * m
  BY <1>1
<1>3. B \in Seq(Int) /\ Len(B) = 4
  BY <1>1
<1>4. CarryOrder = A \o B
  BY DEF CarryOrder
<1>5. /\ DOMAIN (A \o B) = 1 .. 2 * m + 4
      /\ \A k \in 1 .. 2 * m : (A \o B)[k] = A[k]
      /\ \A k \in 1 .. 4 : (A \o B)[2 * m + k] = B[k]
  <2> HIDE DEF A, B, m
  <2>1. /\ DOMAIN (A \o B) = 1 .. Len(A) + Len(B)
        /\ \A k \in 1 .. Len(A) : (A \o B)[k] = A[k]
        /\ \A k \in 1 .. Len(B) : (A \o B)[Len(A) + k] = B[k]
    BY <1>2, <1>3, ConcatAt
  <2> QED
    BY <1>2, <1>3, <2>1, Zenon
<1>6. B[1] = m /\ B[2] = 2 * m /\ B[3] = 2 * m + 1 /\ B[4] = 0
  OBVIOUS
<1>7. \A k \in 1 .. 2 * m : A[k] = IF k % 2 = 1 THEN k \div 2 ELSE m + k \div 2 - 1
  OBVIOUS
<1>8. /\ (A \o B)[2 * m + 1] = m /\ (A \o B)[2 * m + 2] = 2 * m
      /\ (A \o B)[2 * m + 3] = 2 * m + 1 /\ (A \o B)[2 * m + 4] = 0
  <2> HIDE DEF A, B, m
  <2>1. 1 \in 1 .. 4 /\ 2 \in 1 .. 4 /\ 3 \in 1 .. 4 /\ 4 \in 1 .. 4
    OBVIOUS
  <2> QED
    BY <1>5, <1>6, <2>1
<1>9. \A k \in 1 .. Limbs - 2 :
        CarryOrder[k] = IF k % 2 = 1 THEN k \div 2 ELSE (Limbs \div 2 - 1) + k \div 2 - 1
  <2> HIDE DEF A, B
  <2> QED
    BY <1>1, <1>4, <1>5, <1>7
<1>10. /\ CarryOrder[Limbs - 1] = Limbs \div 2 - 1 /\ CarryOrder[Limbs] = Limbs - 2
       /\ CarryOrder[Limbs + 1] = Limbs - 1 /\ CarryOrder[Limbs + 2] = 0
  <2>1. 2 * m + 1 = Limbs - 1 /\ 2 * m + 2 = Limbs /\ 2 * m + 3 = Limbs + 1 /\ 2 * m + 4 = Limbs + 2
    BY <1>1
  <2> HIDE DEF A, B
  <2> QED
    BY <1>1, <1>4, <1>8, <2>1
<1>11. ASSUME NEW k \in 1 .. Limbs + 2
       PROVE  CarryOrder[k] \in Limb
  <2>1. CASE k \in 1 .. Limbs - 2
    BY <1>1, <1>9, <2>1 DEF Limb
  <2>2. CASE k \in {Limbs - 1, Limbs, Limbs + 1, Limbs + 2}
    BY <1>1, <1>10, <2>2 DEF Limb
  <2> QED
    BY <1>1, <2>1, <2>2
<1>12. DOMAIN CarryOrder = 1 .. Limbs + 2
  <2> HIDE DEF A, B
  <2> QED
    BY <1>1, <1>4, <1>5
<1> QED
  BY <1>9, <1>10, <1>11, <1>12

(* FeCombine, carry by carry. *)
LEMMA CombineSteps ==
  ASSUME FieldShape, NEW h \in Elements
  PROVE  \E d \in [0 .. Limbs + 2 -> Elements] :
           /\ d[0] = h /\ d[Limbs + 2] = FeCombine(h)
           /\ \A k \in 1 .. Limbs + 2 : d[k] = carry(d[k - 1], CarryOrder[k])
<1> DEFINE n == Limbs + 2
           O == CarryOrder
           o == [k \in 1 .. n |-> [v \in Elements |-> carry(v, O[k])]]
           F(g) == [t \in SUBSET DOMAIN O |->
                     IF t = {} THEN h ELSE carry(g[t \ {Max(t)}], O[Max(t)])]
           G == CHOOSE g : g = F(g)
<1>0. n \in Nat
  BY DEF FieldShape
<1>1. n \in Nat /\ DOMAIN O = 1 .. n /\ \A k \in 1 .. n : O[k] \in Limb
  BY <1>0, CarryOrderFacts
<1>2. FeCombine(h) = G[DOMAIN O]
  BY DEF FeCombine, FoldLeft, MapThenFoldSet
<1>3. \A v \in Elements, k \in 1 .. n : o[k][v] = carry(v, O[k]) /\ o[k][v] \in Elements
  BY <1>1, CarrySame
<1> HIDE DEF n, O, o
<1>4. PICK g \in [SUBSET (1 .. n) -> Elements] : IsFold(g, n, h, o)
  BY <1>1, <1>3, FoldExists
<1>5. g = F(g)
  <2>1. ASSUME NEW t \in SUBSET (1 .. n)
        PROVE  g[t] = IF t = {} THEN h ELSE carry(g[t \ {Max(t)}], O[Max(t)])
    <3>1. g[t] = IF t = {} THEN h ELSE o[Max(t)][g[t \ {Max(t)}]]
      BY <1>4 DEF IsFold
    <3>2. ASSUME t # {}
          PROVE  o[Max(t)][g[t \ {Max(t)}]] = carry(g[t \ {Max(t)}], O[Max(t)])
      <4>1. Max(t) \in 1 .. n
        BY <1>1, <3>2, MaxIn
      <4>2. g[t \ {Max(t)}] \in Elements
        BY <1>4
      <4> QED
        BY <1>3, <4>1, <4>2
    <3> QED
      BY <3>1, <3>2
  <2> QED
    BY <1>1, <1>4, <2>1
<1>6. G = F(G)
  <2> HIDE DEF F
  <2> QED
    BY <1>5
<1> HIDE DEF G
<1> DEFINE d == [k \in 0 .. n |-> G[1 .. k]]
<1>7. ASSUME NEW k \in 0 .. n
      PROVE  d[k] = IF k = 0 THEN h ELSE carry(d[k - 1], O[k])
  <2>1. 1 .. k \in SUBSET DOMAIN O /\ (1 .. k = {} <=> k = 0) /\ k \in Nat
    BY <1>1
  <2>2. G[1 .. k] = IF 1 .. k = {} THEN h
                    ELSE carry(G[(1 .. k) \ {Max(1 .. k)}], O[Max(1 .. k)])
    BY <1>6, <2>1
  <2>3. k # 0 => Max(1 .. k) = k /\ (1 .. k) \ {k} = 1 .. k - 1
    BY <2>1, MaxUpTo
  <2>4. k # 0 => d[k - 1] = G[1 .. k - 1]
    BY <1>1, <2>1
  <2> QED
    BY <2>1, <2>2, <2>3, <2>4
<1> DEFINE T == {k \in Nat : k <= n => d[k] \in Elements}
<1>8. 0 \in T
  <2>1. 0 \in 0 .. n
    BY <1>1
  <2>2. d[0] = h
    BY <1>7, <2>1
  <2> QED
    BY <2>2
<1>9. ASSUME NEW k \in Nat, k \in T
      PROVE  k + 1 \in T
  <2> SUFFICES ASSUME k + 1 <= n PROVE d[k + 1] \in Elements
    OBVIOUS
  <2>1. k + 1 \in 0 .. n /\ k + 1 \in 1 .. n /\ k + 1 # 0 /\ (k + 1) - 1 = k
    BY <1>1
  <2>2. d[k] \in Elements
    BY <1>1, <1>9
  <2> HIDE DEF d
  <2>3. d[k + 1] = carry(d[k], O[k + 1])
    BY <1>7, <2>1
  <2> QED
    BY <1>1, <2>1, <2>2, <2>3, CarrySame
<1>10. Nat \subseteq T
  <2> HIDE DEF T
  <2> QED
    BY <1>8, <1>9, NatSetInduction
<1>11. d \in [0 .. n -> Elements]
  <2>1. \A k \in 0 .. n : k \in T /\ k <= n
    <3> HIDE DEF T
    <3> QED
      BY <1>1, <1>10
  <2>2. \A k \in 0 .. n : d[k] \in Elements
    BY <2>1
  <2> QED
    BY <2>2
<1>12. d[n] = FeCombine(h)
  BY <1>1, <1>2
<1>13. \A k \in 1 .. n : k \in 0 .. n /\ k # 0
  BY <1>1
<1>14. 0 \in 0 .. n
  BY <1>1
<1> HIDE DEF d
<1>15. d[0] = h /\ \A k \in 1 .. n : d[k] = carry(d[k - 1], O[k])
  BY <1>7, <1>13, <1>14
<1> QED
  BY <1>11, <1>12, <1>15 DEF n, O

(* FeCombine keeps the number, modulo the prime. *)
LEMMA CombineSame ==
  ASSUME FieldShape, NEW h \in Elements
  PROVE  FeCombine(h) \in Elements /\ Same(Value(FeCombine(h)), Value(h), p)
<1> DEFINE n == Limbs + 2
<1>1. PICK d \in [0 .. n -> Elements] :
        /\ d[0] = h /\ d[n] = FeCombine(h)
        /\ \A k \in 1 .. n : d[k] = carry(d[k - 1], CarryOrder[k])
  BY CombineSteps
<1>2. n \in Nat /\ p \in Int /\ \A k \in 1 .. n : CarryOrder[k] \in Limb
  <2>1. n \in Nat
    BY DEF FieldShape
  <2> QED
    BY <2>1, CarryOrderFacts, FieldBitsFacts
<1> HIDE DEF n
<1> DEFINE T == {k \in Nat : k <= n => Same(Value(d[k]), Value(h), p)}
<1>3. 0 \in T
  BY <1>1, <1>2, ValueInt, SameReflexive
<1>4. ASSUME NEW k \in Nat, k \in T
      PROVE  k + 1 \in T
  <2> SUFFICES ASSUME k + 1 <= n PROVE Same(Value(d[k + 1]), Value(h), p)
    OBVIOUS
  <2>1. k \in 0 .. n /\ k + 1 \in 0 .. n /\ k + 1 \in 1 .. n /\ (k + 1) - 1 = k
    BY <1>2
  <2>2. d[k] \in Elements /\ d[k + 1] \in Elements /\ d[k + 1] = carry(d[k], CarryOrder[k + 1])
    BY <1>1, <2>1
  <2>3. Same(Value(d[k + 1]), Value(d[k]), p)
    BY <1>2, <2>1, <2>2, CarrySame
  <2>4. Same(Value(d[k]), Value(h), p)
    BY <1>4, <2>1
  <2> QED
    BY <1>2, <2>2, <2>3, <2>4, ValueInt, SameTransitive
<1> HIDE DEF T
<1>5. n \in T
  BY <1>2, <1>3, <1>4, NatSetInduction
<1>6. d[n] \in Elements
  BY <1>1, <1>2
<1>7. Same(Value(d[n]), Value(h), p)
  BY <1>2, <1>5 DEF T
<1> QED
  BY <1>1, <1>6, <1>7

-----------------------------------------------------------------------------
(* Sums of elements. *)

(* Limbs that add up one by one add up the numbers. *)
LEMMA ValuePlus ==
  ASSUME FieldShape, NEW f \in Elements, NEW g \in Elements, NEW h \in Elements,
         \A i \in Limb : h[i] = f[i] + g[i]
  PROVE  Value(h) = Value(f) + Value(g)
<1>1. \A i \in Limb : Weighted(f)[i] \in Int /\ Weighted(g)[i] \in Int
  BY WeightedInt
<1>2. ASSUME NEW i \in Limb
      PROVE  Weighted(h)[i] = Weighted(f)[i] + Weighted(g)[i]
  <2>1. pow2(Offset(i)) \in Int /\ f[i] \in Int /\ g[i] \in Int
    BY LimbFinite, OffsetFacts, Pow2Facts DEF Elements
  <2>2. \A c, d, e \in Int : (c + d) * e = c * e + d * e
    OBVIOUS
  <2>3. Weighted(h)[i] = (f[i] + g[i]) * pow2(Offset(i))
    BY WeightedInt
  <2>4. Weighted(f)[i] = f[i] * pow2(Offset(i)) /\ Weighted(g)[i] = g[i] * pow2(Offset(i))
    BY WeightedInt
  <2> QED
    BY <2>1, <2>2, <2>3, <2>4
<1>3. Sum(Weighted(h), Limb) = Sum(Weighted(f), Limb) + Sum(Weighted(g), Limb)
  BY <1>1, <1>2, LimbFinite, SumPlus
<1> QED
  BY <1>3, ValueIsSum

(* FeZero and FeOne. *)
LEMMA ConstantValues ==
  ASSUME FieldShape
  PROVE  FeZero \in Elements /\ Value(FeZero) = 0 /\ FeOne \in Elements /\ Value(FeOne) = 1
<1>1. FeZero \in Elements /\ \A i \in Limb : FeZero[i] = FeZero[i] + FeZero[i]
  BY DEF FeZero, Elements
<1>2. Value(FeZero) = Value(FeZero) + Value(FeZero) /\ Value(FeZero) \in Int
  BY <1>1, ValuePlus, ValueInt
<1>3. Value(FeZero) = 0
  <2>1. \A a \in Int : a = a + a => a = 0
    OBVIOUS
  <2> QED
    BY <1>2, <2>1, Zenon
<1>4. 0 \in Limb /\ pow2(Offset(0)) = 1
  BY LimbFinite, OffsetFacts, Pow2Facts
<1>5. FeOne = [FeZero EXCEPT ![0] = @ + 1]
  BY <1>4 DEF FeOne, FeZero
<1>6. FeOne \in Elements /\ Value(FeOne) = Value(FeZero) + 1 * pow2(Offset(0))
  <2> DEFINE c == 1
             i == 0
  <2>1. FeOne = [FeZero EXCEPT ![i] = @ + c] /\ i \in Limb /\ c \in Int
    BY <1>4, <1>5
  <2> HIDE DEF c, i
  <2>2. FeOne \in Elements /\ Value(FeOne) = Value(FeZero) + c * pow2(Offset(i))
    BY <1>1, <2>1, ValueChange
  <2> QED
    BY <2>2 DEF c, i
<1> QED
  BY <1>1, <1>3, <1>4, <1>6

(* FeAdd, FeSub, FeNeg and the doubling in FeSquare2 work limb by limb. *)
LEMMA SumValues ==
  ASSUME FieldShape, NEW f \in Elements, NEW g \in Elements
  PROVE  /\ FeAdd(f, g) \in Elements /\ Value(FeAdd(f, g)) = Value(f) + Value(g)
         /\ FeSub(f, g) \in Elements /\ Value(FeSub(f, g)) = Value(f) - Value(g)
         /\ FeNeg(f) \in Elements /\ Value(FeNeg(f)) = -Value(f)
         /\ [k \in Limb |-> 2 * f[k]] \in Elements
         /\ Value([k \in Limb |-> 2 * f[k]]) = 2 * Value(f)
<1>1. \A i \in Limb : f[i] \in Int /\ g[i] \in Int
  BY DEF Elements
<1>2. Value(f) \in Int /\ Value(g) \in Int
  BY ValueInt
<1> DEFINE h == [k \in Limb |-> 2 * f[k]]
<1>3. FeAdd(f, g) \in Elements /\ \A i \in Limb : FeAdd(f, g)[i] = f[i] + g[i]
  BY <1>1 DEF FeAdd, Elements
<1>4. FeSub(f, g) \in Elements /\ \A i \in Limb : f[i] = FeSub(f, g)[i] + g[i]
  BY <1>1 DEF FeSub, Elements
<1>5. FeNeg(f) \in Elements /\ \A i \in Limb : FeZero[i] = FeNeg(f)[i] + f[i]
  BY <1>1 DEF FeNeg, FeZero, Elements
<1>6. h \in Elements /\ \A i \in Limb : h[i] = f[i] + f[i]
  BY <1>1 DEF Elements
<1> HIDE DEF h
<1>7. Value(FeAdd(f, g)) = Value(f) + Value(g)
  BY <1>3, ValuePlus
<1>8. Value(f) = Value(FeSub(f, g)) + Value(g)
  BY <1>4, ValuePlus
<1>9. Value(FeZero) = Value(FeNeg(f)) + Value(f)
  BY <1>5, ValuePlus, ConstantValues
<1>10. Value(h) = Value(f) + Value(f)
  BY <1>6, ValuePlus
<1>11. Value(FeSub(f, g)) = Value(f) - Value(g)
  BY <1>2, <1>4, <1>8, ValueInt
<1>12. Value(FeNeg(f)) = -Value(f)
  BY <1>2, <1>5, <1>9, ValueInt, ConstantValues
<1>13. Value(h) = 2 * Value(f)
  BY <1>2, <1>10
<1> QED
  BY <1>3, <1>4, <1>5, <1>6, <1>7, <1>11, <1>12, <1>13 DEF h

-----------------------------------------------------------------------------
(* Products. *)

(* The limb that i is multiplied with for limb k of the product. *)
Other(k, i) == (k - i) % Limbs

(* The limb that limb i is multiplied by for limb k of the product. *)
LEMMA OtherFacts ==
  ASSUME FieldShape, NEW i \in Limb, NEW k \in Limb
  PROVE  /\ Other(k, i) \in Limb
         /\ IF i <= k THEN Other(k, i) = k - i ELSE Other(k, i) = k - i + Limbs
         /\ i + Other(k, i) = IF i <= k THEN k ELSE k + Limbs
         /\ Other(k, i) = IF i + Other(k, i) >= Limbs THEN k - i + Limbs ELSE k - i
         /\ Other(k, Other(k, i)) = i
<1>1. Limbs \in Nat /\ Limbs >= 2 /\ i \in 0 .. Limbs - 1 /\ k \in 0 .. Limbs - 1
  BY DEF FieldShape, Limb
<1>2. \A a \in 0 .. Limbs - 1 : a % Limbs = a /\ (a - Limbs) % Limbs = a
  BY <1>1
<1>3. i <= k => Other(k, i) = k - i
  BY <1>1, <1>2 DEF Other
<1>4. ~(i <= k) => Other(k, i) = k - i + Limbs
  <2>1. ~(i <= k) => k - i + Limbs \in 0 .. Limbs - 1 /\ (k - i + Limbs) - Limbs = k - i
    BY <1>1
  <2> QED
    BY <1>1, <1>2, <2>1 DEF Other
<1>5. Other(k, i) \in Limb
  BY <1>1, <1>3, <1>4 DEF Limb
<1>6. Other(k, Other(k, i)) = i
  <2> DEFINE j == Other(k, i)
  <2>1. j \in 0 .. Limbs - 1
    BY <1>5 DEF Limb
  <2>2. (k - j = i) \/ (k - j = i - Limbs)
    BY <1>1, <1>3, <1>4
  <2> HIDE DEF j
  <2>3. Other(k, j) = i
    BY <1>1, <1>2, <2>2 DEF Other
  <2> QED
    BY <2>3 DEF j
<1> QED
  BY <1>1, <1>3, <1>4, <1>5, <1>6

(* The factor of a product of limbs i and j: two odd limbs are half a bit short of
   their place each, and limbs beyond the last one wrap around.            *)
Factor(i, j) ==
  (IF i % 2 = 1 /\ j % 2 = 1 THEN 2 ELSE 1) * (IF i + j >= Limbs THEN 19 ELSE 1)

(* The factors 2 and 19 put the product of two limbs in its place, modulo p. *)
LEMMA FactorSame ==
  ASSUME FieldShape, NEW i \in Limb, NEW k \in Limb
  PROVE  LET j == Other(k, i)
         IN  Same(Factor(i, j) * pow2(Offset(k)), pow2(Offset(i)) * pow2(Offset(j)), p)
<1> DEFINE j == Other(k, i)
           odd == IF i % 2 = 1 /\ j % 2 = 1 THEN 1 ELSE 0
           two == IF i % 2 = 1 /\ j % 2 = 1 THEN 2 ELSE 1
<1>1. i \in Nat /\ k \in Nat /\ j \in Nat /\ i + j = IF i <= k THEN k ELSE k + Limbs
  BY OtherFacts, LimbFinite
<1>2. k < Limbs /\ Limbs \in Nat /\ p \in Nat \ {0}
  BY FieldBitsFacts DEF Limb, FieldShape
<1> HIDE DEF j
<1>3. Offset(i) + Offset(j) = Offset(i + j) + odd
  BY <1>1, OffsetAdd
<1>4. Offset(i) \in Nat /\ Offset(j) \in Nat /\ Offset(i + j) \in Nat /\ Offset(k) \in Nat
  BY <1>1, OffsetFacts
<1>5. pow2(Offset(i)) * pow2(Offset(j)) = two * pow2(Offset(i + j))
  <2>1. pow2(Offset(i)) * pow2(Offset(j)) = pow2(Offset(i + j) + odd)
    BY <1>3, <1>4, Pow2Add
  <2>2. pow2(Offset(i + j)) \in Nat /\ pow2(Offset(i + j) + 1) = 2 * pow2(Offset(i + j))
    BY <1>4, Pow2Facts
  <2> QED
    BY <1>4, <2>1, <2>2
<1>6. CASE i <= k
  <2>1. i + j = k /\ ~(i + j >= Limbs)
    BY <1>1, <1>2, <1>6
  <2>2. Factor(i, j) = two
    BY <2>1 DEF Factor
  <2>3. two * pow2(Offset(k)) \in Int
    BY <1>4, Pow2Facts
  <2> QED
    BY <1>2, <1>5, <2>1, <2>2, <2>3, SameReflexive DEF j
<1>7. CASE ~(i <= k)
  <2>1. i + j = k + Limbs /\ i + j >= Limbs
    BY <1>1, <1>2, <1>7
  <2>2. Factor(i, j) = two * 19
    BY <2>1 DEF Factor
  <2>3. Offset(i + j) = FieldBits + Offset(k) /\ FieldBits \in Nat
    BY <1>1, <2>1, OffsetFacts, FieldBitsFacts
  <2>4. pow2(Offset(i + j)) = pow2(FieldBits) * pow2(Offset(k))
    BY <1>4, <2>3, Pow2Add
  <2>5. pow2(FieldBits) = p + 19 /\ pow2(Offset(k)) \in Int /\ two \in Int
    BY <1>4, FieldBitsFacts, Pow2Facts
  <2> DEFINE P == pow2(Offset(k))
             c == -(two * P)
  <2>6. pow2(Offset(i)) * pow2(Offset(j)) = two * ((p + 19) * P)
    BY <1>5, <2>4, <2>5
  <2>7. \A a, b, d \in Int : (a * 19) * b - a * ((d + 19) * b) = (-(a * b)) * d
    OBVIOUS
  <2> HIDE DEF P, two
  <2>8. (two * 19) * P - two * ((p + 19) * P) = c * p /\ c \in Int
    <3>1. P \in Int /\ p \in Int /\ two \in Int
      BY <1>2, <2>5 DEF P
    <3>2. c \in Int
      BY <3>1
    <3> QED
      BY <2>7, <3>1, <3>2, Zenon
  <2>9. Factor(i, j) * P - pow2(Offset(i)) * pow2(Offset(j)) = c * p
    BY <2>2, <2>6, <2>8
  <2>10. Same(Factor(i, j) * P, pow2(Offset(i)) * pow2(Offset(j)), p)
    BY <2>8, <2>9 DEF Same
  <2> QED
    BY <2>10 DEF P, j
<1> QED
  BY <1>6, <1>7

(* The products that add up to limb k. *)
Row(f, g, k) == [i \in Limb |-> (f[i] * g[Other(k, i)]) * Factor(i, Other(k, i))]

(* The products that limb k is the sum of. *)
LEMMA RowInt ==
  ASSUME FieldShape, NEW f \in Elements, NEW g \in Elements, NEW k \in Limb, NEW i \in Limb
  PROVE  /\ Row(f, g, k)[i] \in Int /\ f[i] \in Int /\ g[Other(k, i)] \in Int
         /\ Factor(i, Other(k, i)) \in {1, 2, 19, 38}
         /\ Row(f, g, k)[i] = (f[i] * g[Other(k, i)]) * Factor(i, Other(k, i))
<1>1. f[i] \in Int /\ g[Other(k, i)] \in Int
  BY OtherFacts DEF Elements
<1>2. Factor(i, Other(k, i)) \in {1, 2, 19, 38}
  BY DEF Factor
<1> QED
  BY <1>1, <1>2 DEF Row

(* Limb k of a product is the sum of its row. *)
LEMMA ProductIsSum ==
  ASSUME FieldShape, NEW f \in Elements, NEW g \in Elements, NEW k \in Limb
  PROVE  Products(f, g)[k] = Sum(Row(f, g, k), Limb)
<1> DEFINE w == Row(f, g, k)
           term(i) == LET j == (k - i) % Limbs
                      IN  f[i] * g[j] * (IF i % 2 = 1 /\ j % 2 = 1 THEN 2 ELSE 1)
                                      * (IF i + j >= Limbs THEN 19 ELSE 1)
           F(h) == [t \in SUBSET Limb |->
                     IF t = {} THEN 0 ELSE term(Chosen(t)) + h[t \ {Chosen(t)}]]
<1>1. Products(f, g)[k] = (CHOOSE h : h = F(h))[Limb]
  BY DEF Products, MapThenSumSet, MapThenFoldSet, Chosen
<1>2. ASSUME NEW i \in Limb
      PROVE  w[i] = term(i)
  <2> DEFINE j == Other(k, i)
             a == IF i % 2 = 1 /\ j % 2 = 1 THEN 2 ELSE 1
             b == IF i + j >= Limbs THEN 19 ELSE 1
  <2>1. f[i] \in Int /\ g[j] \in Int /\ w[i] = (f[i] * g[j]) * (a * b)
    BY RowInt DEF Factor
  <2>2. \A u, v \in Int : \A c \in {1, 2}, d \in {1, 19} : (u * v) * (c * d) = u * v * c * d
    OBVIOUS
  <2>3. a \in {1, 2} /\ b \in {1, 19}
    OBVIOUS
  <2>4. term(i) = f[i] * g[j] * a * b
    BY DEF Other
  <2> HIDE DEF a, b, j, w, term
  <2> QED
    BY <2>1, <2>2, <2>3, <2>4
<1>3. ASSUME NEW h
      PROVE  F(h) = [t \in SUBSET Limb |-> IF t = {} THEN 0 ELSE w[Chosen(t)] + h[t \ {Chosen(t)}]]
  <2>1. \A t \in SUBSET Limb : t # {} => w[Chosen(t)] = term(Chosen(t))
    BY <1>2, ChosenIn
  <2> HIDE DEF term, w
  <2> QED
    BY <2>1
<1> HIDE DEF F, w
<1>4. \A h : IsSum(h, Limb, w) <=> h = F(h)
  BY <1>3 DEF IsSum
<1>5. (CHOOSE h : h = F(h)) = (CHOOSE h : IsSum(h, Limb, w))
  BY <1>4
<1> QED
  BY <1>1, <1>5, SumIs DEF SumFcn, w

(* The products are limbs. *)
LEMMA ProductsIn ==
  ASSUME FieldShape, NEW f \in Elements, NEW g \in Elements
  PROVE  Products(f, g) \in Elements
<1>1. \A k \in Limb : Products(f, g)[k] \in Int
  BY ProductIsSum, RowInt, SumInt, LimbFinite
<1> QED
  BY <1>1 DEF Products, Elements

(* The sum of all products is the product of the sums. *)
LEMMA ProductSame ==
  ASSUME FieldShape, NEW f \in Elements, NEW g \in Elements
  PROVE  Same(Value(Products(f, g)), Value(f) * Value(g), p)
<1> DEFINE a == Weighted(f)
           b == Weighted(g)
           h == Products(f, g)
           M == [k \in Limb |-> [i \in Limb |-> pow2(Offset(k)) * Row(f, g, k)[i]]]
           W == [k \in Limb |-> [i \in Limb |-> a[i] * b[Other(k, i)]]]
<1>0. IsFiniteSet(Limb) /\ p \in Nat \ {0} /\ h \in Elements /\ Value(f) \in Int /\ Value(g) \in Int
      /\ \A k \in Limb : pow2(Offset(k)) \in Int
  BY LimbFinite, FieldBitsFacts, ProductsIn, ValueInt, OffsetFacts, Pow2Facts
<1>1. \A i \in Limb : a[i] = f[i] * pow2(Offset(i)) /\ a[i] \in Int
  BY WeightedInt
<1>2. \A i \in Limb : b[i] = g[i] * pow2(Offset(i)) /\ b[i] \in Int
  BY WeightedInt
<1>3. \A i, k \in Limb : M[k][i] = pow2(Offset(k)) * Row(f, g, k)[i] /\ M[k][i] \in Int
  BY <1>0, RowInt
<1>4. \A i, k \in Limb : W[k][i] = a[i] * b[Other(k, i)] /\ W[k][i] \in Int
  BY <1>1, <1>2, OtherFacts
<1>5. ASSUME NEW i \in Limb, NEW k \in Limb
      PROVE  Same(M[k][i], W[k][i], p)
  <2> DEFINE j == Other(k, i)
             c == f[i] * g[j]
             u == Factor(i, j) * pow2(Offset(k))
             v == pow2(Offset(i)) * pow2(Offset(j))
  <2>1. Same(u, v, p) /\ j \in Limb
    BY FactorSame, OtherFacts
  <2>2. f[i] \in Int /\ g[j] \in Int /\ Factor(i, j) \in Int
        /\ Row(f, g, k)[i] = c * Factor(i, j)
    BY RowInt
  <2>3. c \in Int /\ u \in Int /\ v \in Int
    BY <1>0, <2>1, <2>2
  <2>4. \A q, r, t, z \in Int : q * ((r * t) * z) = (r * t) * (z * q)
    OBVIOUS
  <2>5. \A q, r, t, z \in Int : (r * q) * (t * z) = (r * t) * (q * z)
    OBVIOUS
  <2> HIDE DEF j
  <2>6. M[k][i] = c * u
    BY <1>0, <1>3, <2>2, <2>4 DEF j
  <2>7. W[k][i] = c * v
    BY <1>0, <1>1, <1>2, <1>4, <2>1, <2>2, <2>5 DEF j
  <2>8. p \in Int
    BY <1>0
  <2> HIDE DEF c, u, v
  <2> QED
    BY <2>1, <2>3, <2>6, <2>7, <2>8, SameTimes
<1> HIDE DEF M, W, a, b
<1>6. ASSUME NEW k \in Limb
      PROVE  /\ Weighted(h)[k] = Sum(M[k], Limb) /\ Sum(M[k], Limb) \in Int
             /\ Sum(W[k], Limb) \in Int
             /\ Same(Sum(M[k], Limb), Sum(W[k], Limb), p)
  <2>1. \A i \in Limb : Row(f, g, k)[i] \in Int /\ M[k][i] = pow2(Offset(k)) * Row(f, g, k)[i]
    BY <1>3, RowInt
  <2>2. Sum(M[k], Limb) = pow2(Offset(k)) * Sum(Row(f, g, k), Limb)
    BY <1>0, <2>1, SumTimes
  <2>3. Weighted(h)[k] = Products(f, g)[k] * pow2(Offset(k)) /\ Products(f, g)[k] \in Int
    BY <1>0, WeightedInt DEF Elements
  <2>4. Weighted(h)[k] = Sum(M[k], Limb)
    BY <1>0, <2>2, <2>3, ProductIsSum
  <2>5. Sum(M[k], Limb) \in Int /\ Sum(W[k], Limb) \in Int
    BY <1>0, <1>3, <1>4, SumInt
  <2>6. Same(Sum(M[k], Limb), Sum(W[k], Limb), p)
    <3>1. p \in Int /\ \A i \in Limb : M[k][i] \in Int /\ W[k][i] \in Int /\ Same(M[k][i], W[k][i], p)
      BY <1>0, <1>3, <1>4, <1>5
    <3> QED
      BY <1>0, <3>1, SumSame
  <2> QED
    BY <2>4, <2>5, <2>6
<1> DEFINE R == [k \in Limb |-> Sum(W[k], Limb)]
<1>7. Same(Value(h), Sum(R, Limb), p)
  <2>1. p \in Int /\ \A k \in Limb : /\ Weighted(h)[k] \in Int /\ R[k] \in Int
                                     /\ Same(Weighted(h)[k], R[k], p)
    BY <1>0, <1>6
  <2> HIDE DEF R
  <2>2. Same(Sum(Weighted(h), Limb), Sum(R, Limb), p)
    BY <1>0, <2>1, SumSame
  <2> QED
    BY <2>2, ValueIsSum
<1> DEFINE C == [i \in Limb |-> Sum([k \in Limb |-> W[k][i]], Limb)]
<1>8. Sum(R, Limb) = Sum(C, Limb)
  BY <1>0, <1>4, SumSwap
<1>9. ASSUME NEW i \in Limb
      PROVE  C[i] = Value(g) * a[i]
  <2> DEFINE col == [k \in Limb |-> W[k][i]]
             shifted == [k \in Limb |-> b[Other(k, i)]]
             o == [k \in Limb |-> Other(k, i)]
  <2>1. o \in [Limb -> Limb] /\ \A k \in Limb : shifted[k] = b[o[k]] /\ shifted[k] \in Int
    BY <1>2, OtherFacts
  <2>2. \A k, r \in Limb : o[k] = o[r] => k = r
    <3>1. SUFFICES ASSUME NEW k \in Limb, NEW r \in Limb, Other(k, i) = Other(r, i)
                   PROVE  k = r
      OBVIOUS
    <3>2. /\ i + Other(k, i) = IF i <= k THEN k ELSE k + Limbs
          /\ i + Other(r, i) = IF i <= r THEN r ELSE r + Limbs
      BY OtherFacts
    <3> QED
      BY <3>1, <3>2 DEF Limb, FieldShape
  <2>3. ASSUME NEW j \in Limb
        PROVE  b[j] \in Int /\ \E k \in Limb : o[k] = j
    <3> DEFINE k == IF i + j >= Limbs THEN i + j - Limbs ELSE i + j
    <3>1. Limbs \in Nat /\ i \in 0 .. Limbs - 1 /\ j \in 0 .. Limbs - 1
      BY DEF FieldShape, Limb
    <3>2. k \in Limb /\ (i <= k <=> i + j < Limbs)
      BY <3>1 DEF Limb
    <3>3. Other(k, i) = j
      <4>1. i + Other(k, i) = IF i <= k THEN k ELSE k + Limbs
        BY <3>2, OtherFacts
      <4>2. Other(k, i) \in Int
        <5> HIDE DEF k
        <5>1. Other(k, i) \in Limb
          BY <3>2, OtherFacts
        <5> QED
          BY <5>1, LimbFinite
      <4> QED
        BY <3>1, <3>2, <4>1, <4>2
    <3> QED
      BY <1>2, <3>2, <3>3
  <2> HIDE DEF o, shifted
  <2>4. Sum(shifted, Limb) = Sum(b, Limb)
    BY <1>0, <2>1, <2>2, <2>3, SumReindex
  <2>5. \A k \in Limb : shifted[k] \in Int /\ col[k] = a[i] * shifted[k]
    BY <1>4, <2>1 DEF shifted
  <2>6. a[i] \in Int
    BY <1>1
  <2> HIDE DEF col
  <2>7. Sum(col, Limb) = a[i] * Sum(shifted, Limb)
    BY <1>0, <2>5, <2>6, SumTimes
  <2>8. Sum(b, Limb) = Value(g)
    BY ValueIsSum DEF b
  <2>9. C[i] = a[i] * Value(g)
    BY <2>4, <2>7, <2>8 DEF col
  <2> QED
    BY <1>0, <2>6, <2>9
<1> HIDE DEF C
<1>10. Sum(C, Limb) = Value(g) * Sum(a, Limb)
  BY <1>0, <1>1, <1>9, SumTimes
<1>11. Sum(a, Limb) = Value(f)
  BY ValueIsSum DEF a
<1>12. Sum(R, Limb) = Value(f) * Value(g)
  BY <1>0, <1>8, <1>10, <1>11
<1> QED
  BY <1>7, <1>12

(* A square takes each product of two different limbs once, doubled. *)
Pairs(k) == {i \in Limb : i <= Other(k, i)}
SquareRow(f, k) == [i \in Pairs(k) |-> (IF i = Other(k, i) THEN 1 ELSE 2) * Row(f, f, k)[i]]

(* Limb k of a square is a sum over pairs of limbs. *)
LEMMA SquareIsSum ==
  ASSUME FieldShape, NEW f \in Elements, NEW k \in Limb
  PROVE  feSquare(f)[k] = Sum(SquareRow(f, k), Pairs(k))
<1> DEFINE w == SquareRow(f, k)
           S == Pairs(k)
           term(i) == LET j == (k - i) % Limbs
                      IN  f[i] * f[j] * (IF i = j THEN 1 ELSE 2)
                                      * (IF i % 2 = 1 /\ j % 2 = 1 THEN 2 ELSE 1)
                                      * (IF i + j >= Limbs THEN 19 ELSE 1)
           F(h) == [t \in SUBSET S |->
                     IF t = {} THEN 0 ELSE term(Chosen(t)) + h[t \ {Chosen(t)}]]
<1>1. feSquare(f)[k] = (CHOOSE h : h = F(h))[S]
  BY DEF feSquare, MapThenSumSet, MapThenFoldSet, Chosen, Pairs, Other
<1>2. ASSUME NEW i \in S
      PROVE  w[i] = term(i)
  <2> DEFINE j == Other(k, i)
             a == IF i % 2 = 1 /\ j % 2 = 1 THEN 2 ELSE 1
             b == IF i + j >= Limbs THEN 19 ELSE 1
             c == IF i = j THEN 1 ELSE 2
  <2>1. i \in Limb
    BY DEF Pairs
  <2>2. f[i] \in Int /\ f[j] \in Int /\ w[i] = c * ((f[i] * f[j]) * (a * b))
    BY <2>1, RowInt DEF Factor, SquareRow
  <2>3. \A u, v \in Int : \A q, d \in {1, 2}, e \in {1, 19} :
          q * ((u * v) * (d * e)) = u * v * q * d * e
    OBVIOUS
  <2>4. a \in {1, 2} /\ b \in {1, 19} /\ c \in {1, 2}
    OBVIOUS
  <2>5. term(i) = f[i] * f[j] * c * a * b
    BY DEF Other
  <2> HIDE DEF a, b, c, j, w, term
  <2> QED
    BY <2>2, <2>3, <2>4, <2>5
<1>3. ASSUME NEW h
      PROVE  F(h) = [t \in SUBSET S |-> IF t = {} THEN 0 ELSE w[Chosen(t)] + h[t \ {Chosen(t)}]]
  <2>1. \A t \in SUBSET S : t # {} => w[Chosen(t)] = term(Chosen(t))
    BY <1>2, ChosenIn
  <2> HIDE DEF term, w
  <2> QED
    BY <2>1
<1> HIDE DEF F, w, S
<1>4. \A h : IsSum(h, S, w) <=> h = F(h)
  BY <1>3 DEF IsSum
<1>5. (CHOOSE h : h = F(h)) = (CHOOSE h : IsSum(h, S, w))
  BY <1>4
<1> QED
  BY <1>1, <1>5, SumIs DEF SumFcn, w, S

(* feSquare computes the limbs of the product of f with itself. *)
LEMMA SquareIsProduct ==
  ASSUME FieldShape, NEW f \in Elements
  PROVE  feSquare(f) = Products(f, f)
<1>1. ASSUME NEW k \in Limb
      PROVE  feSquare(f)[k] = Products(f, f)[k]
  <2> DEFINE r == Row(f, f, k)
             q == SquareRow(f, k)
             A == {i \in Limb : i < Other(k, i)}
             E == {i \in Limb : i = Other(k, i)}
             B == {i \in Limb : i > Other(k, i)}
  <2>1. \A i \in Limb : Other(k, i) \in Limb /\ Other(k, i) \in Int /\ i \in Int
    <3>1. \A i \in Limb : Other(k, i) \in Limb /\ i \in Nat
      BY OtherFacts, LimbFinite
    <3>2. \A i \in Limb : i \in Int
      BY <3>1
    <3> QED
      BY <3>1, <3>2, Zenon
  <2>2. Limb = (A \cup E) \cup B /\ Pairs(k) = A \cup E /\ (A \cup E) \cap B = {} /\ A \cap E = {}
    BY <2>1 DEF Pairs
  <2>3. A \subseteq Limb /\ E \subseteq Limb /\ B \subseteq Limb
    OBVIOUS
  <2>4. IsFiniteSet(A) /\ IsFiniteSet(E) /\ IsFiniteSet(B) /\ IsFiniteSet(A \cup E)
    BY <2>3, LimbFinite, FS_Subset, FS_Union
  <2>5. \A i \in Limb : r[i] \in Int
    BY RowInt
  <2>6. \A i \in Limb : r[i] = r[Other(k, i)]
    <3>1. SUFFICES ASSUME NEW i \in Limb PROVE r[i] = r[Other(k, i)]
      OBVIOUS
    <3> DEFINE j == Other(k, i)
    <3>2. j \in Limb /\ Other(k, j) = i /\ i \in Int /\ j \in Int
      BY <2>1, OtherFacts
    <3>3. r[i] = (f[i] * f[j]) * Factor(i, j) /\ f[i] \in Int /\ f[j] \in Int
      BY RowInt
    <3>4. r[j] = (f[j] * f[i]) * Factor(j, i)
      <4> HIDE DEF j
      <4> QED
        BY <3>2, RowInt
    <3>5. Factor(i, j) = Factor(j, i)
      <4> HIDE DEF j
      <4> QED
        BY <3>2 DEF Factor
    <3> HIDE DEF j
    <3>6. r[i] = r[j]
      BY <3>3, <3>4, <3>5
    <3> QED
      BY <3>6 DEF j
  <2>7. Sum(r, A) = Sum(r, B)
    <3> DEFINE o == [i \in A |-> Other(k, i)]
    <3>1. o \in [A -> B]
      BY <2>1, OtherFacts
    <3>2. \A i, j \in A : o[i] = o[j] => i = j
      <4>1. \A i \in A : Other(k, Other(k, i)) = i
        BY OtherFacts
      <4> QED
        BY <4>1
    <3>3. \A j \in B : r[j] \in Int /\ \E i \in A : o[i] = j
      <4>1. ASSUME NEW j \in B
            PROVE  Other(k, j) \in A /\ Other(k, Other(k, j)) = j
        BY <2>1, OtherFacts
      <4> QED
        BY <2>5, <4>1
    <3>4. \A i \in A : r[i] = r[o[i]]
      BY <2>6
    <3> HIDE DEF o, A, B, r
    <3> QED
      BY <2>4, <3>1, <3>2, <3>3, <3>4, SumReindex
  <2>8. /\ \A i \in A : q[i] = 2 * r[i]
        /\ \A i \in E : q[i] = r[i]
    <3>1. \A i \in A \cup E : q[i] = (IF i = Other(k, i) THEN 1 ELSE 2) * r[i]
      BY <2>2 DEF SquareRow
    <3>2. \A i \in A : i # Other(k, i)
      BY <2>1
    <3> HIDE DEF q, r
    <3>3. \A i \in E : i \in A \cup E /\ i = Other(k, i) /\ r[i] \in Int
      BY <2>5
    <3>4. \A i \in A : i \in A \cup E
      OBVIOUS
    <3>5. \A e \in Int : 1 * e = e
      OBVIOUS
    <3> HIDE DEF A, E
    <3> QED
      BY <3>1, <3>2, <3>3, <3>4, <3>5
  <2> HIDE DEF A, B, E, r, q
  <2>9. Sum(q, A) = 2 * Sum(r, A)
    BY <2>3, <2>4, <2>5, <2>8, SumTimes
  <2>10. Sum(q, E) = Sum(r, E)
    <3>1. \A i \in E : r[i] \in Int /\ q[i] = r[i]
      BY <2>3, <2>5, <2>8
    <3> QED
      BY <2>4, <3>1, SumEqual
  <2>11. Sum(q, A \cup E) = Sum(q, A) + Sum(q, E)
    <3>1. \A i \in A \cup E : q[i] \in Int
      BY <2>3, <2>5, <2>8
    <3> QED
      BY <2>2, <2>4, <3>1, SumDisjoint
  <2>12. Sum(r, A \cup E) = Sum(r, A) + Sum(r, E)
    <3>1. \A i \in A \cup E : r[i] \in Int
      BY <2>3, <2>5
    <3> QED
      BY <2>2, <2>4, <3>1, SumDisjoint
  <2>13. Sum(r, Limb) = Sum(r, A \cup E) + Sum(r, B)
    <3>1. \A i \in (A \cup E) \cup B : r[i] \in Int
      BY <2>3, <2>5
    <3>2. Sum(r, (A \cup E) \cup B) = Sum(r, A \cup E) + Sum(r, B)
      BY <2>2, <2>4, <3>1, SumDisjoint
    <3> QED
      BY <2>2, <3>2
  <2>14. Sum(r, A) \in Int /\ Sum(r, E) \in Int
    BY <2>3, <2>4, <2>5, SumInt
  <2>15. Sum(q, A \cup E) = Sum(r, Limb)
    <3>1. \A u, v \in Int : 2 * u + v = (u + v) + u
      OBVIOUS
    <3> QED
      BY <2>7, <2>9, <2>10, <2>11, <2>12, <2>13, <2>14, <3>1
  <2>16. feSquare(f)[k] = Sum(q, Pairs(k))
    BY SquareIsSum DEF q
  <2>17. Products(f, f)[k] = Sum(r, Limb)
    BY ProductIsSum DEF r
  <2> QED
    BY <2>2, <2>15, <2>16, <2>17
<1>2. feSquare(f) = [k \in Limb |-> feSquare(f)[k]]
  BY DEF feSquare
<1>3. Products(f, f) = [k \in Limb |-> Products(f, f)[k]]
  BY ProductsIn DEF Elements
<1> QED
  BY <1>1, <1>2, <1>3

(* The products of the code. *)
LEMMA MulSame ==
  ASSUME FieldShape, NEW f \in Elements, NEW g \in Elements
  PROVE  /\ FeMul(f, g) \in Elements /\ Same(Value(FeMul(f, g)), Value(f) * Value(g), p)
         /\ FeSquare(f) \in Elements /\ Same(Value(FeSquare(f)), Value(f) * Value(f), p)
         /\ FeSquare2(f) \in Elements /\ Same(Value(FeSquare2(f)), 2 * (Value(f) * Value(f)), p)
<1>0. p \in Int /\ Value(f) \in Int /\ Value(g) \in Int
  BY FieldBitsFacts, ValueInt
<1>1. ASSUME NEW h \in Elements
      PROVE  FeMul(f, h) \in Elements /\ Same(Value(FeMul(f, h)), Value(f) * Value(h), p)
  <2> DEFINE m == Products(f, h)
  <2>1. m \in Elements /\ Same(Value(m), Value(f) * Value(h), p)
    BY ProductsIn, ProductSame
  <2> HIDE DEF m
  <2>2. FeCombine(m) \in Elements /\ Same(Value(FeCombine(m)), Value(m), p)
    BY <2>1, CombineSame
  <2>3. Value(m) \in Int /\ Value(FeCombine(m)) \in Int /\ Value(f) * Value(h) \in Int
    BY <1>0, <2>1, <2>2, ValueInt
  <2>4. Same(Value(FeCombine(m)), Value(f) * Value(h), p)
    BY <1>0, <2>1, <2>2, <2>3, SameTransitive
  <2> QED
    BY <2>2, <2>4 DEF FeMul, m
<1>2. FeSquare(f) = FeMul(f, f)
  BY SquareIsProduct DEF FeSquare, FeMul
<1> DEFINE m == Products(f, f)
           d == [k \in Limb |-> 2 * m[k]]
<1>3. m \in Elements /\ Same(Value(m), Value(f) * Value(f), p)
  BY ProductsIn, ProductSame
<1>4. FeSquare2(f) = FeCombine(d)
  BY SquareIsProduct DEF FeSquare2
<1> HIDE DEF m
<1>5. d \in Elements /\ Value(d) = 2 * Value(m)
  BY <1>3, SumValues
<1> HIDE DEF d
<1>6. FeCombine(d) \in Elements /\ Same(Value(FeCombine(d)), Value(d), p)
  BY <1>5, CombineSame
<1>7. /\ Value(m) \in Int /\ Value(d) \in Int /\ Value(FeCombine(d)) \in Int
      /\ Value(f) * Value(f) \in Int /\ 2 * (Value(f) * Value(f)) \in Int
  BY <1>0, <1>3, <1>5, <1>6, ValueInt
<1>8. Same(2 * Value(m), 2 * (Value(f) * Value(f)), p)
  <2> DEFINE u == Value(f) * Value(f)
             two == 2
  <2>1. two \in Int /\ u \in Int
    BY <1>7
  <2> HIDE DEF u, two
  <2>2. Same(two * Value(m), two * u, p)
    BY <1>0, <1>3, <1>7, <2>1, SameTimes DEF u
  <2> QED
    BY <2>2 DEF u, two
<1>9. Same(Value(FeCombine(d)), 2 * (Value(f) * Value(f)), p)
  BY <1>0, <1>5, <1>6, <1>7, <1>8, SameTransitive
<1> QED
  BY <1>1, <1>2, <1>4, <1>6, <1>9

-----------------------------------------------------------------------------
(* Bytes. *)

(* The bits up to a b are those up to a and, above them, those of the quotient. *)
LEMMA ModSplit ==
  ASSUME NEW e \in Nat, NEW a \in Nat \ {0}, NEW b \in Nat \ {0}
  PROVE  /\ e % (a * b) = a * ((e \div a) % b) + (e % a)
         /\ (e \div a) \div b = e \div (a * b)
<1> DEFINE r == e % a
           u == e \div a
           v == u % b
           w == u \div b
<1>1. e = a * u + r /\ r \in 0 .. a - 1 /\ u \in Nat
  OBVIOUS
<1>2. u = b * w + v /\ v \in 0 .. b - 1 /\ w \in Nat
  OBVIOUS
<1> HIDE DEF r, u, v, w
<1>3. a * b \in Nat \ {0}
  OBVIOUS
<1>4. e = (a * b) * w + (a * v + r)
  <2>1. e = a * (b * w + v) + r
    BY <1>1, <1>2
  <2>2. a * (b * w + v) = (a * b) * w + a * v
    BY <1>2
  <2>3. a * v \in Int /\ (a * b) * w \in Int
    BY <1>2
  <2> QED
    BY <1>1, <2>1, <2>2, <2>3
<1>5. a * v + r \in 0 .. a * b - 1
  <2>1. a * v \in Nat /\ a * b \in Nat
    BY <1>2
  <2>2. a * v <= a * (b - 1)
    BY <1>2
  <2>3. a * (b - 1) = a * b - a
    OBVIOUS
  <2> QED
    BY <1>1, <2>1, <2>2, <2>3
<1>6. \A c \in Nat \ {0} : \A d \in Int, f \in 0 .. c - 1 : (c * d + f) % c = f /\ (c * d + f) \div c = d
  OBVIOUS
<1>7. e % (a * b) = a * v + r /\ e \div (a * b) = w
  <2> DEFINE c == a * b
             f == a * v + r
  <2>1. c \in Nat \ {0} /\ w \in Int /\ f \in 0 .. c - 1 /\ e = c * w + f
    BY <1>2, <1>3, <1>4, <1>5
  <2> HIDE DEF c, f
  <2>2. e % c = f /\ e \div c = w
    BY <1>6, <2>1
  <2> QED
    BY <2>2 DEF c, f
<1> QED
  BY <1>7 DEF r, u, v, w

(* load gives the bits between two positions. *)
LEMMA LoadBits ==
  ASSUME NEW b \in Nat, NEW lo \in Nat, NEW hi \in Nat, lo <= hi
  PROVE  /\ load(b, lo, hi) \in Nat /\ load(b, lo, hi) < pow2(hi - lo)
         /\ load(b, lo, hi) * pow2(lo) = (b % pow2(hi)) - (b % pow2(lo))
<1> DEFINE A == pow2(lo)
           B == pow2(hi - lo)
           v == (b \div A) % B
<1>1. hi - lo \in Nat /\ lo + (hi - lo) = hi
  OBVIOUS
<1>2. A \in Nat \ {0} /\ B \in Nat \ {0}
  BY <1>1, Pow2Facts
<1>3. pow2(hi) = A * B
  BY <1>1, Pow2Add
<1>4. load(b, lo, hi) = v
  BY DEF load
<1> HIDE DEF A, B
<1>5. b % (A * B) = A * v + (b % A)
  BY <1>2, ModSplit
<1>6. b % A \in Int /\ v \in Nat /\ v < B
  BY <1>2
<1> HIDE DEF v
<1>7. v * A = (b % (A * B)) - (b % A)
  BY <1>2, <1>5, <1>6
<1> QED
  BY <1>3, <1>4, <1>6, <1>7 DEF A, B

(* A sum of differences. *)
LEMMA SumTelescopes ==
  ASSUME NEW n \in Nat, NEW a, \A i \in 0 .. n : a[i] \in Int,
         NEW w, \A i \in 0 .. n - 1 : w[i] = a[i + 1] - a[i]
  PROVE  Sum(w, 0 .. n - 1) = a[n] - a[0]
<1> DEFINE T == {k \in Nat : k <= n => Sum(w, 0 .. k - 1) = a[k] - a[0]}
<1>1. 0 \in T
  <2>1. 0 .. 0 - 1 = {} /\ a[0] - a[0] = 0
    OBVIOUS
  <2> QED
    BY <2>1, SumEmpty
<1>2. ASSUME NEW k \in Nat, k \in T
      PROVE  k + 1 \in T
  <2> SUFFICES ASSUME k + 1 <= n PROVE Sum(w, 0 .. k) = a[k + 1] - a[0]
    OBVIOUS
  <2>1. Sum(w, 0 .. k - 1) = a[k] - a[0]
    BY <1>2
  <2>2. 0 .. k = (0 .. k - 1) \cup {k} /\ k \notin 0 .. k - 1 /\ IsFiniteSet(0 .. k - 1)
    BY FS_Interval
  <2>3. a[k] \in Int /\ a[k + 1] \in Int /\ a[0] \in Int /\ w[k] = a[k + 1] - a[k]
    OBVIOUS
  <2>4. \A i \in (0 .. k - 1) \cup {k} : w[i] \in Int
    BY <2>2
  <2>5. Sum(w, (0 .. k - 1) \cup {k}) = w[k] + Sum(w, 0 .. k - 1)
    BY <2>2, <2>4, SumAdd
  <2>6. Sum(w, 0 .. k) = (a[k + 1] - a[k]) + (a[k] - a[0])
    BY <2>1, <2>2, <2>3, <2>5
  <2> QED
    BY <2>3, <2>6
<1> HIDE DEF T
<1>3. n \in T
  BY <1>1, <1>2, NatSetInduction
<1> QED
  BY <1>3 DEF T

(* Limbs are read from where they begin or above, one after the other. *)
LEMMA StartFacts ==
  ASSUME FieldShape, NEW i \in Limb
  PROVE  /\ Start(i) \in Nat /\ Start(i + 1) \in Nat /\ Start(i) <= Start(i + 1)
         /\ Offset(i) <= Start(i) /\ Start(i) - Offset(i) \in Nat
         /\ Start(0) = 0 /\ Start(Limbs) = FieldBits
<1>1. /\ i \in Nat /\ Limbs \in Nat /\ i < Limbs /\ i \in Int
      /\ ByteBits \in Nat /\ ByteBits >= 1 /\ Wide \in Nat /\ ByteBits <= Wide /\ 4 <= Wide /\ Limbs >= 2
  BY LimbFinite DEF FieldShape, Limb
<1> DEFINE up8(n) == ByteBits * ((n + ByteBits - 1) \div ByteBits)
<1>2. \A n \in Nat : up8(n) \in Nat /\ n <= up8(n) /\ up8(n) <= n + ByteBits - 1
  BY <1>1
<1>3. ASSUME NEW n \in Nat, NEW m \in Nat, n <= m
      PROVE  up8(n) <= up8(m)
  <2> DEFINE u == (n + ByteBits - 1) \div ByteBits
             v == (m + ByteBits - 1) \div ByteBits
  <2>1. u \in Int /\ v \in Int /\ u <= v
    BY <1>1, <1>3
  <2> HIDE DEF u, v
  <2>2. ByteBits * u <= ByteBits * v
    BY <1>1, <2>1
  <2> QED
    BY <2>2 DEF u, v
<1>4. Offset(i) \in Nat /\ Offset(i + 1) = Offset(i) + Width(i) /\ Width(i) \in Nat /\ Width(i) >= Wide - 1
  BY <1>1, OffsetFacts, WidthFacts DEF Width
<1>5. Start(i) = up8(Offset(i)) /\ Start(i + 1) = IF i + 1 = Limbs THEN FieldBits ELSE up8(Offset(i + 1))
  BY <1>1 DEF Start
<1>6. Start(0) = up8(0)
  <2>1. 0 # Limbs /\ Offset(0) = 0
    BY <1>1, OffsetFacts
  <2> QED
    BY <2>1 DEF Start
<1>7. up8(0) = 0
  <2>1. (0 + ByteBits - 1) \div ByteBits = 0
    BY <1>1
  <2> QED
    BY <1>1, <2>1
<1>8. Start(Limbs) = FieldBits
  BY DEF Start
<1>9. i + 1 = Limbs => FieldBits = Offset(i + 1)
  BY DEF FieldBits
<1> HIDE DEF up8
<1>10. Start(i) \in Nat /\ Offset(i) <= Start(i) /\ Start(i) <= Offset(i) + ByteBits - 1
  BY <1>2, <1>4, <1>5
<1>11. Start(i + 1) \in Nat /\ Start(i) <= Start(i + 1)
  <2>1. Offset(i + 1) \in Nat /\ Offset(i) <= Offset(i + 1)
    BY <1>4
  <2>2. CASE i + 1 = Limbs
    BY <1>1, <1>4, <1>5, <1>9, <1>10, <2>1, <2>2
  <2>3. CASE i + 1 # Limbs
    BY <1>2, <1>3, <1>4, <1>5, <2>1, <2>3
  <2> QED
    BY <2>2, <2>3
<1> QED
  BY <1>4, <1>6, <1>7, <1>8, <1>10, <1>11

(* FeFromBytes reads the number below the sign bit. *)
LEMMA FromBytesSame ==
  ASSUME FieldShape, NEW b \in Nat
  PROVE  /\ FeFromBytes(b) \in Elements
         /\ Same(Value(FeFromBytes(b)), b % pow2(FieldBits), p)
<1> DEFINE h == [i \in Limb |-> load(b, Start(i), Start(i + 1)) * pow2(Start(i) - Offset(i))]
           a == [i \in 0 .. Limbs |-> b % pow2(Start(i))]
<1>1. ASSUME NEW i \in Limb PROVE h[i] \in Int
  <2>1. load(b, Start(i), Start(i + 1)) \in Nat
    BY StartFacts, LoadBits
  <2>2. pow2(Start(i) - Offset(i)) \in Nat
    BY StartFacts, Pow2Facts
  <2> QED
    BY <2>1, <2>2
<1>2. h \in Elements
  BY <1>1 DEF Elements
<1>3. ASSUME NEW i \in Limb
      PROVE  Weighted(h)[i] = a[i + 1] - a[i]
  <2>1. /\ Start(i) \in Nat /\ Start(i + 1) \in Nat /\ Start(i) <= Start(i + 1)
        /\ Start(i) - Offset(i) \in Nat /\ Offset(i) \in Nat
    BY StartFacts, LimbFinite, OffsetFacts
  <2> DEFINE v == load(b, Start(i), Start(i + 1))
  <2>2. v \in Nat /\ v * pow2(Start(i)) = (b % pow2(Start(i + 1))) - (b % pow2(Start(i)))
    BY <2>1, LoadBits
  <2>3. Weighted(h)[i] = (v * pow2(Start(i) - Offset(i))) * pow2(Offset(i))
    BY DEF Weighted
  <2>4. pow2(Start(i)) = pow2(Start(i) - Offset(i)) * pow2(Offset(i))
    <3>1. (Start(i) - Offset(i)) + Offset(i) = Start(i)
      BY <2>1
    <3> QED
      BY <2>1, <3>1, Pow2Add
  <2>5. pow2(Start(i) - Offset(i)) \in Nat /\ pow2(Offset(i)) \in Nat
    BY <2>1, Pow2Facts
  <2> HIDE DEF v
  <2>6. Weighted(h)[i] = v * pow2(Start(i))
    BY <2>2, <2>3, <2>4, <2>5
  <2>7. i \in 0 .. Limbs /\ i + 1 \in 0 .. Limbs
    BY DEF Limb, FieldShape
  <2> QED
    BY <2>2, <2>6, <2>7
<1>4. Limbs \in Nat /\ Limb = 0 .. Limbs - 1
  BY DEF Limb, FieldShape
<1>5. \A i \in 0 .. Limbs : a[i] \in Int
  <2>1. ASSUME NEW i \in 0 .. Limbs PROVE Start(i) \in Nat
    <3>1. CASE i = Limbs
      BY <3>1, StartFacts, LimbFinite, FieldBitsFacts
    <3>2. CASE i # Limbs
      <4>1. i \in Limb
        BY <1>4, <3>2
      <4> QED
        BY <4>1, StartFacts
    <3> QED
      BY <3>1, <3>2
  <2> QED
    BY <2>1, Pow2Facts
<1> HIDE DEF h
<1>6. Value(h) = a[Limbs] - a[0]
  <2> HIDE DEF a
  <2>1. Sum(Weighted(h), 0 .. Limbs - 1) = a[Limbs] - a[0]
    BY <1>3, <1>4, <1>5, SumTelescopes
  <2> QED
    BY <1>4, <2>1, ValueIsSum
<1>7. a[Limbs] = b % pow2(FieldBits) /\ a[0] = 0
  <2>1. Start(Limbs) = FieldBits /\ Start(0) = 0
    BY LimbFinite, StartFacts
  <2>2. pow2(0) = 1 /\ b % 1 = 0
    BY Pow2Facts
  <2>3. 0 \in 0 .. Limbs /\ Limbs \in 0 .. Limbs
    BY <1>4
  <2> QED
    BY <2>1, <2>2, <2>3
<1>8. b % pow2(FieldBits) \in Int
  BY FieldBitsFacts, Pow2Facts
<1>9. Value(h) = b % pow2(FieldBits)
  BY <1>6, <1>7, <1>8
<1>10. FeFromBytes(b) = FeCombine(h)
  BY DEF FeFromBytes, h
<1> QED
  BY <1>2, <1>9, <1>10, CombineSame

-----------------------------------------------------------------------------
(* The numbers that the limbs are compared with. *)

(* The product modulo m, bit by bit, is the product modulo m. *)
LEMMA MulModSame ==
  ASSUME NEW m \in Nat \ {0}, NEW bits \in Nat, NEW a \in Nat, NEW b \in Nat, b < pow2(bits)
  PROVE  Same(MulMod(a, b, m, bits), a * b, m) /\ MulMod(a, b, m, bits) \in 0 .. m - 1
<1> DEFINE top(k) == b \div pow2(bits - k)
           step(v, k) == (((2 * v) % m) + (top(k) % 2) * (a % m)) % m
           F(d) == [k \in 0 .. bits |-> IF k = 0 THEN 0 ELSE step(d[k - 1], k)]
           G == CHOOSE d : d = F(d)
           o == [k \in 1 .. bits |-> [v \in Int |-> step(v, k)]]
<1>1. MulMod(a, b, m, bits) = G[bits]
  BY DEF MulMod
<1>2. ASSUME NEW k \in 0 .. bits
      PROVE  top(k) \in Nat
  <2>1. bits - k \in Nat
    OBVIOUS
  <2> QED
    BY <2>1, Pow2Facts
<1>3. ASSUME NEW k \in 1 .. bits, NEW v \in Int
      PROVE  /\ step(v, k) \in 0 .. m - 1 /\ step(v, k) \in Int
             /\ Same(step(v, k), 2 * v + (top(k) % 2) * a, m)
  <2> DEFINE e == top(k) % 2
  <2>1. e \in Int
    BY <1>2
  <2> HIDE DEF e, top
  <2>2. Same((2 * v) % m, 2 * v, m) /\ Same(a % m, a, m) /\ (2 * v) % m \in Int /\ a % m \in Int
    <3>1. 2 * v \in Int
      OBVIOUS
    <3> DEFINE z == 2 * v
    <3> HIDE DEF z
    <3>2. Same(z % m, z, m) /\ z % m \in Int
      BY <3>1, SameMod DEF z
    <3>3. Same(a % m, a, m) /\ a % m \in Int
      BY SameMod
    <3> QED
      BY <3>2, <3>3 DEF z
  <2>3. Same(e * (a % m), e * a, m)
    BY <2>1, <2>2, SameTimes
  <2> DEFINE q == ((2 * v) % m) + e * (a % m)
             r == 2 * v + e * a
  <2>4. Same(q, r, m) /\ q \in Int /\ r \in Int
    <3> DEFINE f == 2 * v
               g == (2 * v) % m
               h == e * (a % m)
               i == e * a
    <3>1. f \in Int /\ g \in Int /\ h \in Int /\ i \in Int
      <4>1. e * (a % m) \in Int /\ e * a \in Int
        BY <2>1, <2>2
      <4> QED
        BY <2>2, <4>1
    <3>2. Same(g, f, m) /\ Same(h, i, m)
      BY <2>2, <2>3
    <3> HIDE DEF f, g, h, i
    <3>3. Same(g + h, f + i, m)
      BY <3>1, <3>2, SamePlus
    <3> QED
      BY <2>1, <2>2, <3>1, <3>3 DEF f, g, h, i
  <2>5. step(v, k) = q % m
    BY DEF e
  <2> HIDE DEF q, r, step
  <2>6. Same(q % m, q, m) /\ q % m \in 0 .. m - 1 /\ q % m \in Int
    BY <2>4, SameMod
  <2>7. Same(q % m, r, m)
    BY <2>4, <2>6, SameTransitive
  <2> QED
    BY <2>5, <2>6, <2>7 DEF r, e
<1>4. \E d : d = F(d)
  <2>1. \A v \in Int, k \in 1 .. bits : o[k][v] = step(v, k) /\ o[k][v] \in Int
    BY <1>3
  <2> HIDE DEF o, step
  <2>2. PICK d \in [0 .. bits -> Int] : d[0] = 0 /\ \A k \in 1 .. bits : d[k] = o[k][d[k - 1]]
    <3> DEFINE z == 0
               V == Int
    <3>1. z \in V /\ \A v \in V, k \in 1 .. bits : o[k][v] \in V
      BY <2>1
    <3> HIDE DEF z, V
    <3>2. \E d \in [0 .. bits -> V] : IsIter(d, bits, z, o)
      BY <3>1, IterExists
    <3> QED
      BY <3>2 DEF z, V, IsIter
  <2>3. \A k \in 0 .. bits : d[k] = IF k = 0 THEN 0 ELSE step(d[k - 1], k)
    <3>1. ASSUME NEW k \in 0 .. bits, k # 0
          PROVE  d[k] = step(d[k - 1], k)
      <4>1. k \in 1 .. bits /\ k - 1 \in 0 .. bits
        BY <3>1
      <4>2. d[k - 1] \in Int
        BY <4>1
      <4> QED
        BY <2>1, <2>2, <4>1, <4>2
    <3> QED
      BY <2>2, <3>1
  <2>4. d = F(d)
    BY <2>3
  <2> HIDE DEF F
  <2> QED
    BY <2>4
<1>5. G = F(G)
  <2> HIDE DEF F
  <2> QED
    BY <1>4
<1> HIDE DEF G, step
<1>6. \A k \in 0 .. bits : G[k] = IF k = 0 THEN 0 ELSE step(G[k - 1], k)
  BY <1>5
<1> HIDE DEF F
<1> DEFINE T == {k \in Nat : k <= bits => G[k] \in 0 .. m - 1 /\ Same(G[k], a * top(k), m)}
<1>7. 0 \in T
  <2>1. G[0] = 0
    BY <1>6
  <2>2. top(0) = 0
    <3>1. bits - 0 = bits /\ pow2(bits) \in Nat \ {0}
      BY Pow2Facts
    <3> QED
      BY <3>1
  <2>3. a * top(0) = 0
    <3> HIDE DEF top
    <3> QED
      BY <2>2
  <2>4. 0 \in 0 .. m - 1 /\ Same(0, 0, m)
    BY SameReflexive
  <2> HIDE DEF top
  <2> QED
    BY <2>1, <2>3, <2>4
<1>8. ASSUME NEW k \in Nat, k \in T
      PROVE  k + 1 \in T
  <2> SUFFICES ASSUME k + 1 <= bits
               PROVE  G[k + 1] \in 0 .. m - 1 /\ Same(G[k + 1], a * top(k + 1), m)
    BY DEF T
  <2> DEFINE v == G[k]
             u == top(k)
             w == top(k + 1)
  <2>1. v \in 0 .. m - 1 /\ Same(v, a * u, m) /\ v \in Int
    BY <1>8
  <2>2. k + 1 \in 0 .. bits /\ k + 1 \in 1 .. bits /\ k \in 0 .. bits /\ k + 1 # 0 /\ (k + 1) - 1 = k
    OBVIOUS
  <2>3. G[k + 1] = step(v, k + 1)
    BY <1>6, <2>2
  <2>4. /\ G[k + 1] \in 0 .. m - 1 /\ G[k + 1] \in Int
        /\ Same(G[k + 1], 2 * v + (w % 2) * a, m)
    BY <1>3, <2>1, <2>2, <2>3
  <2>5. u \in Nat /\ w \in Nat
    BY <1>2, <2>2
  <2>6. u = w \div 2
    <3> DEFINE P == pow2(bits - (k + 1))
    <3>1. bits - (k + 1) \in Nat /\ (bits - (k + 1)) + 1 = bits - k
      BY <2>2
    <3>2. P \in Nat \ {0} /\ pow2(bits - k) = 2 * P
      BY <3>1, Pow2Facts
    <3> DEFINE two == 2
    <3> HIDE DEF two
    <3>0. two \in Nat \ {0}
      BY DEF two
    <3>3. (b \div P) \div two = b \div (P * two)
      <4> HIDE DEF P
      <4> QED
        BY <3>0, <3>2, ModSplit
    <3>4. u = b \div (2 * P) /\ w = b \div P
      BY <3>2
    <3> HIDE DEF P, u, w
    <3>5. P * two = 2 * P /\ two = 2
      BY <3>2 DEF two
    <3> QED
      BY <3>3, <3>4, <3>5
  <2> HIDE DEF top, u, v, w, T
  <2>7. w = 2 * u + (w % 2) /\ w % 2 \in Int
    BY <2>5, <2>6
  <2>8. 2 * (a * u) + (w % 2) * a = a * w
    <3> DEFINE e == w % 2
    <3>1. e \in Int /\ w = 2 * u + e
      BY <2>7
    <3> HIDE DEF e
    <3>2. \A c, d, f \in Int : 2 * (c * d) + f * c = c * (2 * d + f)
      OBVIOUS
    <3>3. 2 * (a * u) + e * a = a * w
      BY <2>5, <3>1, <3>2
    <3> QED
      BY <3>3 DEF e
  <2>9. Same(2 * v + (w % 2) * a, 2 * (a * u) + (w % 2) * a, m)
    <3> DEFINE e == (w % 2) * a
               two == 2
               z == a * u
    <3>1. e \in Int /\ two \in Int /\ z \in Int
      BY <2>5, <2>7
    <3>2. Same(v, z, m)
      BY <2>1
    <3> HIDE DEF e, two, z
    <3>3. Same(two * v, two * z, m) /\ two * v \in Int /\ two * z \in Int
      BY <2>1, <3>1, <3>2, SameTimes
    <3>4. Same(two * v + e, two * z + e, m)
      BY <3>1, <3>3, SamePlus, SameReflexive
    <3> QED
      BY <3>4 DEF e, two, z
  <2>10. Same(G[k + 1], a * w, m)
    <3> DEFINE q == 2 * v + (w % 2) * a
               r == a * w
    <3>1. q \in Int /\ r \in Int
      BY <2>1, <2>5, <2>7
    <3>2. Same(G[k + 1], q, m) /\ Same(q, r, m)
      BY <2>4, <2>8, <2>9
    <3> HIDE DEF q, r
    <3>3. Same(G[k + 1], r, m)
      BY <2>4, <3>1, <3>2, SameTransitive
    <3> QED
      BY <3>3 DEF r
  <2> QED
    BY <2>4, <2>10 DEF w
<1>9. bits \in T
  <2> HIDE DEF T
  <2> QED
    BY <1>7, <1>8, NatSetInduction
<1>10. top(bits) = b
  <2>1. bits - bits = 0 /\ pow2(0) = 1 /\ b \div 1 = b
    BY Pow2Facts
  <2> QED
    BY <2>1
<1> HIDE DEF top
<1> QED
  BY <1>1, <1>9, <1>10

(* fmul multiplies modulo p. *)
LEMMA FmulSame ==
  ASSUME FieldShape, NEW a \in 0 .. p - 1, NEW b \in 0 .. p - 1
  PROVE  Same(fmul(a, b), a * b, p) /\ fmul(a, b) \in 0 .. p - 1
<1>1. p \in Nat \ {0} /\ FieldBits \in Nat /\ pow2(FieldBits) = p + 19
  BY FieldBitsFacts
<1>2. a \in Nat /\ b \in Nat /\ b < pow2(FieldBits)
  BY <1>1
<1> QED
  BY <1>1, <1>2, MulModSame DEF fmul

-----------------------------------------------------------------------------
(* Limbs stand for the number that the calls compute. *)

(* Limbs fe stand for the number val below the prime. *)
Stands(fe, val) == fe \in Elements /\ val \in 0 .. p - 1 /\ Same(Value(fe), val, p)

(* Limbs that stand for a number stand for its remainder. *)
LEMMA StandsMod ==
  ASSUME FieldShape, NEW fe \in Elements, NEW v \in Int, Same(Value(fe), v, p)
  PROVE  Stands(fe, v % p)
<1>1. p \in Nat \ {0} /\ p \in Int /\ Value(fe) \in Int
  BY FieldBitsFacts, ValueInt
<1>2. Same(v % p, v, p) /\ v % p \in 0 .. p - 1 /\ v % p \in Int
  BY <1>1, SameMod
<1>3. Same(v, v % p, p)
  BY <1>1, <1>2, SameSymmetric
<1>4. Same(Value(fe), v % p, p)
  BY <1>1, <1>2, <1>3, SameTransitive
<1> QED
  BY <1>2, <1>4 DEF Stands

(* What is read stands for what is encoded. *)
LEMMA ReadStands ==
  ASSUME FieldShape, NEW b \in Nat
  PROVE  Stands(Read(b).fe, Read(b).val)
<1>1. FeFromBytes(b) \in Elements /\ Same(Value(FeFromBytes(b)), b % pow2(FieldBits), p)
  BY FromBytesSame
<1>2. b % pow2(FieldBits) \in Int
  BY FieldBitsFacts, Pow2Facts
<1>3. Stands(FeFromBytes(b), (b % pow2(FieldBits)) % p)
  BY <1>1, <1>2, StandsMod
<1> QED
  BY <1>3 DEF Read

(* Two registers, and the numbers they stand for. *)
LEMMA StandsFacts ==
  ASSUME FieldShape, NEW f, NEW a, NEW g, NEW b, Stands(f, a), Stands(g, b)
  PROVE  /\ Stands(FeAdd(f, g), (a + b) % p)
         /\ Stands(FeSub(f, g), (a - b) % p)
         /\ Stands(FeNeg(f), (-a) % p)
         /\ Stands(FeMul(f, g), fmul(a, b))
         /\ Stands(FeSquare(f), fmul(a, a))
         /\ Stands(FeSquare2(f), fmul(a, (2 * a) % p))
<1>1. p \in Nat \ {0} /\ p \in Int
  BY FieldBitsFacts
<1>2. f \in Elements /\ a \in 0 .. p - 1 /\ a \in Int /\ Same(Value(f), a, p) /\ Value(f) \in Int
  BY <1>1, ValueInt DEF Stands
<1>3. g \in Elements /\ b \in 0 .. p - 1 /\ b \in Int /\ Same(Value(g), b, p) /\ Value(g) \in Int
  BY <1>1, ValueInt DEF Stands
<1>4. /\ Same(Value(f) + Value(g), a + b, p)
      /\ Same(Value(f) - Value(g), a - b, p)
      /\ Same(-Value(f), -a, p)
  BY <1>1, <1>2, <1>3, SamePlus
<1>5. /\ FeAdd(f, g) \in Elements /\ Same(Value(FeAdd(f, g)), a + b, p)
      /\ FeSub(f, g) \in Elements /\ Same(Value(FeSub(f, g)), a - b, p)
      /\ FeNeg(f) \in Elements /\ Same(Value(FeNeg(f)), -a, p)
  BY <1>2, <1>3, <1>4, SumValues
<1>6. a + b \in Int /\ a - b \in Int /\ -a \in Int
  BY <1>2, <1>3
<1>7. Stands(FeAdd(f, g), (a + b) % p) /\ Stands(FeSub(f, g), (a - b) % p) /\ Stands(FeNeg(f), (-a) % p)
  <2>1. Stands(FeAdd(f, g), (a + b) % p)
    BY <1>5, <1>6, StandsMod
  <2>2. Stands(FeSub(f, g), (a - b) % p)
    BY <1>5, <1>6, StandsMod
  <2>3. Stands(FeNeg(f), (-a) % p)
    BY <1>5, <1>6, StandsMod
  <2> QED
    BY <2>1, <2>2, <2>3
<1>8. ASSUME NEW h, NEW c, Stands(h, c)
      PROVE  Same(Value(f) * Value(h), a * c, p) /\ Value(f) * Value(h) \in Int /\ a * c \in Int
  <2>1. h \in Elements /\ c \in Int /\ Same(Value(h), c, p) /\ Value(h) \in Int
    BY <1>1, <1>8, ValueInt DEF Stands
  <2>2. Same(Value(f) * Value(h), a * Value(h), p)
    BY <1>1, <1>2, <2>1, SameTimes
  <2>3. Same(a * Value(h), a * c, p)
    BY <1>1, <1>2, <2>1, SameTimes
  <2>4. Value(f) * Value(h) \in Int /\ a * Value(h) \in Int /\ a * c \in Int
    BY <1>2, <2>1
  <2> QED
    BY <1>1, <2>2, <2>3, <2>4, SameTransitive
<1>9. ASSUME NEW fe \in Elements, NEW v \in Int, NEW c \in 0 .. p - 1, NEW u \in Int,
             Same(Value(fe), u, p), Same(u, v, p), Same(c, v, p)
      PROVE  Stands(fe, c)
  <2>1. Value(fe) \in Int /\ c \in Int
    BY <1>1, ValueInt
  <2>2. Same(v, c, p)
    BY <1>1, <1>9, <2>1, SameSymmetric
  <2>3. Same(Value(fe), v, p)
    BY <1>1, <1>9, <2>1, SameTransitive
  <2>4. Same(Value(fe), c, p)
    BY <1>1, <2>1, <2>2, <2>3, SameTransitive
  <2> QED
    BY <2>4 DEF Stands
<1>10. Stands(FeMul(f, g), fmul(a, b))
  <2>1. Same(Value(f) * Value(g), a * b, p) /\ Value(f) * Value(g) \in Int /\ a * b \in Int
    BY <1>8
  <2>2. FeMul(f, g) \in Elements /\ Same(Value(FeMul(f, g)), Value(f) * Value(g), p)
    BY <1>2, <1>3, MulSame
  <2>3. Same(fmul(a, b), a * b, p) /\ fmul(a, b) \in 0 .. p - 1
    BY <1>2, <1>3, FmulSame
  <2> QED
    BY <1>9, <2>1, <2>2, <2>3
<1>11. Stands(FeSquare(f), fmul(a, a))
  <2>1. Same(Value(f) * Value(f), a * a, p) /\ Value(f) * Value(f) \in Int /\ a * a \in Int
    BY <1>8
  <2>2. FeSquare(f) \in Elements /\ Same(Value(FeSquare(f)), Value(f) * Value(f), p)
    BY <1>2, MulSame
  <2>3. Same(fmul(a, a), a * a, p) /\ fmul(a, a) \in 0 .. p - 1
    BY <1>2, FmulSame
  <2> QED
    BY <1>9, <2>1, <2>2, <2>3
<1>12. Stands(FeSquare2(f), fmul(a, (2 * a) % p))
  <2> DEFINE d == (2 * a) % p
             two == 2
  <2>1. Same(Value(f) * Value(f), a * a, p) /\ Value(f) * Value(f) \in Int /\ a * a \in Int
    BY <1>8
  <2>2. /\ FeSquare2(f) \in Elements
        /\ Same(Value(FeSquare2(f)), two * (Value(f) * Value(f)), p)
    BY <1>2, MulSame
  <2>3. Same(d, 2 * a, p) /\ d \in 0 .. p - 1 /\ d \in Int
    <3> DEFINE z == 2 * a
    <3>1. z \in Int
      BY <1>2
    <3> HIDE DEF z
    <3>2. Same(z % p, z, p) /\ z % p \in 0 .. p - 1 /\ z % p \in Int
      BY <1>1, <3>1, SameMod
    <3> QED
      BY <3>2 DEF z
  <2>4. two \in Int /\ 2 * a \in Int /\ a * (2 * a) = two * (a * a) /\ two * (a * a) \in Int
    BY <1>2
  <2> HIDE DEF d, two
  <2>5. Same(fmul(a, d), a * d, p) /\ fmul(a, d) \in 0 .. p - 1
    BY <1>2, <2>3, FmulSame
  <2>6. Same(a * d, two * (a * a), p) /\ a * d \in Int
    <3> DEFINE z == 2 * a
    <3>1. z \in Int /\ Same(d, z, p)
      BY <2>3, <2>4
    <3> HIDE DEF z
    <3>2. Same(a * d, a * z, p)
      BY <1>1, <1>2, <2>3, <3>1, SameTimes
    <3> QED
      BY <1>2, <2>3, <2>4, <3>2 DEF z
  <2>7. fmul(a, d) \in Int
    BY <1>1, <2>5
  <2>8. Same(fmul(a, d), two * (a * a), p)
    <3> DEFINE u == two * (a * a)
               v == a * d
    <3>1. u \in Int /\ v \in Int /\ Same(v, u, p) /\ Same(fmul(a, d), v, p)
      BY <2>4, <2>5, <2>6
    <3> HIDE DEF u, v
    <3>2. Same(fmul(a, d), u, p)
      BY <1>1, <2>7, <3>1, SameTransitive
    <3> QED
      BY <3>2 DEF u
  <2>9. Same(two * (Value(f) * Value(f)), two * (a * a), p) /\ two * (Value(f) * Value(f)) \in Int
    <3> DEFINE u == Value(f) * Value(f)
               v == a * a
    <3>1. u \in Int /\ v \in Int /\ Same(u, v, p)
      BY <2>1
    <3> HIDE DEF u, v
    <3>2. Same(two * u, two * v, p) /\ two * u \in Int
      BY <1>1, <2>4, <3>1, SameTimes
    <3> QED
      BY <3>2 DEF u, v
  <2>10. Stands(FeSquare2(f), fmul(a, d))
    <3> DEFINE u == two * (Value(f) * Value(f))
               v == two * (a * a)
    <3>1. u \in Int /\ v \in Int /\ Same(u, v, p) /\ Same(fmul(a, d), v, p) /\ Same(Value(FeSquare2(f)), u, p)
      BY <2>2, <2>4, <2>8, <2>9
    <3> HIDE DEF u, v
    <3> QED
      BY <1>9, <2>2, <2>5, <3>1
  <2> QED
    BY <2>10 DEF d
<1> QED
  BY <1>7, <1>10, <1>11, <1>12

(* FeZero and FeOne stand for 0 and 1. *)
LEMMA ConstantStands ==
  ASSUME FieldShape
  PROVE  Stands(FeZero, 0) /\ Stands(FeOne, 1)
<1>1. p \in Nat /\ p >= 2
  <2>1. FieldBits \in Nat /\ FieldBits >= 7 /\ pow2(FieldBits) = p + 19 /\ p \in Nat
    BY FieldBitsFacts
  <2>2. pow2(5) <= pow2(FieldBits)
    BY <2>1, Pow2Mono
  <2>3. pow2(5) = 32
    <3>1. pow2(0 + 1) = 2 /\ pow2(1 + 1) = 2 * pow2(1) /\ pow2(2 + 1) = 2 * pow2(2)
          /\ pow2(3 + 1) = 2 * pow2(3) /\ pow2(4 + 1) = 2 * pow2(4)
      BY Pow2Facts
    <3> QED
      BY <3>1
  <2> QED
    BY <2>1, <2>2, <2>3
<1>2. 0 \in 0 .. p - 1 /\ 1 \in 0 .. p - 1 /\ Same(0, 0, p) /\ Same(1, 1, p)
  BY <1>1, SameReflexive
<1> QED
  BY <1>2, ConstantValues DEF Stands

-----------------------------------------------------------------------------
(* The exponents of the addition chains. *)

(* n squarings multiply the exponent by 2^n. *)
LEMMA SquaringsSame ==
  ASSUME NEW m \in Nat \ {0}, NEW a \in Int, NEW n \in Nat
  PROVE  Same(Squarings(a, n, m), a * pow2(n), m) /\ Squarings(a, n, m) \in Int
         /\ Squarings(a, n, m) \in 0 .. m - 1
<1> DEFINE q == n \div 15
           r == n % 15
           z == (a * pow2(r)) % m
           step(v) == (v * pow2(15)) % m
           F(d) == [k \in 0 .. q |-> IF k = 0 THEN (a * pow2(n % 15)) % m ELSE (d[k - 1] * pow2(15)) % m]
           G == CHOOSE d : d = F(d)
           o == [k \in 1 .. q |-> [v \in Int |-> step(v)]]
<1>1. Squarings(a, n, m) = G[q]
  BY DEF Squarings
<1>2. q \in Nat /\ r \in Nat /\ n = r + 15 * q
  OBVIOUS
<1>3. pow2(r) \in Int /\ pow2(15) \in Int
  BY <1>2, Pow2Facts
<1>4. \A v \in Int : step(v) \in 0 .. m - 1 /\ step(v) \in Int /\ Same(step(v), v * pow2(15), m)
  <2>1. ASSUME NEW v \in Int
        PROVE  step(v) \in 0 .. m - 1 /\ step(v) \in Int /\ Same(step(v), v * pow2(15), m)
    <3> DEFINE e == v * pow2(15)
    <3>1. e \in Int
      BY <1>3
    <3> HIDE DEF e
    <3>2. e % m \in 0 .. m - 1 /\ e % m \in Int /\ Same(e % m, e, m)
      BY <3>1, SameMod
    <3> QED
      BY <3>2 DEF e
  <2> QED
    BY <2>1
<1>5. z \in 0 .. m - 1 /\ z \in Int /\ Same(z, a * pow2(r), m)
  <2> DEFINE e == a * pow2(r)
  <2>1. e \in Int
    BY <1>3
  <2> HIDE DEF e
  <2>2. e % m \in 0 .. m - 1 /\ e % m \in Int /\ Same(e % m, e, m)
    BY <2>1, SameMod
  <2> QED
    BY <2>2 DEF e
<1>6. \A d : F(d) = [k \in 0 .. q |-> IF k = 0 THEN z ELSE step(d[k - 1])]
  OBVIOUS
<1> HIDE DEF step, z
<1>7. \A v \in Int, k \in 1 .. q : o[k][v] = step(v) /\ o[k][v] \in Int
  BY <1>4
<1> HIDE DEF o, q, r, F
<1>8. \E d : d = F(d)
  <2>1. PICK d \in [0 .. q -> Int] : d[0] = z /\ \A k \in 1 .. q : d[k] = o[k][d[k - 1]]
    <3> DEFINE V == Int
    <3>1. z \in V /\ \A v \in V, k \in 1 .. q : o[k][v] \in V
      BY <1>5, <1>7
    <3> HIDE DEF V
    <3>2. \E d \in [0 .. q -> V] : IsIter(d, q, z, o)
      BY <1>2, <3>1, IterExists
    <3> QED
      BY <3>2 DEF V, IsIter
  <2>2. \A k \in 0 .. q : d[k] = IF k = 0 THEN z ELSE step(d[k - 1])
    <3>1. ASSUME NEW k \in 0 .. q, k # 0
          PROVE  d[k] = step(d[k - 1])
      <4>1. k \in 1 .. q /\ k - 1 \in 0 .. q
        BY <1>2, <3>1
      <4>2. d[k - 1] \in Int
        BY <4>1
      <4> QED
        BY <1>7, <2>1, <4>1, <4>2
    <3> QED
      BY <2>1, <3>1
  <2>3. d = [k \in 0 .. q |-> IF k = 0 THEN z ELSE step(d[k - 1])]
    BY <2>2
  <2> QED
    BY <1>6, <2>3
<1>9. G = F(G)
  BY <1>8
<1> HIDE DEF G
<1>10. \A k \in 0 .. q : G[k] = IF k = 0 THEN z ELSE step(G[k - 1])
  BY <1>6, <1>9
<1> DEFINE T == {k \in Nat : k <= q => G[k] \in 0 .. m - 1 /\ G[k] \in Int /\ Same(G[k], a * pow2(r + 15 * k), m)}
<1>11. 0 \in T
  <2>1. 0 \in 0 .. q /\ r + 15 * 0 = r
    BY <1>2
  <2>2. G[0] = z
    BY <1>10, <2>1
  <2> QED
    BY <1>5, <2>1, <2>2
<1>12. ASSUME NEW k \in Nat, k \in T
       PROVE  k + 1 \in T
  <2> SUFFICES ASSUME k + 1 <= q
               PROVE  /\ G[k + 1] \in 0 .. m - 1 /\ G[k + 1] \in Int
                      /\ Same(G[k + 1], a * pow2(r + 15 * (k + 1)), m)
    BY DEF T
  <2>1. k + 1 \in 0 .. q /\ k + 1 # 0 /\ (k + 1) - 1 = k /\ k <= q
    BY <1>2
  <2>2. G[k + 1] = step(G[k]) /\ G[k] \in Int /\ Same(G[k], a * pow2(r + 15 * k), m)
    BY <1>10, <1>12, <2>1
  <2> DEFINE e == a * pow2(r + 15 * k)
             f == a * pow2(r + 15 * (k + 1))
             w == pow2(15)
             v == G[k]
  <2>3. r + 15 * k \in Nat /\ (r + 15 * k) + 15 = r + 15 * (k + 1) /\ r + 15 * (k + 1) \in Nat
    BY <1>2
  <2>4. pow2(r + 15 * (k + 1)) = pow2(r + 15 * k) * w
    BY <2>3, Pow2Add
  <2>5. pow2(r + 15 * k) \in Int /\ w \in Int /\ pow2(r + 15 * (k + 1)) \in Int
    BY <2>3, Pow2Facts
  <2>6. e \in Int /\ f \in Int /\ f = e * w
    BY <2>4, <2>5
  <2>7. step(v) \in 0 .. m - 1 /\ step(v) \in Int /\ Same(step(v), v * w, m)
    BY <1>4, <2>2
  <2> HIDE DEF e, f, v, w
  <2>8. Same(v * w, f, m) /\ v * w \in Int
    BY <2>2, <2>5, <2>6, SameTimes DEF e, v
  <2>9. Same(step(v), f, m)
    BY <2>6, <2>7, <2>8, SameTransitive
  <2> QED
    BY <2>2, <2>7, <2>9 DEF f, v
<1> HIDE DEF T
<1>13. q \in T
  BY <1>2, <1>11, <1>12, NatSetInduction
<1>14. G[q] \in 0 .. m - 1 /\ G[q] \in Int /\ Same(G[q], a * pow2(r + 15 * q), m)
  BY <1>2, <1>13 DEF T
<1> QED
  BY <1>1, <1>2, <1>14

(* n squarings and a product. *)
LEMMA ShiftAdd ==
  ASSUME NEW m \in Nat \ {0}, NEW u \in Int, NEW v \in Int, NEW e \in Int, NEW f \in Int,
         NEW n \in Nat, Same(u, e, m), Same(v, f, m)
  PROVE  LET w == (Squarings(u, n, m) + v) % m
         IN  Same(w, e * pow2(n) + f, m) /\ w \in Int /\ w \in 0 .. m - 1
<1> DEFINE c == Squarings(u, n, m)
           q == pow2(n)
<1>0. q \in Int /\ m \in Int
  <2>1. pow2(n) \in Nat \ {0}
    BY Pow2Facts
  <2> QED
    BY <2>1
<1>1. c \in Int /\ q \in Int /\ m \in Int /\ Same(c, u * q, m)
  BY <1>0, SquaringsSame
<1> HIDE DEF c, q
<1>2. u * q \in Int /\ e * q \in Int
  BY <1>1
<1>3. Same(u * q, e * q, m)
  BY <1>1, SameTimes
<1>4. Same(c, e * q, m)
  BY <1>1, <1>2, <1>3, SameTransitive
<1> DEFINE g == e * q
           h == c + v
<1>5. g \in Int /\ h \in Int
  BY <1>1, <1>2
<1>6. Same(h, g + f, m) /\ g + f \in Int
  <2> HIDE DEF g
  <2> QED
    BY <1>1, <1>4, <1>5, SamePlus DEF g
<1> DEFINE i == g + f
<1> HIDE DEF h, i
<1>7. Same(h % m, h, m) /\ h % m \in Int /\ h % m \in 0 .. m - 1
  BY <1>5, SameMod
<1>8. Same(h % m, i, m)
  BY <1>1, <1>5, <1>6, <1>7, SameTransitive DEF i
<1> QED
  BY <1>7, <1>8 DEF c, q, h, i

(* A run of ones doubles its length, or grows by another one. *)
LEMMA ChainStep ==
  ASSUME NEW m \in Nat \ {0}, NEW u \in Int, NEW v \in Int, NEW a \in Nat, NEW b \in Nat,
         Same(u, pow2(a) - 1, m), Same(v, pow2(b) - 1, m)
  PROVE  LET w == (Squarings(u, b, m) + v) % m
         IN  Same(w, pow2(a + b) - 1, m) /\ w \in Int
<1> DEFINE w == (Squarings(u, b, m) + v) % m
           e == pow2(a) - 1
           f == pow2(b) - 1
<1>1. pow2(a) \in Int /\ pow2(b) \in Int /\ pow2(a + b) = pow2(a) * pow2(b)
  BY Pow2Facts, Pow2Add
<1>2. e \in Int /\ f \in Int
  BY <1>1
<1>3. e * pow2(b) + f = pow2(a + b) - 1
  BY <1>1
<1> HIDE DEF e, f, w
<1>4. Same(w, e * pow2(b) + f, m) /\ w \in Int
  BY <1>2, ShiftAdd DEF e, f, w
<1> QED
  BY <1>3, <1>4 DEF w

(* The small powers of two that the chains begin and end with. *)
LEMMA SmallPowers ==
  pow2(0) = 1 /\ pow2(1) = 2 /\ pow2(2) = 4 /\ pow2(3) = 8 /\ pow2(5) = 32
<1>1. pow2(0) = 1 /\ pow2(0 + 1) = 2 * pow2(0) /\ pow2(1 + 1) = 2 * pow2(1) /\ pow2(2 + 1) = 2 * pow2(2)
      /\ pow2(3 + 1) = 2 * pow2(3) /\ pow2(4 + 1) = 2 * pow2(4)
  BY Pow2Facts
<1> QED
  BY <1>1

(* The exponents that both chains begin with. *)
LEMMA ChainStart ==
  ASSUME NEW m \in Nat \ {0}
  PROVE  Same(z11(m), 11, m) /\ z11(m) \in Int /\ Same(z5(m), pow2(5) - 1, m) /\ z5(m) \in Int
<1> DEFINE t0 == Squarings(1, 1, m)
           t1 == 1 + Squarings(1, 3, m)
<1>1. m \in Int
  OBVIOUS
<1>2. Same(t0, 2, m) /\ t0 \in Int
  <2>1. Same(Squarings(1, 1, m), 1 * pow2(1), m) /\ Squarings(1, 1, m) \in Int
    BY SquaringsSame
  <2> QED
    BY <2>1, SmallPowers
<1>3. Same(t1, 9, m) /\ t1 \in Int
  <2> DEFINE c == Squarings(1, 3, m)
  <2>1. Same(Squarings(1, 3, m), 1 * pow2(3), m) /\ Squarings(1, 3, m) \in Int
    BY SquaringsSame
  <2>2. Same(c, 8, m) /\ c \in Int
    BY <2>1, SmallPowers
  <2> HIDE DEF c
  <2>3. PICK d \in Int : c - 8 = d * m
    BY <2>2 DEF Same
  <2>4. (1 + c) - 9 = d * m /\ 1 + c \in Int
    BY <2>2, <2>3
  <2> QED
    BY <2>4 DEF Same, c
<1> HIDE DEF t0, t1
<1>4. Same(z11(m), 11, m) /\ z11(m) \in Int
  <2> DEFINE c == Squarings(t0, 2, m)
             v == t0 + 1
             two == 2
             f == 3
  <2>1. Same(v, f, m) /\ v \in Int /\ f \in Int /\ two \in Int /\ two \in Nat /\ Same(t0, two, m)
    <3>1. PICK d \in Int : t0 - 2 = d * m
      BY <1>2 DEF Same
    <3>2. (t0 + 1) - 3 = d * m
      BY <1>2, <3>1
    <3> QED
      BY <1>2, <3>2 DEF Same
  <2>2. z11(m) = (t0 + (1 + c)) % m
    BY DEF z11, t0
  <2>3. c \in Int
    BY <1>2, SquaringsSame
  <2>4. t0 + (1 + c) = c + v
    BY <1>2, <2>3
  <2> HIDE DEF v, two, f
  <2> DEFINE w == (Squarings(t0, two, m) + v) % m
  <2>5. Same(w, two * pow2(two) + f, m) /\ w \in Int
    <3> HIDE DEF w
    <3> QED
      BY <1>2, <2>1, ShiftAdd DEF w
  <2>6. two * pow2(two) + f = 11
    BY SmallPowers DEF two, f
  <2>7. z11(m) = w
    BY <2>2, <2>4 DEF two
  <2> QED
    BY <2>5, <2>6, <2>7
<1>5. Same(z5(m), pow2(5) - 1, m) /\ z5(m) \in Int
  <2> DEFINE c == Squarings(z11(m), 1, m)
             one == 1
             e == 11
             f == 9
  <2>1. one \in Nat /\ e \in Int /\ f \in Int /\ Same(z11(m), e, m) /\ Same(t1, f, m) /\ c \in Int
    BY <1>3, <1>4, SquaringsSame
  <2>2. z5(m) = (t1 + c) % m /\ t1 + c = c + t1
    BY <1>3, <2>1 DEF z5, t1
  <2> HIDE DEF one, e, f
  <2> DEFINE w == (Squarings(z11(m), one, m) + t1) % m
  <2>3. Same(w, e * pow2(one) + f, m) /\ w \in Int
    <3> HIDE DEF w
    <3> QED
      BY <1>3, <1>4, <2>1, ShiftAdd DEF w
  <2>4. e * pow2(one) + f = pow2(5) - 1
    BY SmallPowers DEF e, f, one
  <2>5. z5(m) = w
    BY <2>2 DEF one
  <2> QED
    BY <2>3, <2>4, <2>5
<1> QED
  BY <1>4, <1>5

(* The exponent that both chains reach before their last loop. *)
LEMMA ChainMiddle ==
  ASSUME NEW m \in Nat \ {0}
  PROVE  Same(z250(m), pow2(250) - 1, m) /\ z250(m) \in Int
<1> DEFINE t5 == z5(m)
           t10  == (Squarings(t5, 5, m) + t5) % m
           t20  == (Squarings(t10, 10, m) + t10) % m
           t40  == (Squarings(t20, 20, m) + t20) % m
           t50  == (Squarings(t40, 10, m) + t10) % m
           t100 == (Squarings(t50, 50, m) + t50) % m
           t200 == (Squarings(t100, 100, m) + t100) % m
<1>0. z250(m) = (Squarings(t200, 50, m) + t50) % m
  BY DEF z250
<1>1. Same(t5, pow2(5) - 1, m) /\ t5 \in Int
  BY ChainStart
<1> HIDE DEF t5
<1>2. Same(t10, pow2(5 + 5) - 1, m) /\ t10 \in Int
  BY <1>1, ChainStep
<1> HIDE DEF t10
<1>3. Same(t20, pow2(10 + 10) - 1, m) /\ t20 \in Int
  BY <1>2, ChainStep
<1> HIDE DEF t20
<1>4. Same(t40, pow2(20 + 20) - 1, m) /\ t40 \in Int
  BY <1>3, ChainStep
<1> HIDE DEF t40
<1>5. Same(t50, pow2(40 + 10) - 1, m) /\ t50 \in Int
  BY <1>2, <1>4, ChainStep
<1> HIDE DEF t50
<1>6. Same(t100, pow2(50 + 50) - 1, m) /\ t100 \in Int
  BY <1>5, ChainStep
<1> HIDE DEF t100
<1>7. Same(t200, pow2(100 + 100) - 1, m) /\ t200 \in Int
  BY <1>6, ChainStep
<1> HIDE DEF t200
<1> DEFINE w == (Squarings(t200, 50, m) + t50) % m
<1>8. Same(w, pow2(200 + 50) - 1, m) /\ w \in Int
  BY <1>5, <1>7, ChainStep
<1> HIDE DEF w
<1> QED
  BY <1>0, <1>8 DEF w

(* The chain of FeInvert ends at 2^255 - 21, that of fePow22523 at 2^252 - 3. *)
LEMMA ChainEnds ==
  ASSUME NEW m \in Nat \ {0}
  PROVE  /\ FeInvert(m) = (Squarings(1, 255, m) - 21) % m
         /\ fePow22523(m) = (Squarings(1, 252, m) - 3) % m
<1> DEFINE e == pow2(250) - 1
           u == z250(m)
<1>1. pow2(250) \in Int /\ pow2(255) \in Int /\ pow2(252) \in Int
      /\ pow2(250 + 5) = pow2(250) * pow2(5) /\ pow2(250 + 2) = pow2(250) * pow2(2)
  <2>1. pow2(250) \in Nat \ {0} /\ pow2(255) \in Nat \ {0} /\ pow2(252) \in Nat \ {0}
    BY Pow2Facts
  <2>2. pow2(250) \in Int /\ pow2(255) \in Int /\ pow2(252) \in Int
    BY <2>1
  <2>3. \A a, b \in Nat : pow2(a + b) = pow2(a) * pow2(b)
    BY Pow2Add
  <2>4. pow2(250 + 5) = pow2(250) * pow2(5) /\ pow2(250 + 2) = pow2(250) * pow2(2)
    BY <2>3
  <2> QED
    BY <2>2, <2>4
<1>2. e \in Int /\ e * pow2(5) + 11 = pow2(255) - 21 /\ e * pow2(2) + 1 = pow2(252) - 3
  BY <1>1, SmallPowers
<1>3. Same(u, e, m) /\ u \in Int
  BY ChainMiddle
<1>4. ASSUME NEW n \in Nat, NEW d \in Int, pow2(n) \in Int
      PROVE  LET w == (Squarings(1, n, m) - d) % m
             IN  Same(w, pow2(n) - d, m) /\ w \in 0 .. m - 1 /\ w \in Int
  <2> DEFINE c == Squarings(1, n, m)
             h == c - d
             i == pow2(n) - d
             one == 1
  <2>1. Same(c, one * pow2(n), m) /\ c \in Int
    <3> one \in Int
      OBVIOUS
    <3>1. Same(Squarings(one, n, m), one * pow2(n), m) /\ Squarings(one, n, m) \in Int
      <4> HIDE DEF one
      <4> QED
        BY SquaringsSame
    <3> QED
      BY <3>1
  <2>2. one * pow2(n) = pow2(n)
    BY <1>4
  <2> HIDE DEF c
  <2>3. Same(c, pow2(n), m)
    BY <2>1, <2>2
  <2>4. m \in Int /\ h \in Int /\ i \in Int
    BY <1>4, <2>1
  <2>5. Same(h, i, m)
    BY <1>4, <2>1, <2>3, <2>4, SameReflexive, SamePlus
  <2> HIDE DEF h, i
  <2>6. Same(h % m, h, m) /\ h % m \in Int /\ h % m \in 0 .. m - 1
    BY <2>4, SameMod
  <2>7. Same(h % m, i, m)
    BY <2>4, <2>5, <2>6, SameTransitive
  <2> QED
    BY <2>6, <2>7 DEF h, i, c
<1>5. ASSUME NEW v \in 0 .. m - 1, NEW w \in 0 .. m - 1, NEW t \in Int, Same(v, t, m), Same(w, t, m)
      PROVE  v = w
  <2>1. v \in Int /\ w \in Int /\ m \in Int
    OBVIOUS
  <2>2. Same(t, w, m)
    BY <1>5, <2>1, SameSymmetric
  <2>3. Same(v, w, m)
    BY <1>5, <2>1, <2>2, SameTransitive
  <2> QED
    BY <2>3, SameUnique
<1> HIDE DEF u, e
<1>6. FeInvert(m) = (Squarings(1, 255, m) - 21) % m
  <2> DEFINE f == 11
             five == 5
             v == (Squarings(u, five, m) + z11(m)) % m
             w == (Squarings(1, 255, m) - 21) % m
             t == pow2(255) - 21
  <2>1. f \in Int /\ five \in Nat /\ Same(z11(m), f, m) /\ z11(m) \in Int /\ t \in Int
    BY <1>1, ChainStart
  <2>2. FeInvert(m) = v
    BY DEF FeInvert, u
  <2> HIDE DEF f, five
  <2>3. Same(v, e * pow2(five) + f, m) /\ v \in 0 .. m - 1
    <3> HIDE DEF v
    <3> QED
      BY <1>2, <1>3, <2>1, ShiftAdd DEF v
  <2>4. e * pow2(five) + f = t
    BY <1>2 DEF f, five
  <2>5. Same(w, t, m) /\ w \in 0 .. m - 1
    <3> DEFINE n == 255
               d == 21
    <3>1. n \in Nat /\ d \in Int /\ pow2(n) \in Int
      BY <1>1
    <3> HIDE DEF n, d
    <3>2. Same((Squarings(1, n, m) - d) % m, pow2(n) - d, m) /\ (Squarings(1, n, m) - d) % m \in 0 .. m - 1
      BY <1>4, <3>1
    <3> QED
      BY <3>2 DEF n, d
  <2> HIDE DEF v, w, t
  <2>6. v = w
    BY <1>5, <2>1, <2>3, <2>4, <2>5
  <2> QED
    BY <2>2, <2>6 DEF w
<1>7. fePow22523(m) = (Squarings(1, 252, m) - 3) % m
  <2> DEFINE f == 1
             two == 2
             v == (Squarings(u, two, m) + f) % m
             w == (Squarings(1, 252, m) - 3) % m
             t == pow2(252) - 3
  <2>1. f \in Int /\ two \in Nat /\ m \in Int /\ t \in Int
    BY <1>1
  <2>2. fePow22523(m) = v
    BY DEF fePow22523, u
  <2> HIDE DEF f, two
  <2>3. Same(f, f, m)
    BY <2>1, SameReflexive
  <2>4. Same(v, e * pow2(two) + f, m) /\ v \in 0 .. m - 1
    <3> HIDE DEF v
    <3> QED
      BY <1>2, <1>3, <2>1, <2>3, ShiftAdd DEF v
  <2>5. e * pow2(two) + f = t
    BY <1>2 DEF f, two
  <2>6. Same(w, t, m) /\ w \in 0 .. m - 1
    <3> DEFINE n == 252
               d == 3
    <3>1. n \in Nat /\ d \in Int /\ pow2(n) \in Int
      BY <1>1
    <3> HIDE DEF n, d
    <3>2. Same((Squarings(1, n, m) - d) % m, pow2(n) - d, m) /\ (Squarings(1, n, m) - d) % m \in 0 .. m - 1
      BY <1>4, <3>1
    <3> QED
      BY <3>2 DEF n, d
  <2> HIDE DEF v, w, t
  <2>7. v = w
    BY <1>5, <2>1, <2>4, <2>5, <2>6
  <2> QED
    BY <2>2, <2>7 DEF w
<1> QED
  BY <1>6, <1>7

(* FeInvert raises to 2^255 - 21 and fePow22523 to 2^252 - 3, as exponents
   modulo any number.                                                      *)
THEOREM ChainsAreExact ==
  ASSUME FieldShape
  PROVE  Spec => []ChainsExact
<1>1. ChainsExact
  <2>1. \A m \in ChainModuli : m \in Nat \ {0}
    BY DEF FieldShape
  <2> QED
    BY <2>1, ChainEnds DEF ChainsExact
<1> QED
  BY <1>1, PTL

-----------------------------------------------------------------------------
(* Bounds of the limbs.                                                    *)

Within(a, b) == -b <= a /\ a <= b

(* The half of a limb's range, and that of the narrow limbs. *)
HalfRange(i) == pow2(Width(i) - 1)
Least == pow2(Wide - 2)

(* The limb that a carry from limb i goes to, and the one it comes from. *)
Succ(i) == IF i = Limbs - 1 THEN 0 ELSE i + 1
Pred(i) == IF i = 0 THEN Limbs - 1 ELSE i - 1

(* Halves of ranges. *)
LEMMA HalfFacts ==
  ASSUME FieldShape, NEW i \in Nat
  PROVE  /\ HalfRange(i) \in Nat \ {0} /\ Least \in Nat \ {0}
         /\ pow2(Width(i)) = 2 * HalfRange(i)
         /\ HalfRange(i) = IF i % 2 = 0 THEN 2 * Least ELSE Least
<1>1. Width(i) - 1 \in Nat /\ (Width(i) - 1) + 1 = Width(i) /\ Wide - 2 \in Nat /\ (Wide - 2) + 1 = Wide - 1
      /\ Width(i) \in Int
  BY WidthFacts DEF FieldShape
<1>2. pow2(Width(i) - 1) \in Nat \ {0} /\ pow2((Width(i) - 1) + 1) = 2 * pow2(Width(i) - 1)
  BY <1>1, Pow2Facts
<1>3. pow2(Wide - 2) \in Nat \ {0} /\ pow2((Wide - 2) + 1) = 2 * pow2(Wide - 2)
  BY <1>1, Pow2Facts
<1>4. Width(i) - 1 = IF i % 2 = 0 THEN Wide - 1 ELSE Wide - 2
  BY DEF Width, FieldShape
<1> QED
  BY <1>1, <1>2, <1>3, <1>4 DEF HalfRange, Least

(* What a rounded carry leaves, and how large it is. *)
LEMMA CarryBound ==
  ASSUME NEW a \in Int, NEW P \in Nat \ {0}, NEW X \in Nat, NEW H \in Nat \ {0}, NEW F \in Nat \ {0},
         H <= P, X <= 2 * (H * (F - 1)), Within(a, P + X)
  PROVE  LET c == (a + P) \div (2 * P)
         IN  c \in Int /\ Within(a - c * (2 * P), P) /\ Within(c, F)
<1> DEFINE c == (a + P) \div (2 * P)
<1>1. c \in Int /\ c * (2 * P) <= a + P /\ a + P < c * (2 * P) + 2 * P
  <2> DEFINE e == a + P
             b == 2 * P
  <2>1. e \in Int /\ b \in Nat \ {0}
    OBVIOUS
  <2> HIDE DEF e, b
  <2>2. e = b * (e \div b) + (e % b) /\ e % b \in 0 .. b - 1 /\ e \div b \in Int
    BY <2>1
  <2>3. b * (e \div b) = (e \div b) * b
    BY <2>1, <2>2
  <2>4. e \div b \in Int /\ (e \div b) * b <= e /\ e < (e \div b) * b + b
    BY <2>1, <2>2, <2>3
  <2> QED
    BY <2>4 DEF e, b
<1> HIDE DEF c
<1>2. c * (2 * P) = 2 * (c * P)
  BY <1>1
<1>3. H * (F - 1) <= P * (F - 1)
  <2>1. F - 1 \in Nat
    OBVIOUS
  <2>2. \A u, v, w \in Nat : u <= v => u * w <= v * w
    OBVIOUS
  <2> QED
    BY <2>1, <2>2
<1>4. Within(a - c * (2 * P), P)
  BY <1>1, <1>2 DEF Within
<1>5. c <= F
  <2> SUFFICES ASSUME c >= F + 1 PROVE FALSE
    BY <1>1
  <2>1. \A u, v, w \in Int : u >= v /\ w >= 0 => u * w >= v * w
    OBVIOUS
  <2>2. c * P >= (F + 1) * P
    BY <1>1, <2>1
  <2>3. (F + 1) * P = P * (F - 1) + 2 * P
    OBVIOUS
  <2> QED
    BY <1>1, <1>2, <1>3, <2>2, <2>3 DEF Within
<1>6. -F <= c
  <2> SUFFICES ASSUME c <= -F - 1 PROVE FALSE
    BY <1>1
  <2>1. \A u, v, w \in Int : u <= v /\ w >= 0 => u * w <= v * w
    OBVIOUS
  <2>2. c * P <= (-F - 1) * P
    BY <1>1, <2>1
  <2>3. (-F - 1) * P = -(P * (F - 1)) - 2 * P
    OBVIOUS
  <2> QED
    BY <1>1, <1>2, <1>3, <2>2, <2>3 DEF Within
<1> QED
  BY <1>1, <1>4, <1>5, <1>6 DEF Within, c

(* A carry changes two limbs. *)
LEMMA CarryEffect ==
  ASSUME FieldShape, NEW h \in Elements, NEW i \in Limb
  PROVE  LET c == (h[i] + HalfRange(i)) \div (2 * HalfRange(i))
         IN  /\ c \in Int /\ Succ(i) \in Limb /\ Succ(i) # i /\ Pred(Succ(i)) = i
             /\ carry(h, i)[i] = h[i] - c * (2 * HalfRange(i))
             /\ carry(h, i)[Succ(i)] = h[Succ(i)] + (IF i = Limbs - 1 THEN 19 * c ELSE c)
             /\ \A j \in Limb : j # i /\ j # Succ(i) => carry(h, i)[j] = h[j] /\ Pred(j) # i
<1> DEFINE c == (h[i] + HalfRange(i)) \div (2 * HalfRange(i))
           g == [h EXCEPT ![i] = h[i] - c * (2 * HalfRange(i))]
<1>1. HalfRange(i) \in Nat \ {0} /\ pow2(Width(i)) = 2 * HalfRange(i) /\ h[i] \in Int
  BY LimbFinite, HalfFacts DEF Elements
<1>2. c \in Int
  BY <1>1
<1>3. shiftR(h[i] + pow2(Width(i) - 1), Width(i)) = c
  BY <1>1 DEF shiftR, HalfRange
<1> HIDE DEF c
<1>4. carry(h, i) = IF i = Limbs - 1 THEN [g EXCEPT ![0] = g[0] + 19 * c] ELSE [g EXCEPT ![i + 1] = g[i + 1] + c]
  BY <1>1, <1>3 DEF carry
<1>5. Succ(i) \in Limb /\ Succ(i) # i /\ Pred(Succ(i)) = i
      /\ \A j \in Limb : j # Succ(i) => Pred(j) # i
  BY DEF Succ, Pred, Limb, FieldShape
<1>6. carry(h, i) = [g EXCEPT ![Succ(i)] = g[Succ(i)] + (IF i = Limbs - 1 THEN 19 * c ELSE c)]
  BY <1>4 DEF Succ
<1> QED
  BY <1>2, <1>5, <1>6 DEF Elements, c

(* Limb i is among the first k carries; a carry of it followed one of the limb
   before, so that only second carries of that one can reach it later.     *)
Carried(i, k) == \E j \in 1 .. k : CarryOrder[j] = i
Settled(i, k) == \E j \in 1 .. k : CarryOrder[j] = i /\ Carried(Pred(i), j - 1)

(* The second carries: none in the two chains, none from the last limb. *)
LEMMA SecondCarries ==
  ASSUME FieldShape, NEW k \in 1 .. Limbs + 2, Carried(CarryOrder[k], k - 1)
  PROVE  k > Limbs - 2 /\ CarryOrder[k] # Limbs - 1
<1> DEFINE m == Limbs \div 2 - 1
<1>1. Limbs \in Nat /\ m \in Nat /\ 2 * m = Limbs - 2
  BY DEF FieldShape
<1>2. PICK j \in 1 .. k - 1 : CarryOrder[j] = CarryOrder[k]
  BY DEF Carried
<1>3. \A n \in 1 .. Limbs - 2 : CarryOrder[n] = IF n % 2 = 1 THEN n \div 2 ELSE m + n \div 2 - 1
  BY CarryOrderFacts
<1>4. CarryOrder[Limbs - 1] = m /\ CarryOrder[Limbs] = 2 * m /\ CarryOrder[Limbs + 1] = 2 * m + 1
      /\ CarryOrder[Limbs + 2] = 0
  <2>1. CarryOrder[Limbs - 1] = m /\ CarryOrder[Limbs] = Limbs - 2 /\ CarryOrder[Limbs + 1] = Limbs - 1
        /\ CarryOrder[Limbs + 2] = 0
    BY CarryOrderFacts
  <2>2. 2 * m = Limbs - 2 /\ 2 * m + 1 = Limbs - 1
    BY <1>1
  <2> HIDE DEF m
  <2> QED
    BY <2>1, <2>2
<1> HIDE DEF m
<1>5. ASSUME NEW n \in 1 .. Limbs - 2
      PROVE  /\ n % 2 = 1 => CarryOrder[n] < m /\ n = 2 * CarryOrder[n] + 1
             /\ n % 2 # 1 => m <= CarryOrder[n] /\ CarryOrder[n] < 2 * m /\ n = 2 * (CarryOrder[n] - m) + 2
             /\ CarryOrder[n] \in Int
  BY <1>1, <1>3, <1>5
<1>6. k > Limbs - 2
  <2> SUFFICES ASSUME k <= Limbs - 2 PROVE FALSE
    BY <1>1
  <2>1. k \in 1 .. Limbs - 2 /\ j \in 1 .. Limbs - 2 /\ j < k
    BY <1>1, <1>2
  <2> QED
    BY <1>1, <1>2, <1>5, <2>1
<1>7. ASSUME NEW n \in 1 .. Limbs + 2, n # Limbs + 1
      PROVE  CarryOrder[n] < 2 * m + 1
  <2>1. CASE n \in 1 .. Limbs - 2
    BY <1>1, <1>5, <2>1
  <2>2. CASE n \in {Limbs - 1, Limbs, Limbs + 2}
    BY <1>1, <1>4, <2>2
  <2> QED
    BY <1>1, <1>7, <2>1, <2>2
<1>8. k # Limbs + 1
  <2> SUFFICES ASSUME k = Limbs + 1 PROVE FALSE
    OBVIOUS
  <2>1. j \in 1 .. Limbs + 2 /\ j # Limbs + 1
    BY <1>1, <1>2
  <2>2. CarryOrder[j] < 2 * m + 1 /\ CarryOrder[j] = 2 * m + 1
    BY <1>2, <1>4, <1>7, <2>1
  <2> QED
    BY <1>1, <2>2
<1>9. CarryOrder[k] < 2 * m + 1
  BY <1>7, <1>8
<1> QED
  BY <1>1, <1>6, <1>9

(* In the end every limb has been carried after the one before. *)
LEMMA AllSettled ==
  ASSUME FieldShape, NEW i \in Limb
  PROVE  Settled(i, Limbs + 2)
<1> DEFINE m == Limbs \div 2 - 1
<1>1. Limbs \in Nat /\ m \in Nat /\ 2 * m = Limbs - 2 /\ i \in Nat /\ i <= 2 * m + 1
  BY DEF FieldShape, Limb
<1>2. \A n \in 1 .. Limbs - 2 : CarryOrder[n] = IF n % 2 = 1 THEN n \div 2 ELSE m + n \div 2 - 1
  BY CarryOrderFacts
<1>3. CarryOrder[Limbs - 1] = m /\ CarryOrder[Limbs] = 2 * m /\ CarryOrder[Limbs + 1] = 2 * m + 1
      /\ CarryOrder[Limbs + 2] = 0
  <2>1. CarryOrder[Limbs - 1] = m /\ CarryOrder[Limbs] = Limbs - 2 /\ CarryOrder[Limbs + 1] = Limbs - 1
        /\ CarryOrder[Limbs + 2] = 0
    BY CarryOrderFacts
  <2>2. 2 * m = Limbs - 2 /\ 2 * m + 1 = Limbs - 1
    BY <1>1
  <2> HIDE DEF m
  <2> QED
    BY <2>1, <2>2
<1> HIDE DEF m
<1>4. ASSUME NEW n \in 0 .. m - 1
      PROVE  /\ 2 * n + 1 \in 1 .. Limbs - 2 /\ CarryOrder[2 * n + 1] = n
             /\ 2 * n + 2 \in 1 .. Limbs - 2 /\ CarryOrder[2 * n + 2] = m + n
  <2>1. 2 * n + 1 \in 1 .. Limbs - 2 /\ (2 * n + 1) % 2 = 1 /\ (2 * n + 1) \div 2 = n
    BY <1>1, <1>4
  <2>2. 2 * n + 2 \in 1 .. Limbs - 2 /\ (2 * n + 2) % 2 # 1 /\ (2 * n + 2) \div 2 = n + 1
    BY <1>1, <1>4
  <2>3. m + (n + 1) - 1 = m + n
    BY <1>1
  <2> QED
    BY <1>2, <2>1, <2>2, <2>3
<1>5. ASSUME NEW j \in 1 .. Limbs + 2, NEW n \in 1 .. j - 1, CarryOrder[j] = i, CarryOrder[n] = Pred(i)
      PROVE  Settled(i, Limbs + 2)
  BY <1>5 DEF Settled, Carried
<1>6. CASE i = 0
  <2>1. Limbs + 2 \in 1 .. Limbs + 2 /\ Limbs + 1 \in 1 .. (Limbs + 2) - 1 /\ Pred(i) = 2 * m + 1
    BY <1>1, <1>6 DEF Pred
  <2> QED
    BY <1>3, <1>5, <1>6, <2>1
<1>7. CASE i # 0 /\ i < m
  <2>1. i \in 0 .. m - 1 /\ i - 1 \in 0 .. m - 1 /\ Pred(i) = i - 1
    BY <1>1, <1>7 DEF Pred
  <2>2. CarryOrder[2 * i + 1] = i /\ CarryOrder[2 * (i - 1) + 1] = i - 1
    BY <1>4, <2>1
  <2>3. 2 * i + 1 \in 1 .. Limbs + 2 /\ 2 * (i - 1) + 1 \in 1 .. (2 * i + 1) - 1
    BY <1>1, <2>1
  <2> QED
    BY <1>5, <2>1, <2>2, <2>3
<1>8. CASE i # 0 /\ i = m
  <2>1. i - 1 \in 0 .. m - 1 /\ Pred(i) = i - 1
    BY <1>1, <1>8 DEF Pred
  <2>2. CarryOrder[2 * (i - 1) + 1] = i - 1
    BY <1>4, <2>1
  <2>3. Limbs - 1 \in 1 .. Limbs + 2 /\ 2 * (i - 1) + 1 \in 1 .. (Limbs - 1) - 1
    BY <1>1, <1>8
  <2> QED
    BY <1>3, <1>5, <1>8, <2>1, <2>2, <2>3
<1>9. CASE i > m /\ i < 2 * m
  <2>1. i - m \in 0 .. m - 1 /\ i - m - 1 \in 0 .. m - 1 /\ Pred(i) = i - 1
        /\ m + (i - m) = i /\ m + (i - m - 1) = i - 1
    BY <1>1, <1>9 DEF Pred
  <2>2. CarryOrder[2 * (i - m) + 2] = i /\ CarryOrder[2 * (i - m - 1) + 2] = i - 1
    BY <1>4, <2>1
  <2>3. 2 * (i - m) + 2 \in 1 .. Limbs + 2 /\ 2 * (i - m - 1) + 2 \in 1 .. (2 * (i - m) + 2) - 1
    BY <1>1, <2>1
  <2> QED
    BY <1>5, <2>1, <2>2, <2>3
<1>10. CASE i # 0 /\ i = 2 * m
  <2>1. m - 1 \in 0 .. m - 1 /\ Pred(i) = i - 1 /\ m + (m - 1) = i - 1
    BY <1>1, <1>10 DEF Pred
  <2>2. CarryOrder[2 * (m - 1) + 2] = i - 1
    BY <1>4, <2>1
  <2>3. Limbs \in 1 .. Limbs + 2 /\ 2 * (m - 1) + 2 \in 1 .. Limbs - 1
    BY <1>1, <1>10
  <2> QED
    BY <1>3, <1>5, <1>10, <2>1, <2>2, <2>3
<1>11. CASE i = 2 * m + 1
  <2>1. Pred(i) = 2 * m /\ Limbs + 1 \in 1 .. Limbs + 2 /\ Limbs \in 1 .. (Limbs + 1) - 1
    BY <1>1, <1>11 DEF Pred
  <2> QED
    BY <1>3, <1>5, <1>11, <2>1
<1> QED
  BY <1>1, <1>6, <1>7, <1>8, <1>9, <1>10, <1>11

(* After k carries limb i, if it has been carried, is small but for what it
   received since: one first carry of the limb before, times 19 at the end,
   unless that came earlier, and the second carries, which are small.      *)
Extra(k) == IF k <= Limbs - 2 THEN 0 ELSE k - (Limbs - 2)
Reach(i, k, B, D, F) ==
  (IF Carried(i, k) THEN HalfRange(i) ELSE B)
    + (IF Carried(Pred(i), k) /\ ~Settled(i, k) THEN 19 * D ELSE 0) + Extra(k) * F

(* How a carry changes what is known of the limbs. *)
LEMMA ReachStep ==
  ASSUME FieldShape, NEW h \in Elements, NEW B \in Nat, NEW D \in Nat \ {0}, NEW F \in Nat \ {0},
         19 * D + 4 * F <= 2 * (Least * (F - 1)),
         B + (19 * D + 4 * F) <= 2 * (Least * (D - 1)),
         NEW k \in 0 .. Limbs + 1,
         \A i \in Limb : Within(h[i], Reach(i, k, B, D, F))
  PROVE  \A i \in Limb : Within(carry(h, CarryOrder[k + 1])[i], Reach(i, k + 1, B, D, F))
<1> DEFINE o == CarryOrder[k + 1]
           c == (h[o] + HalfRange(o)) \div (2 * HalfRange(o))
           g == carry(h, o)
           X == 19 * D + 4 * F
           E == Extra(k) * F
           G == Extra(k + 1) * F
<1>1. k \in Nat /\ Limbs \in Nat /\ k + 1 \in 1 .. Limbs + 2 /\ (k + 1) - 1 = k
      /\ o \in Limb /\ o \in Nat
  <2>1. k \in Nat /\ Limbs \in Nat /\ k + 1 \in 1 .. Limbs + 2 /\ (k + 1) - 1 = k
    BY DEF FieldShape
  <2> QED
    BY <2>1, CarryOrderFacts, LimbFinite
<1>2. E \in Nat /\ G \in Nat /\ E <= 4 * F /\ E <= G /\ (k + 1 > Limbs - 2 => G = E + F)
  <2>1. Extra(k) \in 0 .. 4 /\ Extra(k + 1) \in 0 .. 4 /\ Extra(k) <= Extra(k + 1)
        /\ (k + 1 > Limbs - 2 => Extra(k + 1) = Extra(k) + 1)
    BY <1>1 DEF Extra, FieldShape
  <2> DEFINE a == Extra(k)
             b == Extra(k + 1)
  <2> HIDE DEF a, b
  <2>2. a \in Nat /\ b \in Nat /\ a <= 4 /\ a <= b
    BY <2>1 DEF a, b
  <2>3. a * F \in Nat /\ b * F \in Nat /\ a * F <= 4 * F /\ a * F <= b * F /\ (a + 1) * F = a * F + F
    BY <2>2
  <2> QED
    BY <2>1, <2>3 DEF a, b
<1>3. /\ c \in Int /\ Succ(o) \in Limb /\ Succ(o) # o /\ Pred(Succ(o)) = o
      /\ g[o] = h[o] - c * (2 * HalfRange(o))
      /\ g[Succ(o)] = h[Succ(o)] + (IF o = Limbs - 1 THEN 19 * c ELSE c)
      /\ \A j \in Limb : j # o /\ j # Succ(o) => g[j] = h[j] /\ Pred(j) # o
  BY <1>1, CarryEffect
<1>4. \A i \in Limb : HalfRange(i) \in Nat \ {0} /\ Least \in Nat \ {0} /\ Least <= HalfRange(i) /\ h[i] \in Int
  BY LimbFinite, HalfFacts DEF Elements
<1>5. X \in Nat /\ X <= 2 * (Least * (F - 1)) /\ B + X <= 2 * (Least * (D - 1)) /\ B + X \in Nat
  OBVIOUS
<1>6. /\ Within(g[o], HalfRange(o))
      /\ Carried(o, k) => Within(c, F)
      /\ ~Carried(o, k) => Within(c, D)
  <2>1. Within(h[o], Reach(o, k, B, D, F))
    BY <1>1
  <2>2. Reach(o, k, B, D, F) <= (IF Carried(o, k) THEN HalfRange(o) ELSE B) + 19 * D + E
    BY <1>1, <1>2, <1>4 DEF Reach
  <2>3. Reach(o, k, B, D, F) \in Int
    BY <1>1, <1>2, <1>4 DEF Reach
  <2>4. CASE Carried(o, k)
    <3>1. Within(h[o], HalfRange(o) + X)
      BY <1>1, <1>2, <1>4, <2>1, <2>2, <2>3, <2>4 DEF Within
    <3> HIDE DEF X
    <3>2. Within(h[o] - c * (2 * HalfRange(o)), HalfRange(o)) /\ Within(c, F)
      <4> HIDE DEF o
      <4> QED
        BY <1>1, <1>4, <1>5, <3>1, CarryBound
    <3> QED
      BY <1>3, <2>4, <3>2
  <2>5. CASE ~Carried(o, k)
    <3>1. Within(h[o], HalfRange(o) + (B + X))
      BY <1>1, <1>2, <1>4, <2>1, <2>2, <2>3, <2>5 DEF Within
    <3> DEFINE Y == B + X
    <3>2. Y \in Nat /\ Y <= 2 * (Least * (D - 1)) /\ Within(h[o], HalfRange(o) + Y)
      BY <1>5, <3>1
    <3> HIDE DEF X, Y
    <3>3. Within(h[o] - c * (2 * HalfRange(o)), HalfRange(o)) /\ Within(c, D)
      <4> HIDE DEF o
      <4> QED
        BY <1>1, <1>4, <3>2, CarryBound
    <3> QED
      BY <1>3, <2>5, <3>3
  <2> QED
    BY <2>4, <2>5
<1>7. \A i : Carried(i, k + 1) <=> Carried(i, k) \/ i = o
  <2>1. 1 .. k + 1 = (1 .. k) \cup {k + 1}
    BY <1>1
  <2> QED
    BY <2>1 DEF Carried
<1>8. \A i : i # o => (Settled(i, k + 1) <=> Settled(i, k))
  <2>1. 1 .. k + 1 = (1 .. k) \cup {k + 1}
    BY <1>1
  <2> QED
    BY <2>1 DEF Settled
<1>9. Settled(Succ(o), k) => Carried(o, k)
  <2> SUFFICES ASSUME Settled(Succ(o), k) PROVE Carried(o, k)
    OBVIOUS
  <2>1. PICK j \in 1 .. k : Carried(Pred(Succ(o)), j - 1)
    BY DEF Settled
  <2>2. PICK n \in 1 .. j - 1 : CarryOrder[n] = o
    BY <1>3, <2>1 DEF Carried
  <2>3. n \in 1 .. k
    BY <1>1, <2>1, <2>2
  <2> QED
    BY <2>2, <2>3 DEF Carried
<1>10. Carried(o, k) => k + 1 > Limbs - 2 /\ o # Limbs - 1
  BY <1>1, SecondCarries
<1> HIDE DEF c, g, o, E, G
<1>11. \A i \in Limb : /\ Reach(i, k, B, D, F) = (IF Carried(i, k) THEN HalfRange(i) ELSE B)
                            + (IF Carried(Pred(i), k) /\ ~Settled(i, k) THEN 19 * D ELSE 0) + E
                       /\ Reach(i, k + 1, B, D, F) = (IF Carried(i, k + 1) THEN HalfRange(i) ELSE B)
                            + (IF Carried(Pred(i), k + 1) /\ ~Settled(i, k + 1) THEN 19 * D ELSE 0) + G
  BY DEF Reach, E, G
<1>12. Within(g[o], Reach(o, k + 1, B, D, F))
  <2>1. Reach(o, k + 1, B, D, F) \in Int /\ HalfRange(o) <= Reach(o, k + 1, B, D, F)
    BY <1>1, <1>2, <1>4, <1>7, <1>11
  <2>2. g[o] \in Int
    BY <1>1, <1>3, <1>4
  <2> QED
    BY <1>1, <1>4, <1>6, <2>1, <2>2 DEF Within
<1>13. Within(g[Succ(o)], Reach(Succ(o), k + 1, B, D, F))
  <2> DEFINE succ == Succ(o)
  <2>1. succ \in Limb /\ h[succ] \in Int /\ HalfRange(succ) \in Nat /\ Within(h[succ], Reach(succ, k, B, D, F))
    BY <1>3, <1>4
  <2>2. Carried(succ, k + 1) = Carried(succ, k) /\ (Settled(succ, k + 1) <=> Settled(succ, k)) /\ Carried(o, k + 1)
    BY <1>3, <1>7, <1>8 DEF Carried
  <2> HIDE DEF succ
  <2>3. CASE Carried(o, k)
    <3>1. Reach(succ, k + 1, B, D, F) = Reach(succ, k, B, D, F) + F /\ Reach(succ, k, B, D, F) \in Int
      BY <1>2, <1>3, <1>10, <1>11, <2>1, <2>2, <2>3 DEF succ
    <3>2. g[succ] = h[succ] + c /\ Within(c, F)
      BY <1>3, <1>6, <1>10, <2>3 DEF succ
    <3> QED
      BY <1>3, <2>1, <3>1, <3>2 DEF Within, succ
  <2>4. CASE ~Carried(o, k)
    <3>1. Reach(succ, k, B, D, F) + 19 * D <= Reach(succ, k + 1, B, D, F)
          /\ Reach(succ, k, B, D, F) \in Int /\ Reach(succ, k + 1, B, D, F) \in Int
      BY <1>2, <1>3, <1>9, <1>11, <2>1, <2>2, <2>4 DEF succ
    <3>2. g[succ] = h[succ] + (IF o = Limbs - 1 THEN 19 * c ELSE c) /\ Within(c, D)
      BY <1>3, <1>6, <2>4 DEF succ
    <3> QED
      BY <1>3, <2>1, <3>1, <3>2 DEF Within, succ
  <2> QED
    BY <2>3, <2>4 DEF succ
<1>14. ASSUME NEW i \in Limb, i # o, i # Succ(o)
       PROVE  Within(g[i], Reach(i, k + 1, B, D, F))
  <2>1. g[i] = h[i] /\ Pred(i) # o
    BY <1>3, <1>14
  <2>2. Carried(i, k + 1) = Carried(i, k) /\ (Settled(i, k + 1) <=> Settled(i, k))
        /\ Carried(Pred(i), k + 1) = Carried(Pred(i), k)
    BY <1>7, <1>8, <1>14, <2>1 DEF Carried
  <2>3. Reach(i, k, B, D, F) <= Reach(i, k + 1, B, D, F)
        /\ Reach(i, k, B, D, F) \in Int /\ Reach(i, k + 1, B, D, F) \in Int
    BY <1>2, <1>4, <1>11, <2>2
  <2> QED
    BY <1>4, <2>1, <2>3 DEF Within
<1> QED
  BY <1>12, <1>13, <1>14 DEF o, g

(* FeCombine leaves small limbs. *)
LEMMA CombineWithin ==
  ASSUME FieldShape, NEW h \in Elements, NEW B \in Nat, NEW D \in Nat \ {0}, NEW F \in Nat \ {0},
         19 * D + 4 * F <= 2 * (Least * (F - 1)),
         B + (19 * D + 4 * F) <= 2 * (Least * (D - 1)),
         \A i \in Limb : Within(h[i], B)
  PROVE  \A i \in Limb : Within(FeCombine(h)[i], HalfRange(i) + 4 * F)
<1> DEFINE n == Limbs + 2
<1>1. PICK d \in [0 .. n -> Elements] :
        /\ d[0] = h /\ d[n] = FeCombine(h)
        /\ \A k \in 1 .. n : d[k] = carry(d[k - 1], CarryOrder[k])
  BY CombineSteps
<1>2. n \in Nat /\ Limbs >= 2 /\ Limbs \in Nat
  BY DEF FieldShape
<1> DEFINE T == {k \in Nat : k <= n => \A i \in Limb : Within(d[k][i], Reach(i, k, B, D, F))}
<1>3. 0 \in T
  <2>1. ASSUME NEW i \in Limb PROVE Reach(i, 0, B, D, F) = B
    <3>1. ~Carried(i, 0) /\ ~Carried(Pred(i), 0)
      BY DEF Carried
    <3>2. Extra(0) = 0
      BY <1>2 DEF Extra
    <3> QED
      BY <3>1, <3>2 DEF Reach
  <2> QED
    BY <1>1, <2>1
<1>4. ASSUME NEW k \in Nat, k \in T
      PROVE  k + 1 \in T
  <2> SUFFICES ASSUME k + 1 <= n PROVE \A i \in Limb : Within(d[k + 1][i], Reach(i, k + 1, B, D, F))
    OBVIOUS
  <2>1. k \in 0 .. n /\ k \in 0 .. Limbs + 1 /\ k + 1 \in 1 .. n /\ (k + 1) - 1 = k
    BY <1>2
  <2>2. d[k] \in Elements /\ d[k + 1] = carry(d[k], CarryOrder[k + 1])
    BY <1>1, <2>1
  <2>3. \A i \in Limb : Within(d[k][i], Reach(i, k, B, D, F))
    BY <1>4, <2>1
  <2> QED
    BY <2>1, <2>2, <2>3, ReachStep
<1>5. n \in T
  <2> HIDE DEF T
  <2> QED
    BY <1>2, <1>3, <1>4, NatSetInduction
<1>6. ASSUME NEW i \in Limb PROVE Reach(i, n, B, D, F) = HalfRange(i) + 4 * F
  <2>1. Settled(i, n)
    BY AllSettled
  <2>2. Carried(i, n)
    BY <2>1 DEF Settled, Carried
  <2>3. Extra(n) = 4
    BY <1>2 DEF Extra
  <2>4. i \in Nat
    BY LimbFinite
  <2>5. HalfRange(i) \in Nat
    BY <2>4, HalfFacts
  <2> QED
    BY <2>1, <2>2, <2>3, <2>5 DEF Reach
<1> QED
  BY <1>1, <1>2, <1>5, <1>6

(* Sums of small numbers are small. *)
LEMMA SumWithin ==
  ASSUME NEW S, IsFiniteSet(S), NEW w, NEW v,
         \A u \in S : w[u] \in Int /\ v[u] \in Int /\ Within(w[u], v[u])
  PROVE  Within(Sum(w, S), Sum(v, S)) /\ Sum(w, S) \in Int /\ Sum(v, S) \in Int
<1> DEFINE more == [u \in S |-> v[u] + w[u]]
           n == [u \in S |-> (-1) * w[u]]
           z == [u \in S |-> v[u] + n[u]]
           minus == -1
<1>1. \A u \in S : w[u] \in Int /\ v[u] \in Int /\ more[u] = v[u] + w[u] /\ n[u] = minus * w[u] /\ n[u] \in Int
                   /\ z[u] = v[u] + n[u] /\ minus \in Int
  OBVIOUS
<1>2. \A u \in S : more[u] \in Nat /\ z[u] \in Nat
  BY DEF Within
<1>3. minus \in Int
  OBVIOUS
<1> HIDE DEF more, n, z, minus
<1>4. Sum(more, S) \in Nat /\ Sum(z, S) \in Nat /\ Sum(w, S) \in Int /\ Sum(v, S) \in Int
  <2>1. Sum(more, S) \in Nat
    BY <1>2, SumNat
  <2>2. Sum(z, S) \in Nat
    BY <1>2, SumNat
  <2>3. Sum(w, S) \in Int
    BY <1>1, SumInt
  <2>4. Sum(v, S) \in Int
    BY <1>1, SumInt
  <2> QED
    BY <2>1, <2>2, <2>3, <2>4
<1>5. Sum(more, S) = Sum(v, S) + Sum(w, S)
  BY <1>1, SumPlus
<1>6. Sum(n, S) = minus * Sum(w, S)
  BY <1>1, <1>3, SumTimes
<1>7. Sum(z, S) = Sum(v, S) + Sum(n, S)
  BY <1>1, SumPlus
<1>8. minus * Sum(w, S) = -Sum(w, S)
  BY <1>4 DEF minus
<1> QED
  BY <1>4, <1>5, <1>6, <1>7, <1>8 DEF Within

(* The sum of as many equal numbers as there are limbs. *)
LEMMA SumConstant ==
  ASSUME FieldShape, NEW M \in Int
  PROVE  Sum([i \in Limb |-> M], Limb) = Limbs * M
<1> DEFINE a == [i \in 0 .. Limbs |-> i * M]
           w == [i \in Limb |-> M]
<1>1. Limbs \in Nat
  BY DEF FieldShape
<1>2. \A i \in 0 .. Limbs : a[i] \in Int /\ a[i] = i * M
  BY <1>1
<1>3. ASSUME NEW i \in 0 .. Limbs - 1 PROVE w[i] = a[i + 1] - a[i]
  <2>1. i \in Int /\ i \in 0 .. Limbs /\ i + 1 \in 0 .. Limbs /\ w[i] = M
    BY <1>1 DEF Limb
  <2>2. (i + 1) * M - i * M = M
    BY <2>1
  <2> QED
    BY <1>2, <2>1, <2>2
<1>4. a[Limbs] = Limbs * M /\ a[0] = 0
  BY <1>1, <1>2
<1> HIDE DEF a, w
<1>5. Sum(w, 0 .. Limbs - 1) = a[Limbs] - a[0]
  BY <1>1, <1>2, <1>3, SumTelescopes
<1>6. Limbs * M \in Int
  BY <1>1
<1> QED
  BY <1>4, <1>5, <1>6 DEF Limb, w

(* Limbs as small as a sum of w products leaves them. *)
Bounded(fe, w) == \A i \in Limb : Within(10 * fe[i], 11 * (w * HalfRange(i)))

(* What products of sums of products may reach, in squares of a half limb. *)
Bulk == 368 * Limbs * MaxWeight * MaxWeight

(* The room in numbers. *)
LEMMA RoomFacts ==
  ASSUME FieldShape, FieldRoom
  PROVE  Bulk \in Nat /\ Bulk >= 736 /\ 400 * Bulk <= Least /\ MaxWeight \in Nat \ {0} /\ MaxWeight >= 2
<1>1. MaxWeight >= 2 /\ Limbs \in Nat /\ Limbs >= 2 /\ MaxWeight \in Nat \ {0}
  BY DEF FieldShape, FieldRoom
<1>2. Limbs * MaxWeight \in Nat /\ Limbs * MaxWeight >= 2
  BY <1>1
<1>3. (Limbs * MaxWeight) * MaxWeight \in Nat /\ (Limbs * MaxWeight) * MaxWeight >= 2
  <2> DEFINE a == Limbs * MaxWeight
  <2> HIDE DEF a
  <2>1. a \in Nat /\ a >= 2
    BY <1>2 DEF a
  <2>2. a * MaxWeight \in Nat /\ a * MaxWeight >= a
    BY <1>1, <2>1
  <2> QED
    BY <2>1, <2>2 DEF a
<1> DEFINE b == (Limbs * MaxWeight) * MaxWeight
<1>4. Bulk = 368 * b /\ 147200 * Limbs * MaxWeight * MaxWeight = 147200 * b
  BY <1>1 DEF Bulk
<1> HIDE DEF b
<1>5. b \in Nat /\ b >= 2
  BY <1>3 DEF b
<1>6. Least \in Nat /\ 147200 * b <= Least
  <2>1. Least \in Nat \ {0}
    BY <1>1, HalfFacts
  <2> QED
    BY <1>4, <2>1 DEF FieldRoom, Least
<1> QED
  BY <1>1, <1>4, <1>5, <1>6

(* FeCombine brings what a product may reach into the bounds. *)
LEMMA CombineBounded ==
  ASSUME FieldShape, FieldRoom, NEW h \in Elements,
         \A i \in Limb : Within(h[i], Bulk * (Least * Least))
  PROVE  Bounded(FeCombine(h), 1)
<1> DEFINE Q == Bulk
           H == Least
           D == Q * H
           F == 10 * Q
           B == Q * (H * H)
<1>1. Q \in Nat /\ Q >= 736 /\ 400 * Q <= H /\ H \in Nat
  <2>1. 0 \in Nat
    OBVIOUS
  <2>2. Least \in Nat \ {0}
    BY <2>1, HalfFacts
  <2> QED
    BY <2>2, RoomFacts
<1>2. \A i \in Limb : Within(h[i], B)
  OBVIOUS
<1> HIDE DEF Q, H
<1>3. D \in Nat /\ D >= 736 * H
  BY <1>1
<1>4. B = H * D /\ B \in Nat
  BY <1>1
<1>5. H * (F - 1) = 10 * D - H
  BY <1>1
<1> HIDE DEF B
<1>6. B >= 294400 * D
  <2>1. \A u, v, w \in Nat : u >= v => u * w >= v * w
    OBVIOUS
  <2> HIDE DEF D
  <2>2. H >= 294400
    BY <1>1
  <2> QED
    BY <1>1, <1>3, <1>4, <2>1, <2>2
<1>7. H * (D - 1) = B - H
  <2> HIDE DEF D
  <2> QED
    BY <1>1, <1>3, <1>4
<1> HIDE DEF D
<1>8. F \in Nat \ {0} /\ D \in Nat \ {0}
  BY <1>1, <1>3
<1>9. 19 * D + 4 * F <= 2 * (H * (F - 1))
  BY <1>1, <1>3, <1>5
<1>10. B + (19 * D + 4 * F) <= 2 * (H * (D - 1))
  BY <1>1, <1>3, <1>4, <1>6, <1>7
<1>11. 40 * F <= H
  BY <1>1
<1> HIDE DEF F
<1>12. \A i \in Limb : Within(FeCombine(h)[i], HalfRange(i) + 4 * F)
  BY <1>2, <1>4, <1>8, <1>9, <1>10, CombineWithin DEF H
<1> QED
  <2> SUFFICES ASSUME NEW i \in Limb PROVE Within(10 * FeCombine(h)[i], 11 * (1 * HalfRange(i)))
    BY DEF Bounded
  <2>1. i \in Nat /\ FeCombine(h)[i] \in Int
    BY LimbFinite, CombineSame DEF Elements
  <2>2. HalfRange(i) \in Nat /\ H <= HalfRange(i)
    BY <2>1, HalfFacts DEF H
  <2>3. Within(FeCombine(h)[i], HalfRange(i) + 4 * F)
    BY <1>12
  <2> QED
    BY <1>1, <1>8, <1>11, <2>1, <2>2, <2>3 DEF Within

(* Products of small numbers are small. *)
LEMMA WithinTimes ==
  ASSUME NEW a \in Int, NEW b \in Int, NEW A \in Nat, Within(a, A), Within(b, A)
  PROVE  Within(a * b, A * A)
<1>1. \A u, v \in Int : u >= 0 /\ v >= 0 => u * v >= 0
  OBVIOUS
<1>2. (A - a) * (A + b) >= 0 /\ (A + a) * (A - b) >= 0 /\ (A - a) * (A - b) >= 0 /\ (A + a) * (A + b) >= 0
  BY <1>1 DEF Within
<1>3. /\ (A - a) * (A + b) + (A + a) * (A - b) = 2 * (A * A) - 2 * (a * b)
      /\ (A - a) * (A - b) + (A + a) * (A + b) = 2 * (A * A) + 2 * (a * b)
  OBVIOUS
<1> QED
  BY <1>2, <1>3 DEF Within

(* A limb in its bounds. *)
LEMMA BoundedLimb ==
  ASSUME FieldShape, FieldRoom, NEW f \in Elements, NEW u \in 1 .. MaxWeight, Bounded(f, u), NEW i \in Limb
  PROVE  /\ Within(10 * f[i], 22 * (MaxWeight * Least)) /\ f[i] \in Int /\ 22 * (MaxWeight * Least) \in Nat
         /\ i % 2 = 1 => Within(20 * f[i], 22 * (MaxWeight * Least))
<1>1. i \in Nat /\ f[i] \in Int
  BY LimbFinite DEF Elements
<1>2. HalfRange(i) \in Nat /\ HalfRange(i) <= 2 * Least /\ Least \in Nat /\ MaxWeight \in Nat
  BY <1>1, HalfFacts, RoomFacts
<1>3. \A a, b, c, d \in Nat : a <= b /\ c <= d => a * c <= b * d
  OBVIOUS
<1>4. u * HalfRange(i) <= MaxWeight * (2 * Least)
  BY <1>2, <1>3
<1>5. MaxWeight * (2 * Least) = 2 * (MaxWeight * Least) /\ MaxWeight * Least \in Nat /\ u * HalfRange(i) \in Nat
  BY <1>2
<1>6. Within(10 * f[i], 11 * (u * HalfRange(i)))
  BY DEF Bounded
<1>7. i % 2 = 1 => u * HalfRange(i) <= MaxWeight * Least
  <2>1. i % 2 = 1 => HalfRange(i) = Least
    BY <1>1, HalfFacts
  <2> QED
    BY <1>2, <1>3, <2>1
<1> QED
  BY <1>1, <1>4, <1>5, <1>6, <1>7 DEF Within

(* The limbs of a product before the carries. *)
LEMMA ProductsBounded ==
  ASSUME FieldShape, FieldRoom, NEW f \in Elements, NEW g \in Elements,
         NEW u \in 1 .. MaxWeight, NEW v \in 1 .. MaxWeight, Bounded(f, u), Bounded(g, v), NEW k \in Limb
  PROVE  /\ Within(4 * Products(f, g)[k], Bulk * (Least * Least)) /\ Products(f, g)[k] \in Int
         /\ Within(2 * Products(f, g)[k], Bulk * (Least * Least))
<1> DEFINE A == 22 * (MaxWeight * Least)
           M == 19 * (A * A)
           R == Row(f, g, k)
           hundred == 100
           z == [i \in Limb |-> hundred * R[i]]
           c == [i \in Limb |-> M]
<1>1. A \in Nat
  BY LimbFinite, BoundedLimb
<1>2. M \in Int
  BY <1>1
<1>3. ASSUME NEW i \in Limb
      PROVE  Within(100 * R[i], M) /\ R[i] \in Int
  <2> DEFINE a == 10 * f[i]
             b == 10 * g[Other(k, i)]
             F == Factor(i, Other(k, i))
  <2>1. Other(k, i) \in Limb
    BY OtherFacts
  <2>2. f[i] \in Int /\ g[Other(k, i)] \in Int /\ F \in {1, 2, 19, 38} /\ R[i] = (f[i] * g[Other(k, i)]) * F
        /\ R[i] \in Int
    BY RowInt
  <2>3. Within(a, A) /\ Within(b, A) /\ a \in Int /\ b \in Int
    BY <2>1, <2>2, BoundedLimb
  <2>4. Within(a * b, A * A)
    <3> HIDE DEF a, b, A
    <3> QED
      BY <1>1, <2>3, WithinTimes
  <2>5. a * b = 100 * (f[i] * g[Other(k, i)])
    BY <2>2
  <2> DEFINE e == f[i] * g[Other(k, i)]
  <2>6. e \in Int /\ A * A \in Nat
    BY <1>1, <2>2
  <2>7. 100 * R[i] = (100 * e) * F
    BY <2>2
  <2> HIDE DEF e, F, R
  <2>8. Within(100 * e, A * A)
    BY <2>4, <2>5 DEF e
  <2> DEFINE q == 100 * e
             t == A * A
  <2>9. q \in Int /\ t \in Nat /\ Within(q, t) /\ 100 * R[i] = q * F /\ M = 19 * t
    BY <2>6, <2>7, <2>8
  <2>10. F = 38 => Within(4 * q, t)
    <3> SUFFICES ASSUME F = 38 PROVE Within(4 * q, t)
      OBVIOUS
    <3>1. i % 2 = 1 /\ Other(k, i) % 2 = 1
      BY DEF F, Factor
    <3>2. Within(2 * a, A) /\ Within(2 * b, A)
      <4>1. 2 * a = 20 * f[i] /\ 2 * b = 20 * g[Other(k, i)]
        BY <2>2
      <4> QED
        BY <2>1, <3>1, <4>1, BoundedLimb
    <3>3. 2 * a \in Int /\ 2 * b \in Int /\ (2 * a) * (2 * b) = 4 * (a * b)
      BY <2>3
    <3>4. Within((2 * a) * (2 * b), A * A)
      <4> HIDE DEF a, b, A
      <4> QED
        BY <1>1, <3>2, <3>3, WithinTimes
    <3> QED
      BY <2>5, <3>3, <3>4 DEF e
  <2> HIDE DEF q, t, M
  <2>11. Within(q * F, 19 * t)
    BY <2>2, <2>9, <2>10 DEF Within
  <2> QED
    BY <2>2, <2>9, <2>11
<1>4. \A i \in Limb : z[i] \in Int /\ c[i] \in Int /\ Within(z[i], c[i]) /\ R[i] \in Int /\ z[i] = hundred * R[i]
  BY <1>2, <1>3
<1>5. IsFiniteSet(Limb) /\ hundred \in Int
  BY LimbFinite
<1> HIDE DEF z, R, M, hundred
<1>6. Sum(c, Limb) = Limbs * M
  BY <1>2, SumConstant
<1> HIDE DEF c
<1>7. Within(Sum(z, Limb), Sum(c, Limb))
  BY <1>4, <1>5, SumWithin
<1>8. Sum(z, Limb) = hundred * Sum(R, Limb) /\ Sum(R, Limb) \in Int
  BY <1>4, <1>5, SumTimes, SumInt
<1>9. Products(f, g)[k] = Sum(R, Limb)
  BY ProductIsSum DEF R
<1>10. Within(100 * Products(f, g)[k], Limbs * M) /\ Products(f, g)[k] \in Int
  BY <1>6, <1>7, <1>8, <1>9 DEF hundred
<1>11. Limbs * M = 9196 * ((Limbs * (MaxWeight * MaxWeight)) * (Least * Least))
       /\ Bulk * (Least * Least) = 368 * ((Limbs * (MaxWeight * MaxWeight)) * (Least * Least))
       /\ (Limbs * (MaxWeight * MaxWeight)) * (Least * Least) \in Nat
  <2>1. Limbs \in Nat /\ MaxWeight \in Nat
    BY DEF FieldShape, FieldRoom
  <2>2. Least \in Nat
    BY <2>1, HalfFacts
  <2>3. M = 19 * ((22 * (MaxWeight * Least)) * (22 * (MaxWeight * Least)))
    BY DEF M
  <2> HIDE DEF A
  <2>4. \A n, w, a \in Nat :
          /\ n * (19 * ((22 * (w * a)) * (22 * (w * a)))) = 9196 * ((n * (w * w)) * (a * a))
          /\ (368 * n * w * w) * (a * a) = 368 * ((n * (w * w)) * (a * a))
          /\ (n * (w * w)) * (a * a) \in Nat
    OBVIOUS
  <2> QED
    BY <2>1, <2>2, <2>3, <2>4 DEF Bulk
<1> DEFINE bulk == (Limbs * (MaxWeight * MaxWeight)) * (Least * Least)
           P == Products(f, g)[k]
<1> HIDE DEF bulk, P, A
<1>12. bulk \in Nat /\ Within(100 * P, 9196 * bulk) /\ P \in Int /\ Bulk * (Least * Least) = 368 * bulk
  BY <1>10, <1>11 DEF bulk, P
<1>13. Within(4 * P, 368 * bulk) /\ Within(2 * P, 368 * bulk)
  BY <1>12 DEF Within
<1> QED
  BY <1>12, <1>13 DEF P

(* The limbs that are read from bytes, before the carries. *)
LEMMA LoadedWithin ==
  ASSUME FieldShape, FieldRoom, NEW b \in Nat, NEW i \in Limb
  PROVE  LET a == load(b, Start(i), Start(i + 1)) * pow2(Start(i) - Offset(i))
         IN  Within(a, Bulk * (Least * Least)) /\ a \in Int
<1> DEFINE v == load(b, Start(i), Start(i + 1))
           e == Start(i + 1) - Start(i)
           g == Start(i) - Offset(i)
           n == Wide - 2
<1>1. /\ Start(i) \in Nat /\ Start(i + 1) \in Nat /\ Start(i) <= Start(i + 1)
      /\ Start(i) - Offset(i) \in Nat /\ Offset(i) \in Nat /\ i \in Nat
      /\ Offset(i + 1) = Offset(i) + Width(i) /\ Width(i) \in Nat /\ Width(i) <= Wide
  BY StartFacts, LimbFinite, OffsetFacts, WidthFacts
<1>2. Wide \in Nat /\ Wide >= 4 /\ ByteBits \in Nat /\ 1 <= ByteBits /\ ByteBits <= Wide
  BY DEF FieldShape
<1>3. Start(i + 1) <= Offset(i + 1) + ByteBits - 1
  <2>1. Start(i + 1) = IF i + 1 = Limbs THEN FieldBits
                       ELSE ByteBits * ((Offset(i + 1) + ByteBits - 1) \div ByteBits)
    BY DEF Start
  <2>2. CASE i + 1 = Limbs
    BY <1>1, <1>2, <2>1, <2>2 DEF FieldBits
  <2>3. CASE i + 1 # Limbs
    <3>1. \A m \in Nat : ByteBits * ((m + ByteBits - 1) \div ByteBits) <= m + ByteBits - 1
      BY <1>2
    <3>2. Offset(i + 1) \in Nat
      BY <1>1
    <3> QED
      BY <2>1, <2>3, <3>1, <3>2
  <2> QED
    BY <2>2, <2>3
<1>4. e \in Nat /\ g \in Nat /\ n \in Nat /\ e + g <= (n + n) + 3
  BY <1>1, <1>2, <1>3
<1>5. v \in Nat /\ v < pow2(e)
  BY <1>1, LoadBits
<1> HIDE DEF v, e, g, n
<1>6. pow2(e) \in Nat /\ pow2(g) \in Nat \ {0} /\ pow2(n) \in Nat
  BY <1>4, Pow2Facts
<1>7. pow2(e + g) = pow2(e) * pow2(g) /\ pow2((n + n) + 3) = (pow2(n) * pow2(n)) * pow2(3)
      /\ pow2(e + g) <= pow2((n + n) + 3)
  <2>1. pow2(e + g) = pow2(e) * pow2(g)
    BY <1>4, Pow2Add
  <2>2. n + n \in Nat /\ 3 \in Nat
    BY <1>4
  <2>3. \A a, c \in Nat : pow2(a + c) = pow2(a) * pow2(c)
    BY Pow2Add
  <2>4. pow2((n + n) + 3) = (pow2(n) * pow2(n)) * pow2(3)
    BY <1>4, <2>2, <2>3
  <2>5. e + g \in Nat /\ (n + n) + 3 \in Nat
    BY <1>4
  <2>6. pow2(e + g) <= pow2((n + n) + 3)
    BY <1>4, <2>5, Pow2Mono
  <2> QED
    BY <2>1, <2>4, <2>6
<1>8. v * pow2(g) \in Nat /\ v * pow2(g) <= pow2(e) * pow2(g)
  BY <1>5, <1>6
<1> DEFINE t == Least * Least
<1>9. t \in Nat /\ t = pow2(n) * pow2(n)
  BY <1>6 DEF Least, n
<1>10. Bulk \in Nat /\ Bulk >= 736
  BY RoomFacts
<1> HIDE DEF t
<1>11. Bulk * t >= 8 * t
  BY <1>9, <1>10
<1>12. v * pow2(g) <= t * pow2(3) /\ pow2(3) = 8
  <2>1. pow2((n + n) + 3) = t * pow2(3)
    BY <1>7, <1>9
  <2>2. pow2(3) = 8
    BY SmallPowers
  <2>3. pow2((n + n) + 3) \in Int /\ pow2(e) * pow2(g) \in Int
    BY <1>6, <1>9, <2>1, <2>2
  <2> QED
    BY <1>7, <1>8, <2>1, <2>2, <2>3
<1>13. Within(v * pow2(g), Bulk * t)
  BY <1>8, <1>9, <1>10, <1>11, <1>12 DEF Within
<1> QED
  BY <1>8, <1>13 DEF v, g, t

(* What every operation leaves. *)
LEMMA OperationsBounded ==
  ASSUME FieldShape, FieldRoom, NEW f \in Elements, NEW g \in Elements,
         NEW u \in 1 .. MaxWeight, NEW v \in 1 .. MaxWeight, Bounded(f, u), Bounded(g, v)
  PROVE  /\ Bounded(FeMul(f, g), 1) /\ Bounded(FeSquare(f), 1) /\ Bounded(FeSquare2(f), 1)
         /\ Bounded(FeAdd(f, g), u + v) /\ Bounded(FeSub(f, g), u + v) /\ Bounded(FeNeg(f), u)
<1> DEFINE L == Bulk * (Least * Least)
<1>1. ASSUME NEW a \in Elements, NEW b \in Elements, NEW n \in 1 .. MaxWeight, NEW m \in 1 .. MaxWeight,
             Bounded(a, n), Bounded(b, m), NEW k \in Limb
      PROVE  Within(Products(a, b)[k], L) /\ Within(2 * Products(a, b)[k], L)
  <2> DEFINE P == Products(a, b)[k]
  <2>1. Within(2 * P, L) /\ P \in Int
    BY <1>1, ProductsBounded
  <2>2. L \in Int
    <3>1. 0 \in Nat
      OBVIOUS
    <3>2. Bulk \in Nat /\ Least \in Nat
      BY <3>1, RoomFacts, HalfFacts
    <3> QED
      BY <3>2
  <2> HIDE DEF P, L
  <2>3. Within(P, L)
    BY <2>1, <2>2 DEF Within
  <2> QED
    BY <2>1, <2>3 DEF P
<1>2. Bounded(FeMul(f, g), 1)
  <2>1. Products(f, g) \in Elements /\ \A k \in Limb : Within(Products(f, g)[k], Bulk * (Least * Least))
    BY <1>1, ProductsIn
  <2> QED
    BY <2>1, CombineBounded DEF FeMul
<1>3. Bounded(FeSquare(f), 1)
  <2>1. Products(f, f) \in Elements /\ \A k \in Limb : Within(Products(f, f)[k], Bulk * (Least * Least))
    BY <1>1, ProductsIn
  <2>2. feSquare(f) = Products(f, f)
    BY SquareIsProduct
  <2> QED
    BY <2>1, <2>2, CombineBounded DEF FeSquare
<1>4. Bounded(FeSquare2(f), 1)
  <2> DEFINE h == [k \in Limb |-> 2 * feSquare(f)[k]]
  <2>1. feSquare(f) = Products(f, f) /\ Products(f, f) \in Elements
    BY SquareIsProduct, ProductsIn
  <2>2. h \in Elements
    BY <2>1, SumValues
  <2>3. \A k \in Limb : Within(h[k], Bulk * (Least * Least))
    BY <1>1, <2>1
  <2> HIDE DEF h
  <2>4. Bounded(FeCombine(h), 1)
    BY <2>2, <2>3, CombineBounded
  <2> QED
    BY <2>4 DEF FeSquare2, h
<1>5. ASSUME NEW i \in Limb
      PROVE  /\ Within(10 * FeAdd(f, g)[i], 11 * ((u + v) * HalfRange(i)))
             /\ Within(10 * FeSub(f, g)[i], 11 * ((u + v) * HalfRange(i)))
             /\ Within(10 * FeNeg(f)[i], 11 * (u * HalfRange(i)))
  <2>1. f[i] \in Int /\ g[i] \in Int /\ i \in Nat
    BY LimbFinite DEF Elements
  <2>2. HalfRange(i) \in Nat /\ MaxWeight \in Nat
    BY <2>1, HalfFacts, RoomFacts
  <2>3. Within(10 * f[i], 11 * (u * HalfRange(i))) /\ Within(10 * g[i], 11 * (v * HalfRange(i)))
    BY DEF Bounded
  <2>4. /\ (u + v) * HalfRange(i) = u * HalfRange(i) + v * HalfRange(i)
        /\ u * HalfRange(i) \in Int /\ v * HalfRange(i) \in Int
    BY <2>2
  <2> DEFINE a == u * HalfRange(i)
             b == v * HalfRange(i)
             d == (u + v) * HalfRange(i)
  <2> HIDE DEF a, b, d
  <2>5. a \in Int /\ b \in Int /\ d = a + b /\ Within(10 * f[i], 11 * a) /\ Within(10 * g[i], 11 * b)
    BY <2>3, <2>4 DEF a, b, d
  <2>6. Within(10 * (f[i] + g[i]), 11 * d) /\ Within(10 * (f[i] - g[i]), 11 * d) /\ Within(10 * (-f[i]), 11 * a)
    BY <2>1, <2>5 DEF Within
  <2> QED
    BY <2>6 DEF FeAdd, FeSub, FeNeg, a, d
<1> QED
  BY <1>2, <1>3, <1>4, <1>5 DEF Bounded

(* What is read, and the constants. *)
LEMMA SourcesBounded ==
  ASSUME FieldShape, FieldRoom
  PROVE  /\ \A b \in Nat : Bounded(FeFromBytes(b), 1)
         /\ Bounded(FeZero, 1) /\ Bounded(FeOne, 1)
<1>1. ASSUME NEW b \in Nat PROVE Bounded(FeFromBytes(b), 1)
  <2> DEFINE h == [i \in Limb |-> load(b, Start(i), Start(i + 1)) * pow2(Start(i) - Offset(i))]
  <2>1. \A i \in Limb : Within(h[i], Bulk * (Least * Least)) /\ h[i] \in Int
    BY LoadedWithin
  <2>2. h \in Elements
    BY <2>1 DEF Elements
  <2> HIDE DEF h
  <2>3. Bounded(FeCombine(h), 1)
    BY <2>1, <2>2, CombineBounded
  <2> QED
    BY <2>3 DEF FeFromBytes, h
<1>2. ASSUME NEW i \in Limb
      PROVE  Within(10 * FeZero[i], 11 * (1 * HalfRange(i))) /\ Within(10 * FeOne[i], 11 * (1 * HalfRange(i)))
  <2>1. i \in Nat
    BY LimbFinite
  <2>2. HalfRange(i) \in Nat \ {0}
    BY <2>1, HalfFacts
  <2>3. FeZero[i] = 0 /\ FeOne[i] \in {0, 1}
    BY LimbFinite DEF FeZero, FeOne
  <2> QED
    BY <2>2, <2>3 DEF Within
<1> QED
  BY <1>1, <1>2 DEF Bounded

-----------------------------------------------------------------------------
(* Bytes: the quotient by p that FeToBytes finds, and the digits it leaves. *)

(* The number that the limbs below limb k stand for. *)
Low(h, k) == Sum(Weighted(h), 0 .. k - 1)

(* From no limb to all of them, limb by limb. *)
LEMMA LowFacts ==
  ASSUME FieldShape, NEW h \in Elements
  PROVE  /\ Low(h, 0) = 0 /\ Low(h, Limbs) = Value(h)
         /\ \A k \in Limb : /\ Low(h, k) \in Int /\ h[k] \in Int /\ pow2(Offset(k)) \in Nat \ {0}
                            /\ Low(h, k + 1) = Low(h, k) + h[k] * pow2(Offset(k))
                            /\ pow2(Offset(k + 1)) = pow2(Offset(k)) * pow2(Width(k))
                            /\ pow2(Width(k)) \in Nat \ {0}
<1> DEFINE w == Weighted(h)
<1>1. \A i \in Limb : w[i] = h[i] * pow2(Offset(i)) /\ w[i] \in Int
  BY WeightedInt
<1> HIDE DEF w
<1>2. Sum(w, 0 .. 0 - 1) = 0
  <2>1. 0 .. 0 - 1 = {}
    OBVIOUS
  <2> QED
    BY <2>1, SumEmpty
<1>3. Low(h, Limbs) = Value(h)
  BY ValueIsSum DEF Low, Limb
<1>4. ASSUME NEW k \in Limb
      PROVE  /\ Low(h, k) \in Int /\ h[k] \in Int
             /\ Low(h, k + 1) = Low(h, k) + h[k] * pow2(Offset(k))
  <2>1. k \in Nat /\ 0 .. (k + 1) - 1 = (0 .. k - 1) \cup {k} /\ k \notin 0 .. k - 1
        /\ (0 .. k - 1) \cup {k} \subseteq Limb
    BY DEF Limb, FieldShape
  <2>2. IsFiniteSet(0 .. k - 1)
    BY <2>1, FS_Interval
  <2>3. \A i \in (0 .. k - 1) \cup {k} : w[i] \in Int
    BY <1>1, <2>1
  <2>4. Sum(w, (0 .. k - 1) \cup {k}) = w[k] + Sum(w, 0 .. k - 1) /\ Sum(w, 0 .. k - 1) \in Int
    BY <2>1, <2>2, <2>3, SumAdd, SumInt
  <2>5. w[k] = h[k] * pow2(Offset(k)) /\ w[k] \in Int
    BY <1>1
  <2>6. h[k] \in Int /\ Low(h, k) = Sum(w, 0 .. k - 1) /\ Low(h, k + 1) = Sum(w, (0 .. k - 1) \cup {k})
    BY <2>1 DEF Low, w, Elements
  <2> QED
    BY <2>4, <2>5, <2>6
<1>5. ASSUME NEW k \in Limb
      PROVE  /\ pow2(Offset(k)) \in Nat \ {0} /\ pow2(Width(k)) \in Nat \ {0}
             /\ pow2(Offset(k + 1)) = pow2(Offset(k)) * pow2(Width(k))
  <2>1. k \in Nat
    BY LimbFinite
  <2>2. Offset(k) \in Nat /\ Width(k) \in Nat /\ Offset(k + 1) = Offset(k) + Width(k)
    BY <2>1, OffsetFacts, WidthFacts
  <2> QED
    BY <2>2, Pow2Facts, Pow2Add
<1> QED
  BY <1>2, <1>3, <1>4, <1>5 DEF Low, w

(* What a division rounded down leaves. *)
LEMMA FloorFacts ==
  ASSUME NEW e \in Int, NEW b \in Nat \ {0}
  PROVE  e \div b \in Int /\ e - (e \div b) * b \in 0 .. b - 1
<1>1. e = b * (e \div b) + (e % b) /\ e % b \in 0 .. b - 1 /\ e \div b \in Int
  OBVIOUS
<1>2. b * (e \div b) = (e \div b) * b
  BY <1>1
<1> QED
  BY <1>1, <1>2

(* The carry that the quotient begins with. *)
First(h) == shiftR(19 * h[Limbs - 1] + pow2(Width(Limbs - 1) - 1), Width(Limbs - 1))

(* The quotient, limb by limb. *)
LEMMA QuotientSteps ==
  ASSUME FieldShape, NEW h \in Elements
  PROVE  \E d \in [0 .. Limbs -> Int] :
           /\ d[0] = First(h) /\ d[Limbs] = Quotient(h)
           /\ \A k \in 1 .. Limbs : d[k] = shiftR(h[k - 1] + d[k - 1], Width(k - 1))
<1> DEFINE n == Limbs
           O == [k \in 1 .. Limbs |-> k - 1]
           z == First(h)
           op(c, i) == shiftR(h[i] + c, Width(i))
           o == [k \in 1 .. n |-> [c \in Int |-> op(c, O[k])]]
           F(g) == [t \in SUBSET DOMAIN O |->
                     IF t = {} THEN z ELSE op(g[t \ {Max(t)}], O[Max(t)])]
           G == CHOOSE g : g = F(g)
<1>1. n \in Nat /\ DOMAIN O = 1 .. n /\ \A k \in 1 .. n : O[k] = k - 1 /\ O[k] \in Limb
  BY DEF FieldShape, Limb
<1>2. Quotient(h) = G[DOMAIN O]
  BY DEF Quotient, FoldLeft, MapThenFoldSet, First
<1>3. \A c \in Int, i \in Limb : op(c, i) \in Int
  <2>1. \A i \in Limb : h[i] \in Int /\ pow2(Width(i)) \in Nat \ {0}
    BY LowFacts
  <2> QED
    BY <2>1, FloorFacts DEF shiftR
<1>4. z \in Int
  <2>1. Limbs - 1 \in Limb /\ Limbs - 1 \in Nat
    BY LimbFinite
  <2>2. h[Limbs - 1] \in Int /\ pow2(Width(Limbs - 1)) \in Nat \ {0} /\ pow2(Width(Limbs - 1) - 1) \in Nat
    BY <2>1, LowFacts, WidthFacts, Pow2Facts
  <2>3. 19 * h[Limbs - 1] + pow2(Width(Limbs - 1) - 1) \in Int
    BY <2>2
  <2> QED
    BY <2>2, <2>3, FloorFacts DEF shiftR, First
<1> HIDE DEF n, O, z, op
<1>5. \A c \in Int, k \in 1 .. n : o[k][c] = op(c, O[k]) /\ o[k][c] \in Int
  BY <1>1, <1>3
<1> HIDE DEF o
<1>6. PICK g \in [SUBSET (1 .. n) -> Int] : IsFold(g, n, z, o)
  BY <1>1, <1>4, <1>5, FoldExists
<1>7. g = F(g)
  <2>1. ASSUME NEW t \in SUBSET (1 .. n)
        PROVE  g[t] = IF t = {} THEN z ELSE op(g[t \ {Max(t)}], O[Max(t)])
    <3>1. g[t] = IF t = {} THEN z ELSE o[Max(t)][g[t \ {Max(t)}]]
      BY <1>6 DEF IsFold
    <3>2. ASSUME t # {}
          PROVE  o[Max(t)][g[t \ {Max(t)}]] = op(g[t \ {Max(t)}], O[Max(t)])
      <4>1. Max(t) \in 1 .. n
        BY <1>1, <3>2, MaxIn
      <4>2. g[t \ {Max(t)}] \in Int
        BY <1>6
      <4> QED
        BY <1>5, <4>1, <4>2
    <3> QED
      BY <3>1, <3>2
  <2> QED
    BY <1>1, <1>6, <2>1
<1>8. G = F(G)
  <2> HIDE DEF F
  <2> QED
    BY <1>7
<1> HIDE DEF G
<1> DEFINE d == [k \in 0 .. n |-> G[1 .. k]]
<1>9. ASSUME NEW k \in 0 .. n
      PROVE  d[k] = IF k = 0 THEN z ELSE op(d[k - 1], O[k])
  <2>1. 1 .. k \in SUBSET DOMAIN O /\ (1 .. k = {} <=> k = 0) /\ k \in Nat
    BY <1>1
  <2>2. G[1 .. k] = IF 1 .. k = {} THEN z
                    ELSE op(G[(1 .. k) \ {Max(1 .. k)}], O[Max(1 .. k)])
    BY <1>8, <2>1
  <2>3. k # 0 => Max(1 .. k) = k /\ (1 .. k) \ {k} = 1 .. k - 1
    BY <2>1, MaxUpTo
  <2>4. k # 0 => d[k - 1] = G[1 .. k - 1]
    BY <1>1, <2>1
  <2> QED
    BY <2>1, <2>2, <2>3, <2>4
<1>10. d[n] = Quotient(h) /\ DOMAIN d = 0 .. n /\ d = [k \in 0 .. n |-> d[k]]
  BY <1>1, <1>2
<1> HIDE DEF d
<1> DEFINE T == {k \in Nat : k <= n => d[k] \in Int}
<1>11. 0 \in T
  BY <1>1, <1>4, <1>9
<1>12. ASSUME NEW k \in Nat, k \in T
       PROVE  k + 1 \in T
  <2> SUFFICES ASSUME k + 1 <= n PROVE d[k + 1] \in Int
    OBVIOUS
  <2>1. k + 1 \in 0 .. n /\ k + 1 \in 1 .. n /\ k + 1 # 0 /\ (k + 1) - 1 = k
    BY <1>1
  <2>2. d[k] \in Int
    BY <1>1, <1>12
  <2>3. d[k + 1] = op(d[k], O[k + 1])
    BY <1>9, <2>1
  <2> QED
    BY <1>1, <1>3, <2>1, <2>2, <2>3
<1> HIDE DEF T
<1>13. \A k \in 0 .. n : d[k] \in Int
  <2>1. Nat \subseteq T
    BY <1>11, <1>12, NatSetInduction
  <2> QED
    BY <1>1, <2>1 DEF T
<1>14. d \in [0 .. n -> Int]
  BY <1>10, <1>13
<1>15. d[0] = z /\ \A k \in 1 .. n : d[k] = op(d[k - 1], O[k])
  <2>1. 0 \in 0 .. n /\ \A k \in 1 .. n : k \in 0 .. n /\ k # 0
    BY <1>1
  <2> QED
    BY <1>9, <2>1
<1>16. \A k \in 1 .. n : d[k] = shiftR(h[k - 1] + d[k - 1], Width(k - 1))
  BY <1>1, <1>15 DEF op
<1> QED
  BY <1>10, <1>14, <1>15, <1>16 DEF n, z

(* The quotient by 2^FieldBits of the number and the first carry. *)
LEMMA QuotientBetween ==
  ASSUME FieldShape, NEW h \in Elements
  PROVE  /\ Quotient(h) \in Int /\ First(h) \in Int
         /\ Quotient(h) * pow2(FieldBits) <= Value(h) + First(h)
         /\ Value(h) + First(h) < (Quotient(h) + 1) * pow2(FieldBits)
<1> DEFINE z == First(h)
           n == Limbs
<1>1. PICK d \in [0 .. n -> Int] :
        /\ d[0] = z /\ d[n] = Quotient(h)
        /\ \A k \in 1 .. n : d[k] = shiftR(h[k - 1] + d[k - 1], Width(k - 1))
  BY QuotientSteps
<1>2. n \in Nat /\ Limb = 0 .. n - 1
  BY DEF FieldShape, Limb
<1>3. z \in Int /\ d[n] \in Int
  BY <1>1, <1>2
<1> HIDE DEF z, n
<1> DEFINE T == {k \in Nat : k <= n => /\ d[k] * pow2(Offset(k)) <= Low(h, k) + z
                                       /\ Low(h, k) + z < (d[k] + 1) * pow2(Offset(k))}
<1>4. 0 \in T
  <2>1. Offset(0) = 0 /\ pow2(0) = 1
    BY OffsetFacts, Pow2Facts
  <2>2. Low(h, 0) = 0
    BY LowFacts
  <2> QED
    BY <1>1, <1>3, <2>1, <2>2
<1>5. ASSUME NEW k \in Nat, k \in T
      PROVE  k + 1 \in T
  <2> SUFFICES ASSUME k + 1 <= n
               PROVE  /\ d[k + 1] * pow2(Offset(k + 1)) <= Low(h, k + 1) + z
                      /\ Low(h, k + 1) + z < (d[k + 1] + 1) * pow2(Offset(k + 1))
    OBVIOUS
  <2> DEFINE A == pow2(Offset(k))
             b == pow2(Width(k))
             e == h[k] + d[k]
             c == d[k + 1]
             L == Low(h, k)
             u == d[k]
             v == h[k]
  <2>1. k \in Limb /\ k \in 0 .. n /\ k + 1 \in 0 .. n /\ k + 1 \in 1 .. n /\ (k + 1) - 1 = k /\ k <= n
    BY <1>2
  <2>2. /\ L \in Int /\ v \in Int /\ A \in Nat \ {0} /\ b \in Nat \ {0}
        /\ Low(h, k + 1) = L + v * A /\ pow2(Offset(k + 1)) = A * b
    BY <2>1, LowFacts
  <2>3. u \in Int /\ c \in Int /\ c = (v + u) \div b
    BY <1>1, <2>1 DEF shiftR
  <2>4. u * A <= L + z /\ L + z < (u + 1) * A
    BY <1>5, <2>1
  <2> HIDE DEF A, b, e, c, L, u, v
  <2>5. (v + u) - c * b \in 0 .. b - 1
    <3>1. v + u \in Int
      BY <2>2, <2>3
    <3> QED
      BY <2>2, <2>3, <3>1, FloorFacts
  <2> DEFINE f == (v + u) - c * b
  <2>6. f \in Nat /\ f <= b - 1
    BY <2>2, <2>5
  <2>7. v * A + u * A = (c * b) * A + f * A
    <3>1. v + u = c * b + f /\ c * b \in Int
      BY <2>2, <2>3
    <3> HIDE DEF f
    <3>2. (v + u) * A = (c * b + f) * A
      BY <3>1
    <3>3. (v + u) * A = v * A + u * A
      BY <2>2, <2>3
    <3>4. (c * b + f) * A = (c * b) * A + f * A
      BY <2>2, <2>6, <3>1
    <3> QED
      BY <3>2, <3>3, <3>4
  <2> HIDE DEF f
  <2>8. f * A >= 0 /\ f * A + A <= b * A
    <3>1. f * A + A = (f + 1) * A /\ f + 1 <= b
      BY <2>2, <2>6
    <3>2. \A i, j \in Nat : i <= j => i * A <= j * A
      BY <2>2
    <3> QED
      BY <2>2, <2>6, <3>1, <3>2
  <2>9. c * (A * b) = (c * b) * A /\ (c + 1) * (A * b) = (c * b) * A + b * A
        /\ (u + 1) * A = u * A + A
    <3>1. \A i \in Int : i * (A * b) = (i * b) * A
      BY <2>2
    <3>2. ((c + 1) * b) * A = (c * b) * A + b * A
      BY <2>2, <2>3
    <3> QED
      BY <2>2, <2>3, <3>1, <3>2
  <2>10. v * A \in Int /\ u * A \in Int /\ (c * b) * A \in Int /\ b * A \in Int /\ f * A \in Int
    BY <2>2, <2>3, <2>6
  <2>11. c * (A * b) <= (L + v * A) + z
    BY <1>3, <2>2, <2>4, <2>7, <2>8, <2>9, <2>10
  <2>12. (L + v * A) + z < (c + 1) * (A * b)
    BY <1>3, <2>2, <2>4, <2>7, <2>8, <2>9, <2>10
  <2> QED
    BY <2>2, <2>11, <2>12 DEF c
<1> HIDE DEF T
<1>6. n \in T
  BY <1>2, <1>4, <1>5, NatSetInduction
<1>7. Offset(n) = FieldBits /\ Low(h, n) = Value(h)
  BY LowFacts DEF FieldBits, n
<1> QED
  BY <1>1, <1>2, <1>3, <1>6, <1>7 DEF T, z

(* Small limbs stand for a small number. *)
LEMMA LowBounded ==
  ASSUME FieldShape, NEW h \in Elements, NEW w \in Nat \ {0}, Bounded(h, w), NEW n \in 0 .. Limbs
  PROVE  Within(10 * Low(h, n), 11 * (w * pow2(Offset(n)))) /\ Low(h, n) \in Int /\ pow2(Offset(n)) \in Nat \ {0}
<1>1. Limbs \in Nat /\ Limb = 0 .. Limbs - 1
  BY DEF FieldShape, Limb
<1> DEFINE T == {k \in Nat : k <= Limbs => /\ Within(10 * Low(h, k), 11 * (w * pow2(Offset(k))))
                                           /\ Low(h, k) \in Int /\ pow2(Offset(k)) \in Nat \ {0}}
<1>2. 0 \in T
  <2>1. Offset(0) = 0 /\ pow2(0) = 1 /\ Low(h, 0) = 0
    BY OffsetFacts, Pow2Facts, LowFacts
  <2>2. 11 * (w * pow2(Offset(0))) = 11 * w /\ 10 * Low(h, 0) = 0
    BY <2>1
  <2> QED
    BY <2>1, <2>2 DEF Within
<1>3. ASSUME NEW k \in Nat, k \in T
      PROVE  k + 1 \in T
  <2> SUFFICES ASSUME k + 1 <= Limbs
               PROVE  /\ Within(10 * Low(h, k + 1), 11 * (w * pow2(Offset(k + 1))))
                      /\ Low(h, k + 1) \in Int /\ pow2(Offset(k + 1)) \in Nat \ {0}
    OBVIOUS
  <2> DEFINE A == pow2(Offset(k))
             P == HalfRange(k)
             v == h[k]
             L == Low(h, k)
             E == w * A
             R == w * P
  <2>1. k \in Limb /\ k <= Limbs
    BY <1>1
  <2>2. /\ L \in Int /\ v \in Int /\ A \in Nat \ {0}
        /\ Low(h, k + 1) = L + v * A /\ pow2(Offset(k + 1)) = A * pow2(Width(k))
    BY <2>1, LowFacts
  <2>3. P \in Nat \ {0} /\ pow2(Width(k)) = 2 * P
    BY HalfFacts
  <2>4. Within(10 * L, 11 * E)
    BY <1>3, <2>1
  <2>5. Within(10 * v, 11 * R)
    BY <2>1 DEF Bounded
  <2> HIDE DEF A, P, v, L
  <2>6. R \in Nat /\ E \in Nat /\ E * P >= E
    BY <2>2, <2>3
  <2>7. R * A = E * P
    BY <2>2, <2>3
  <2>8. w * (A * (2 * P)) = 2 * (E * P)
    BY <2>2, <2>3
  <2>9. A * (2 * P) \in Nat \ {0}
    BY <2>2, <2>3
  <2>10. 11 * R \in Int /\ 10 * v \in Int /\ 10 * L \in Int /\ 11 * E \in Int
    BY <2>2, <2>6
  <2> HIDE DEF R, E
  <2>11. (10 * v) * A <= (11 * R) * A /\ (-(11 * R)) * A <= (10 * v) * A
    <3>1. \A i, j \in Int : i <= j => i * A <= j * A
      BY <2>2
    <3>2. -(11 * R) \in Int /\ -(11 * R) <= 10 * v /\ 10 * v <= 11 * R
      BY <2>5, <2>10 DEF Within
    <3> QED
      BY <2>10, <3>1, <3>2
  <2>12. (10 * v) * A = 10 * (v * A) /\ (11 * R) * A = 11 * (E * P) /\ (-(11 * R)) * A = -(11 * (E * P))
    BY <2>2, <2>6, <2>7
  <2>13. 10 * (L + v * A) = 10 * L + 10 * (v * A) /\ v * A \in Int /\ E * P \in Int
    BY <2>2, <2>3, <2>6
  <2>14. Within(10 * (L + v * A), 11 * (2 * (E * P)))
    BY <2>2, <2>4, <2>6, <2>10, <2>11, <2>12, <2>13 DEF Within
  <2>15. L + v * A \in Int
    BY <2>2, <2>13
  <2> QED
    BY <2>2, <2>3, <2>8, <2>9, <2>14, <2>15
<1> HIDE DEF T
<1>4. n \in T
  <2>1. Nat \subseteq T
    BY <1>2, <1>3, NatSetInduction
  <2> QED
    BY <1>1, <2>1
<1> QED
  BY <1>1, <1>4 DEF T

(* A multiple of p below a sum of w products is of a small number. *)
LEMMA MultipleBounded ==
  ASSUME NEW P \in Nat, P >= 19, NEW w \in Nat \ {0}, NEW V \in Int, NEW v \in Int, NEW r \in 0 .. P - 1,
         V - r = v * P, Within(10 * V, 11 * (w * (P + 19)))
  PROVE  Within(v, 4 * w)
<1> DEFINE R == w * P
<1>1. R \in Nat /\ R >= P /\ w * (P + 19) = R + 19 * w /\ 19 * w <= R
  <2>1. \A i, j, k \in Nat : i <= j => k * i <= k * j
    OBVIOUS
  <2>2. w * 19 <= w * P
    BY <2>1
  <2> QED
    BY <2>2
<1>2. \A i, j \in Int : i <= j => i * P <= j * P
  OBVIOUS
<1>3. 10 * (v * P) <= 22 * R
  BY <1>1 DEF Within
<1>4. -(32 * R) <= 10 * (v * P)
  BY <1>1 DEF Within
<1>5. v <= 4 * w
  <2> SUFFICES ASSUME 4 * w + 1 <= v PROVE FALSE
    OBVIOUS
  <2>1. (4 * w + 1) * P <= v * P /\ (4 * w + 1) * P = 4 * R + P
    BY <1>2
  <2> HIDE DEF R
  <2> QED
    BY <1>1, <1>3, <2>1
<1>6. -(4 * w) <= v
  <2> SUFFICES ASSUME v <= -(4 * w) - 1 PROVE FALSE
    OBVIOUS
  <2>1. v * P <= (-(4 * w) - 1) * P /\ (-(4 * w) - 1) * P = -(4 * R) - P
    BY <1>2
  <2> HIDE DEF R
  <2> QED
    BY <1>1, <1>4, <2>1
<1> QED
  BY <1>5, <1>6 DEF Within

(* The last limb t of a number v P + r, with the place U, half its range H and
   L below it, and c the carry that the quotient begins with.              *)
LastLimb(U, H, L, t, w, v, P, r, c) ==
  /\ {U, H, w} \subseteq Nat \ {0} /\ {L, t, v} \subseteq Int /\ P \in Nat /\ r \in 0 .. P - 1
  /\ P + 19 = U * (2 * H) /\ L + t * U = v * P + r
  /\ Within(10 * L, 11 * (w * U)) /\ Within(v, 4 * w) /\ 1500 * w <= H
  /\ c = (19 * t + H) \div (2 * H)

(* The first carry is 19 v, or up to 19 more. *)
LEMMA FirstCarry ==
  ASSUME NEW U, NEW H, NEW L, NEW t, NEW w, NEW v, NEW P, NEW r, NEW c, LastLimb(U, H, L, t, w, v, P, r, c)
  PROVE  c \in Int /\ 0 <= c - 19 * v /\ c - 19 * v <= 19
<1>0. /\ U \in Nat \ {0} /\ H \in Nat \ {0} /\ w \in Nat \ {0} /\ L \in Int /\ t \in Int /\ v \in Int
      /\ P \in Nat /\ r \in 0 .. P - 1
  BY DEF LastLimb
<1>a. P + 19 = U * (2 * H) /\ L + t * U = v * P + r
  BY DEF LastLimb
<1>b. Within(10 * L, 11 * (w * U)) /\ Within(v, 4 * w) /\ 1500 * w <= H
  BY DEF LastLimb
<1>c. c = (19 * t + H) \div (2 * H)
  BY DEF LastLimb
<1> USE <1>0
<1> DEFINE f == (19 * t + H) - c * (2 * H)
           N == P + 19
           k == c - 19 * v
<1>1. c \in Int /\ f \in 0 .. 2 * H - 1
  <2> DEFINE e == 19 * t + H
             b == 2 * H
  <2>1. e \in Int /\ b \in Nat \ {0} /\ c = e \div b
    BY <1>c
  <2> HIDE DEF e, b
  <2>2. c \in Int /\ e - c * b \in 0 .. b - 1
    BY <2>1, FloorFacts
  <2> QED
    BY <2>2 DEF e, b
<1>2. c * (2 * H) = 19 * t + H - f
  <2>1. c * (2 * H) \in Int
    BY <1>1
  <2> QED
    BY <2>1
<1> HIDE DEF f
<1>3. c * N = 19 * (t * U) + U * H - f * U
  <2>1. c * (U * (2 * H)) = (c * (2 * H)) * U
    BY <1>1
  <2>2. (19 * t + H - f) * U = 19 * (t * U) + U * H - f * U
    BY <1>1
  <2> QED
    BY <1>2, <1>a, <2>1, <2>2
<1>4. v * P = v * N - 19 * v
  OBVIOUS
<1>5. k * N = 19 * r - 361 * v - 19 * L + U * H - f * U
  <2>1. k * N = c * N - 19 * (v * N)
    BY <1>1
  <2>2. v * N \in Int /\ t * U \in Int /\ c * N \in Int /\ U * H \in Int /\ f * U \in Int
    BY <1>1
  <2> HIDE DEF N, k
  <2>3. t * U = v * N - 19 * v + r - L
    <3>1. L + t * U = (v * N - 19 * v) + r
      BY <1>4, <1>a
    <3> QED
      BY <2>2, <3>1
  <2> DEFINE A == v * N
             B == t * U
             C == c * N
             D == U * H
             E == f * U
  <2>4. A \in Int /\ B \in Int /\ C \in Int /\ D \in Int /\ E \in Int /\ r \in Int
    BY <2>2
  <2>5. k * N = C - 19 * A /\ C = 19 * B + D - E /\ B = A - 19 * v + r - L
    BY <1>3, <2>1, <2>3
  <2> HIDE DEF A, B, C, D, E
  <2>6. k * N = 19 * r - 361 * v - 19 * L + D - E
    BY <2>4, <2>5
  <2> QED
    BY <2>6 DEF D, E
<1> DEFINE X == U * H
           Y == w * U
           Z == f * U
<1>6. N = 2 * X /\ X \in Nat /\ Y \in Nat /\ Z \in Nat
  BY <1>1, <1>a
<1>7. Z <= 2 * X - U
  <2>1. \A i, j \in Nat : i <= j => i * U <= j * U
    OBVIOUS
  <2>2. f * U <= (2 * H - 1) * U /\ (2 * H - 1) * U = 2 * X - U
    BY <1>1, <2>1
  <2> QED
    BY <2>2
<1>8. 1500 * Y <= X /\ w <= Y
  <2>1. \A i, j \in Nat : i <= j => i * U <= j * U
    OBVIOUS
  <2>2. (1500 * w) * U <= H * U /\ (1500 * w) * U = 1500 * Y /\ H * U = X
    BY <1>b, <2>1
  <2>3. w * 1 <= w * U
    OBVIOUS
  <2> QED
    BY <2>2, <2>3
<1>9. k \in Int /\ N \in Nat \ {0} /\ r <= N - 20 /\ r >= 0 /\ r \in Int
  BY <1>1
<1>10. k * N = 19 * r - 361 * v - 19 * L + X - Z /\ Within(10 * L, 11 * Y)
  BY <1>5, <1>b
<1> HIDE DEF X, Y, Z, N, k
<1>11. k * N > -N
  BY <1>6, <1>7, <1>8, <1>9, <1>10, <1>b DEF Within
<1>12. k * N < 20 * N
  BY <1>6, <1>7, <1>8, <1>9, <1>10, <1>b DEF Within
<1>13. \A i, j \in Int : i <= j => i * N <= j * N
  BY <1>9
<1>14. k >= 0
  <2> SUFFICES ASSUME k <= -1 PROVE FALSE
    BY <1>9
  <2>1. k * N <= (-1) * N
    BY <1>9, <1>13
  <2> QED
    BY <1>9, <1>11, <2>1
<1>15. k <= 19
  <2> SUFFICES ASSUME 20 <= k PROVE FALSE
    BY <1>9
  <2>1. 20 * N <= k * N
    BY <1>9, <1>13
  <2> QED
    BY <1>9, <1>12, <2>1
<1> QED
  BY <1>1, <1>14, <1>15 DEF k

(* Quotient finds the quotient by p of the number that limbs within the
   bounds stand for.                                                       *)
LEMMA QuotientExact ==
  ASSUME FieldShape, FieldRoom, NEW h, NEW r, NEW w \in 1 .. MaxWeight, Stands(h, r), Bounded(h, w)
  PROVE  Quotient(h) \in Int /\ Value(h) = Quotient(h) * p + r
<1> DEFINE N == pow2(FieldBits)
           m == Limbs - 1
           U == pow2(Offset(m))
           H == HalfRange(m)
           V == Value(h)
           q == Quotient(h)
           z == First(h)
<1>1. h \in Elements /\ r \in 0 .. p - 1
  BY DEF Stands
<1>2. PICK v \in Int : V - r = v * p
  BY DEF Stands, Same
<1>3. Limbs \in Nat /\ m \in Limb /\ m \in Nat /\ m + 1 = Limbs /\ m \in 0 .. Limbs /\ Limbs \in 0 .. Limbs
      /\ m % 2 = 1
  BY DEF FieldShape, Limb
<1>4. p \in Nat /\ p >= 19 /\ N = p + 19 /\ p \in Nat \ {0}
  <2>1. FieldBits \in Nat /\ FieldBits >= 7 /\ N = p + 19 /\ p \in Nat \ {0}
    BY FieldBitsFacts
  <2>2. pow2(3 + 3) = 64
    BY Pow2Add, SmallPowers
  <2>3. pow2(6) <= N
    BY <2>1, Pow2Mono
  <2> QED
    BY <2>1, <2>2, <2>3
<1>5. H \in Nat \ {0} /\ pow2(Width(m)) = 2 * H /\ H = Least
  BY <1>3, HalfFacts
<1>6. w \in Nat \ {0} /\ 1500 * w <= H
  <2>1. MaxWeight \in Nat \ {0} /\ w \in Nat \ {0} /\ w <= MaxWeight /\ Limbs >= 2
    BY RoomFacts DEF FieldShape
  <2>2. 147200 * Limbs * MaxWeight * MaxWeight <= Least
    BY DEF FieldRoom, Least
  <2>3. 147200 * Limbs * MaxWeight * MaxWeight >= 147200 * Limbs * MaxWeight
    BY <1>3, <2>1
  <2>4. 147200 * Limbs * MaxWeight >= 147200 * MaxWeight
    BY <1>3, <2>1
  <2>5. 147200 * Limbs * MaxWeight * MaxWeight \in Int /\ 147200 * Limbs * MaxWeight \in Int
    BY <1>3, <2>1
  <2> QED
    BY <1>5, <2>1, <2>2, <2>3, <2>4, <2>5
<1>7. U \in Nat \ {0} /\ Within(10 * Low(h, m), 11 * (w * U)) /\ Low(h, m) \in Int
  BY <1>1, <1>3, <1>6, LowBounded
<1>8. Within(10 * V, 11 * (w * N))
  <2>1. Low(h, Limbs) = V /\ Offset(Limbs) = FieldBits
    BY <1>1, LowFacts DEF FieldBits
  <2> QED
    BY <1>1, <1>3, <1>6, <2>1, LowBounded
<1>9. h[m] \in Int /\ V = Low(h, m) + h[m] * U /\ N = U * (2 * H)
  <2>1. Low(h, m + 1) = Low(h, m) + h[m] * U /\ h[m] \in Int /\ pow2(Offset(m + 1)) = U * pow2(Width(m))
    BY <1>1, <1>3, LowFacts
  <2>2. Low(h, Limbs) = V /\ Offset(Limbs) = FieldBits
    BY <1>1, LowFacts DEF FieldBits
  <2> QED
    BY <1>3, <1>5, <2>1, <2>2
<1>10. V \in Int /\ r \in Int /\ V = v * p + r
  BY <1>1, <1>2, <1>4, ValueInt
<1>11. z = (19 * h[m] + H) \div (2 * H)
  BY <1>5 DEF First, shiftR, HalfRange
<1>12. q \in Int /\ z \in Int /\ q * N <= V + z /\ V + z < (q + 1) * N
  BY <1>1, QuotientBetween
<1> HIDE DEF N, m, U, H, V, q, z
<1>13. Within(v, 4 * w)
  BY <1>1, <1>2, <1>4, <1>6, <1>8, <1>10, MultipleBounded
<1>14. 0 <= z - 19 * v /\ z - 19 * v <= 19
  <2> DEFINE L == Low(h, m)
             t == h[m]
  <2>1. L \in Int /\ t \in Int /\ p + 19 = U * (2 * H) /\ L + t * U = v * p + r /\ z = (19 * t + H) \div (2 * H)
    BY <1>4, <1>7, <1>9, <1>10, <1>11
  <2>2. Within(10 * L, 11 * (w * U)) /\ U \in Nat \ {0} /\ H \in Nat \ {0} /\ w \in Nat \ {0}
    BY <1>5, <1>6, <1>7
  <2> HIDE DEF L, t
  <2>3. LastLimb(U, H, L, t, w, v, p, r, z)
    BY <1>1, <1>4, <1>6, <1>13, <2>1, <2>2 DEF LastLimb
  <2> QED
    BY <2>3, FirstCarry
<1>15. v * N = v * p + 19 * v /\ (v + 1) * N = v * p + 19 * v + p + 19
  BY <1>4
<1>16. v * N <= V + z /\ V + z < (v + 1) * N
  <2>1. v * p \in Int /\ r >= 0 /\ r <= p - 1
    BY <1>1, <1>4
  <2> QED
    BY <1>4, <1>10, <1>12, <1>14, <1>15, <2>1
<1>17. \A i, j \in Int : i + 1 <= j => (i + 1) * N <= j * N
  BY <1>4
<1>18. q * N \in Int /\ v * N \in Int /\ (q + 1) * N \in Int /\ (v + 1) * N \in Int
  BY <1>4, <1>12
<1>19. ~(q + 1 <= v) /\ ~(v + 1 <= q)
  BY <1>10, <1>12, <1>16, <1>17, <1>18
<1>20. q = v
  BY <1>12, <1>19
<1> QED
  BY <1>10, <1>12, <1>20 DEF q, V

(* One carry rounded down: the limb is a digit, and limbs below stay. *)
LEMMA FloorCarryFacts ==
  ASSUME FieldShape, NEW h \in Elements, NEW i \in Limb
  PROVE  LET g == floorCarry(h, i)
         IN  /\ g \in Elements /\ g[i] \in 0 .. pow2(Width(i)) - 1
             /\ \A j \in 0 .. i - 1 : g[j] = h[j]
             /\ Same(Value(g), Value(h), pow2(FieldBits))
<1> DEFINE b == pow2(Width(i))
           c == shiftR(h[i], Width(i))
           e == [h EXCEPT ![i] = @ - c * pow2(Width(i))]
           g == floorCarry(h, i)
           N == pow2(FieldBits)
<1>1. i \in Nat /\ h[i] \in Int /\ b \in Nat \ {0} /\ pow2(Offset(i)) \in Nat
      /\ pow2(Offset(i + 1)) = pow2(Offset(i)) * b
  BY LimbFinite, LowFacts
<1>2. c \in Int /\ h[i] - c * b \in 0 .. b - 1
  BY <1>1, FloorFacts DEF shiftR
<1>3. N \in Int /\ Value(h) \in Int
  BY FieldBitsFacts, ValueInt, Pow2Facts
<1>4. g = IF i = Limbs - 1 THEN e ELSE [e EXCEPT ![i + 1] = @ + c]
  BY DEF floorCarry
<1> HIDE DEF b, c, g
<1>5. CASE i # Limbs - 1
  <2>1. g \in Elements /\ Value(g) = Value(h)
    BY <1>2, <1>4, <1>5, MoveSame
  <2>2. i + 1 \in Limb /\ i + 1 # i /\ \A j \in 0 .. i - 1 : j \in Limb /\ j # i /\ j # i + 1
    <3>1. i \in 0 .. Limbs - 1 /\ Limbs \in Nat
      BY DEF Limb, FieldShape
    <3>2. i + 1 \in 0 .. Limbs - 1
      BY <1>5, <3>1
    <3>3. \A j \in 0 .. i - 1 : j \in 0 .. Limbs - 1 /\ j # i /\ j # i + 1
      BY <3>1
    <3> QED
      BY <1>1, <3>2, <3>3 DEF Limb
  <2>3. g = [e EXCEPT ![i + 1] = @ + c]
    BY <1>4, <1>5
  <2>4. g[i] = h[i] - c * b /\ \A j \in 0 .. i - 1 : g[j] = h[j]
    BY <2>2, <2>3 DEF Elements, b
  <2> QED
    BY <1>2, <1>3, <2>1, <2>4, SameReflexive DEF b, g
<1>6. CASE i = Limbs - 1
  <2> DEFINE a == -(c * b)
  <2>1. g = e
    BY <1>4, <1>6
  <2>2. a \in Int /\ e = [h EXCEPT ![i] = @ + a]
    <3>1. c * b \in Int /\ a \in Int
      BY <1>1, <1>2
    <3>2. h[i] - c * pow2(Width(i)) = h[i] + a
      BY <1>1, <3>1 DEF b
    <3> HIDE DEF a
    <3> QED
      BY <3>1, <3>2
  <2> HIDE DEF a, e
  <2>3. g \in Elements /\ Value(g) = Value(h) + a * pow2(Offset(i))
    BY <2>1, <2>2, ValueChange
  <2>4. i + 1 = Limbs /\ N = pow2(Offset(i)) * b
    BY <1>1, <1>6 DEF FieldBits, FieldShape
  <2>5. a * pow2(Offset(i)) = (-c) * N
    BY <1>1, <1>2, <2>4 DEF a
  <2>6. -c \in Int /\ Value(g) - Value(h) = (-c) * N
    BY <1>2, <1>3, <2>3, <2>5
  <2>7. g[i] = h[i] - c * b /\ \A j \in 0 .. i - 1 : g[j] = h[j]
    <3>1. \A j \in 0 .. i - 1 : j \in Limb /\ j # i
      BY <1>1 DEF Limb, FieldShape
    <3>2. g = [h EXCEPT ![i] = @ + a]
      BY <2>1, <2>2
    <3>3. h[i] + a = h[i] - c * b
      BY <1>1, <1>2 DEF a
    <3> QED
      BY <3>1, <3>2, <3>3 DEF Elements
  <2> QED
    BY <1>2, <2>3, <2>6, <2>7 DEF Same, b, g
<1> QED
  BY <1>5, <1>6

(* What Canonical begins with. *)
Reduced(h) == [h EXCEPT ![0] = @ + 19 * Quotient(h)]

(* Canonical, carry by carry. *)
LEMMA CanonicalSteps ==
  ASSUME FieldShape, NEW h, Reduced(h) \in Elements
  PROVE  \E d \in [0 .. Limbs -> Elements] :
           /\ d[0] = Reduced(h) /\ d[Limbs] = Canonical(h)
           /\ \A k \in 1 .. Limbs : d[k] = floorCarry(d[k - 1], k - 1)
<1> DEFINE n == Limbs
           O == [k \in 1 .. Limbs |-> k - 1]
           z == Reduced(h)
           o == [k \in 1 .. n |-> [e \in Elements |-> floorCarry(e, O[k])]]
           F(g) == [t \in SUBSET DOMAIN O |->
                     IF t = {} THEN z ELSE floorCarry(g[t \ {Max(t)}], O[Max(t)])]
           G == CHOOSE g : g = F(g)
<1>1. n \in Nat /\ DOMAIN O = 1 .. n /\ \A k \in 1 .. n : O[k] = k - 1 /\ O[k] \in Limb
  BY DEF FieldShape, Limb
<1>2. Canonical(h) = G[DOMAIN O]
  BY DEF Canonical, FoldLeft, MapThenFoldSet, Reduced
<1>3. \A e \in Elements, i \in Limb : floorCarry(e, i) \in Elements
  BY FloorCarryFacts
<1>4. z \in Elements
  OBVIOUS
<1> HIDE DEF n, O, z
<1>5. \A e \in Elements, k \in 1 .. n : o[k][e] = floorCarry(e, O[k]) /\ o[k][e] \in Elements
  BY <1>1, <1>3
<1> HIDE DEF o
<1>6. PICK g \in [SUBSET (1 .. n) -> Elements] : IsFold(g, n, z, o)
  BY <1>1, <1>4, <1>5, FoldExists
<1>7. g = F(g)
  <2>1. ASSUME NEW t \in SUBSET (1 .. n)
        PROVE  g[t] = IF t = {} THEN z ELSE floorCarry(g[t \ {Max(t)}], O[Max(t)])
    <3>1. g[t] = IF t = {} THEN z ELSE o[Max(t)][g[t \ {Max(t)}]]
      BY <1>6 DEF IsFold
    <3>2. ASSUME t # {}
          PROVE  o[Max(t)][g[t \ {Max(t)}]] = floorCarry(g[t \ {Max(t)}], O[Max(t)])
      <4>1. Max(t) \in 1 .. n
        BY <1>1, <3>2, MaxIn
      <4>2. g[t \ {Max(t)}] \in Elements
        BY <1>6
      <4> QED
        BY <1>5, <4>1, <4>2
    <3> QED
      BY <3>1, <3>2
  <2> QED
    BY <1>1, <1>6, <2>1
<1>8. G = F(G)
  <2> HIDE DEF F
  <2> QED
    BY <1>7
<1> HIDE DEF G
<1> DEFINE d == [k \in 0 .. n |-> G[1 .. k]]
<1>9. ASSUME NEW k \in 0 .. n
      PROVE  d[k] = IF k = 0 THEN z ELSE floorCarry(d[k - 1], O[k])
  <2>1. 1 .. k \in SUBSET DOMAIN O /\ (1 .. k = {} <=> k = 0) /\ k \in Nat
    BY <1>1
  <2>2. G[1 .. k] = IF 1 .. k = {} THEN z
                    ELSE floorCarry(G[(1 .. k) \ {Max(1 .. k)}], O[Max(1 .. k)])
    BY <1>8, <2>1
  <2>3. k # 0 => Max(1 .. k) = k /\ (1 .. k) \ {k} = 1 .. k - 1
    BY <2>1, MaxUpTo
  <2>4. k # 0 => d[k - 1] = G[1 .. k - 1]
    BY <1>1, <2>1
  <2> QED
    BY <2>1, <2>2, <2>3, <2>4
<1>10. d[n] = Canonical(h) /\ d = [k \in 0 .. n |-> d[k]]
  BY <1>1, <1>2
<1> HIDE DEF d
<1> DEFINE T == {k \in Nat : k <= n => d[k] \in Elements}
<1>11. 0 \in T
  BY <1>1, <1>4, <1>9
<1>12. ASSUME NEW k \in Nat, k \in T
       PROVE  k + 1 \in T
  <2> SUFFICES ASSUME k + 1 <= n PROVE d[k + 1] \in Elements
    OBVIOUS
  <2>1. k + 1 \in 0 .. n /\ k + 1 \in 1 .. n /\ k + 1 # 0 /\ (k + 1) - 1 = k
    BY <1>1
  <2>2. d[k] \in Elements
    BY <1>1, <1>12
  <2>3. d[k + 1] = floorCarry(d[k], O[k + 1])
    BY <1>9, <2>1
  <2> QED
    BY <1>1, <1>3, <2>1, <2>2, <2>3
<1> HIDE DEF T
<1>13. \A k \in 0 .. n : d[k] \in Elements
  <2>1. Nat \subseteq T
    BY <1>11, <1>12, NatSetInduction
  <2> QED
    BY <1>1, <2>1 DEF T
<1>14. d \in [0 .. n -> Elements]
  BY <1>10, <1>13
<1>15. d[0] = z /\ \A k \in 1 .. n : d[k] = floorCarry(d[k - 1], O[k])
  <2>1. 0 \in 0 .. n /\ \A k \in 1 .. n : k \in 0 .. n /\ k # 0
    BY <1>1
  <2> QED
    BY <1>9, <2>1
<1>16. \A k \in 1 .. n : d[k] = floorCarry(d[k - 1], k - 1)
  BY <1>1, <1>15
<1> QED
  BY <1>10, <1>14, <1>15, <1>16 DEF n, z

(* Digits stand for a number below the next place. *)
LEMMA DigitsBelow ==
  ASSUME FieldShape, NEW h \in Elements, \A i \in Limb : h[i] \in 0 .. pow2(Width(i)) - 1
  PROVE  Value(h) \in 0 .. pow2(FieldBits) - 1
<1>1. Limbs \in Nat /\ Limb = 0 .. Limbs - 1
  BY DEF FieldShape, Limb
<1> DEFINE T == {k \in Nat : k <= Limbs => Low(h, k) \in Nat /\ pow2(Offset(k)) \in Nat /\ Low(h, k) < pow2(Offset(k))}
<1>2. 0 \in T
  <2>1. Offset(0) = 0 /\ pow2(0) = 1 /\ Low(h, 0) = 0
    BY OffsetFacts, Pow2Facts, LowFacts
  <2> QED
    BY <2>1
<1>3. ASSUME NEW k \in Nat, k \in T
      PROVE  k + 1 \in T
  <2> SUFFICES ASSUME k + 1 <= Limbs
               PROVE  Low(h, k + 1) \in Nat /\ pow2(Offset(k + 1)) \in Nat /\ Low(h, k + 1) < pow2(Offset(k + 1))
    OBVIOUS
  <2> DEFINE A == pow2(Offset(k))
             b == pow2(Width(k))
             v == h[k]
             L == Low(h, k)
  <2>1. k \in Limb /\ k <= Limbs
    BY <1>1
  <2>2. /\ A \in Nat \ {0} /\ b \in Nat \ {0}
        /\ Low(h, k + 1) = L + v * A /\ pow2(Offset(k + 1)) = A * b
    BY <2>1, LowFacts
  <2>3. L \in Nat /\ L < A
    BY <1>3, <2>1
  <2>4. v \in 0 .. b - 1
    BY <2>1
  <2> HIDE DEF A, b, v, L
  <2>5. v \in Nat /\ v + 1 <= b
    BY <2>2, <2>4
  <2>6. (v + 1) * A <= b * A /\ (v + 1) * A = v * A + A /\ b * A = A * b
    <3>1. \A i, j \in Nat : i <= j => i * A <= j * A
      BY <2>2
    <3> QED
      BY <2>2, <2>5, <3>1
  <2>7. v * A \in Nat /\ A * b \in Nat
    BY <2>2, <2>5
  <2>8. L + v * A \in Nat /\ L + v * A < A * b
    BY <2>2, <2>3, <2>6, <2>7
  <2> QED
    BY <2>2, <2>7, <2>8
<1> HIDE DEF T
<1>4. Limbs \in T
  BY <1>1, <1>2, <1>3, NatSetInduction
<1>5. Low(h, Limbs) = Value(h) /\ Offset(Limbs) = FieldBits
  BY LowFacts DEF FieldBits
<1> QED
  BY <1>1, <1>4, <1>5 DEF T

(* Canonical leaves digits, of a number congruent modulo 2^FieldBits. *)
LEMMA CanonicalValue ==
  ASSUME FieldShape, NEW h, Reduced(h) \in Elements
  PROVE  /\ Value(Canonical(h)) \in 0 .. pow2(FieldBits) - 1
         /\ Same(Value(Canonical(h)), Value(Reduced(h)), pow2(FieldBits))
         /\ Canonical(h) \in Elements /\ \A i \in Limb : Canonical(h)[i] \in 0 .. pow2(Width(i)) - 1
<1> DEFINE n == Limbs
           z == Reduced(h)
           N == pow2(FieldBits)
<1>1. PICK d \in [0 .. n -> Elements] :
        /\ d[0] = z /\ d[n] = Canonical(h)
        /\ \A k \in 1 .. n : d[k] = floorCarry(d[k - 1], k - 1)
  BY CanonicalSteps
<1>2. n \in Nat /\ Limb = 0 .. n - 1 /\ N \in Int
  <2>1. n \in Nat /\ Limb = 0 .. n - 1
    BY DEF FieldShape, Limb
  <2>2. N \in Int
    BY FieldBitsFacts, Pow2Facts
  <2> QED
    BY <2>1, <2>2
<1> HIDE DEF n, z, N
<1> DEFINE T == {k \in Nat : k <= n => /\ Same(Value(d[k]), Value(z), N)
                                       /\ \A i \in 0 .. k - 1 : d[k][i] \in 0 .. pow2(Width(i)) - 1}
<1>3. 0 \in T
  <2>1. d[0] = z /\ z \in Elements
    BY <1>1, <1>2
  <2>2. Same(Value(z), Value(z), N)
    BY <1>2, <2>1, ValueInt, SameReflexive
  <2> QED
    BY <2>1, <2>2
<1>4. ASSUME NEW k \in Nat, k \in T
      PROVE  k + 1 \in T
  <2> SUFFICES ASSUME k + 1 <= n
               PROVE  /\ Same(Value(d[k + 1]), Value(z), N)
                      /\ \A i \in 0 .. (k + 1) - 1 : d[k + 1][i] \in 0 .. pow2(Width(i)) - 1
    OBVIOUS
  <2>1. k \in Limb /\ k \in 0 .. n /\ k + 1 \in 0 .. n /\ k + 1 \in 1 .. n /\ (k + 1) - 1 = k /\ k <= n
        /\ 0 \in 0 .. n
    BY <1>2
  <2>2. d[k] \in Elements /\ d[k + 1] \in Elements /\ d[k + 1] = floorCarry(d[k], k) /\ z \in Elements
    BY <1>1, <2>1
  <2>3. Same(Value(d[k]), Value(z), N) /\ \A i \in 0 .. k - 1 : d[k][i] \in 0 .. pow2(Width(i)) - 1
    BY <1>4, <2>1
  <2>4. /\ d[k + 1][k] \in 0 .. pow2(Width(k)) - 1
        /\ \A j \in 0 .. k - 1 : d[k + 1][j] = d[k][j]
        /\ Same(Value(d[k + 1]), Value(d[k]), N)
    BY <2>1, <2>2, FloorCarryFacts DEF N
  <2>5. Same(Value(d[k + 1]), Value(z), N)
    BY <1>2, <2>2, <2>3, <2>4, ValueInt, SameTransitive
  <2>6. \A i \in 0 .. k : i = k \/ i \in 0 .. k - 1
    OBVIOUS
  <2> QED
    BY <2>1, <2>3, <2>4, <2>5, <2>6
<1> HIDE DEF T
<1>5. n \in T
  BY <1>2, <1>3, <1>4, NatSetInduction
<1>6. d[n] \in Elements /\ Same(Value(d[n]), Value(z), N) /\ \A i \in Limb : d[n][i] \in 0 .. pow2(Width(i)) - 1
  BY <1>1, <1>2, <1>5 DEF T
<1>7. Value(d[n]) \in 0 .. N - 1
  BY <1>6, DigitsBelow DEF N
<1> QED
  BY <1>1, <1>6, <1>7 DEF N, z

(* Canonical begins with 19 times the quotient more. *)
LEMMA ReducedValue ==
  ASSUME FieldShape, FieldRoom, NEW h, NEW r, NEW w \in 1 .. MaxWeight, Stands(h, r), Bounded(h, w)
  PROVE  Reduced(h) \in Elements /\ Value(Reduced(h)) = Value(h) + (19 * Quotient(h)) * pow2(Offset(0))
<1> DEFINE a == 19 * Quotient(h)
<1>1. a \in Int /\ h \in Elements /\ 0 \in Limb
  BY QuotientExact, LimbFinite DEF Stands
<1>2. Reduced(h) = [h EXCEPT ![0] = @ + a]
  BY DEF Reduced
<1> HIDE DEF a
<1>3. Reduced(h) \in Elements /\ Value(Reduced(h)) = Value(h) + a * pow2(Offset(0))
  BY <1>1, <1>2, ValueChange
<1> QED
  BY <1>3 DEF a

(* FeToBytes gives the number below p. *)
LEMMA ToBytesExact ==
  ASSUME FieldShape, FieldRoom, NEW h, NEW r, NEW w \in 1 .. MaxWeight, Stands(h, r), Bounded(h, w)
  PROVE  FeToBytes(h) = r
<1> DEFINE N == pow2(FieldBits)
           q == Quotient(h)
           V == Value(h)
<1>1. h \in Elements /\ r \in 0 .. p - 1 /\ r \in Int /\ h \in [Limb -> Int]
  BY FieldBitsFacts DEF Stands, Elements
<1>2. q \in Int /\ V = q * p + r
  BY QuotientExact
<1>3. p \in Nat \ {0} /\ N = p + 19 /\ N \in Nat \ {0}
  BY FieldBitsFacts
<1>4. 0 \in Limb /\ Offset(0) = 0 /\ pow2(0) = 1
  BY LimbFinite, OffsetFacts, Pow2Facts
<1>5. Reduced(h) \in Elements /\ Value(Reduced(h)) = V + (19 * q) * pow2(Offset(0))
  BY ReducedValue
<1> DEFINE C == Value(Canonical(h))
           R == Value(Reduced(h))
<1>6. C \in 0 .. N - 1 /\ Same(C, R, N)
  BY <1>5, CanonicalValue
<1>7. R \in Int /\ C \in Int
  BY <1>3, <1>5, <1>6, ValueInt
<1> HIDE DEF N, q, V, C, R
<1>8. R = q * N + r
  <2>1. (19 * q) * pow2(Offset(0)) = 19 * q /\ q * (p + 19) = q * p + 19 * q
    BY <1>2, <1>3, <1>4
  <2>2. R = V + 19 * q
    BY <1>5, <2>1 DEF R
  <2>3. q * p \in Int
    BY <1>2, <1>3
  <2> QED
    BY <1>1, <1>2, <1>3, <2>1, <2>2, <2>3
<1>9. Same(R, r, N)
  <2>1. R - r = q * N
    <3>1. q * N \in Int
      BY <1>2, <1>3
    <3> QED
      BY <1>1, <1>8, <3>1
  <2> QED
    BY <1>2, <2>1 DEF Same
<1>10. Same(C, r, N) /\ r \in 0 .. N - 1
  BY <1>1, <1>3, <1>6, <1>7, <1>9, SameTransitive
<1>11. C = r
  BY <1>3, <1>6, <1>10, SameUnique
<1> QED
  BY <1>11 DEF FeToBytes, C

(* What FeToBytes writes into its argument: the same number, in limbs that weigh
   as much as two products.                                                 *)
LEMMA CanonicalFits ==
  ASSUME FieldShape, FieldRoom, NEW h, NEW r, NEW w \in 1 .. MaxWeight, Stands(h, r), Bounded(h, w)
  PROVE  Stands(Canonical(h), r) /\ Bounded(Canonical(h), 2)
<1> DEFINE c == Canonical(h)
<1>1. Reduced(h) \in Elements
  BY ReducedValue
<1>2. c \in Elements /\ \A i \in Limb : c[i] \in 0 .. pow2(Width(i)) - 1
  BY <1>1, CanonicalValue
<1>3. Value(c) = r
  BY ToBytesExact DEF FeToBytes
<1> HIDE DEF c
<1>4. Stands(c, r)
  <2>1. r \in 0 .. p - 1 /\ r \in Int /\ p \in Int
    BY FieldBitsFacts DEF Stands
  <2>2. Same(r, r, p)
    BY <2>1, SameReflexive
  <2> QED
    BY <1>2, <1>3, <2>1, <2>2 DEF Stands
<1>5. ASSUME NEW i \in Limb PROVE Within(10 * c[i], 11 * (2 * HalfRange(i)))
  <2>1. i \in Nat
    BY LimbFinite
  <2>2. HalfRange(i) \in Nat \ {0} /\ pow2(Width(i)) = 2 * HalfRange(i)
    BY <2>1, HalfFacts
  <2>3. c[i] \in 0 .. 2 * HalfRange(i) - 1
    BY <1>2, <2>2
  <2> QED
    BY <2>2, <2>3 DEF Within
<1> QED
  BY <1>4, <1>5 DEF Bounded, c

-----------------------------------------------------------------------------
(* The invariant: limbs that stand for their numbers, and small ones. *)

(* A register whose limbs stand for its number and are as small as its weight
   says.                                                                   *)
Fits(r) == Stands(r.fe, r.val) /\ r.weight \in 1 .. MaxWeight /\ Bounded(r.fe, r.weight)

BoundInv == Fits(x) /\ Fits(y)

(* A call that leaves a register that fits. *)
LEMMA ResultFits ==
  ASSUME BoundInv, NEW fe, NEW val, NEW weight, Result(fe, val, weight),
         Stands(fe, val), weight \in 1 .. MaxWeight, Bounded(fe, weight)
  PROVE  BoundInv'
<1> DEFINE r == [fe |-> fe, val |-> val, weight |-> weight]
<1>1. Fits(r)
  BY DEF Fits
<1>2. x' = r /\ y' = x
  BY DEF Result
<1> HIDE DEF r
<1>3. Fits(x)' /\ Fits(y)'
  <2>1. Fits(x)' <=> Fits(r)
    BY <1>2 DEF Fits
  <2>2. Fits(y)' <=> Fits(x)
    BY <1>2 DEF Fits
  <2> QED
    BY <1>1, <2>1, <2>2 DEF BoundInv
<1> QED
  BY <1>3 DEF BoundInv

(* The registers that are read first fit. *)
LEMMA InitBoundInv == FieldShape /\ FieldRoom /\ Init => BoundInv
<1> SUFFICES ASSUME FieldShape, FieldRoom, Init PROVE BoundInv
  OBVIOUS
<1>1. PICK a \in FieldInputs, b \in FieldInputs : x = Read(a) /\ y = Read(b)
  BY DEF Init
<1>2. a \in Nat /\ b \in Nat
  BY DEF FieldShape
<1>3. ASSUME NEW c \in Nat PROVE Fits(Read(c))
  <2>1. Stands(Read(c).fe, Read(c).val)
    BY ReadStands
  <2>2. Read(c).fe = FeFromBytes(c) /\ Read(c).weight = 1
    BY DEF Read
  <2>3. Bounded(FeFromBytes(c), 1) /\ 1 \in 1 .. MaxWeight
    BY SourcesBounded, RoomFacts
  <2> QED
    BY <2>1, <2>2, <2>3 DEF Fits
<1> QED
  BY <1>1, <1>2, <1>3 DEF BoundInv

(* Every call keeps the registers in their bounds. *)
LEMMA NextBoundInv == FieldShape /\ FieldRoom /\ BoundInv /\ [Next]_vars => BoundInv'
<1> SUFFICES ASSUME FieldShape, FieldRoom, BoundInv, [Next]_vars PROVE BoundInv'
  OBVIOUS
<1>1. Stands(x.fe, x.val) /\ Stands(y.fe, y.val)
  BY DEF BoundInv, Fits
<1>2. UNCHANGED <<x, y>> => BoundInv'
  BY DEF BoundInv, Fits
<1> DEFINE u == x.weight
           v == y.weight
<1>3. /\ x.fe \in Elements /\ y.fe \in Elements /\ u \in 1 .. MaxWeight /\ v \in 1 .. MaxWeight
      /\ Bounded(x.fe, u) /\ Bounded(y.fe, v) /\ MaxWeight \in Nat \ {0} /\ 1 \in 1 .. MaxWeight
  <2>1. MaxWeight \in Nat \ {0}
    BY RoomFacts
  <2> QED
    BY <1>1, <2>1 DEF BoundInv, Fits, Stands
<1>4. /\ Bounded(FeMul(x.fe, y.fe), 1) /\ Bounded(FeSquare(x.fe), 1) /\ Bounded(FeSquare2(x.fe), 1)
      /\ Bounded(FeAdd(x.fe, y.fe), u + v) /\ Bounded(FeSub(x.fe, y.fe), u + v) /\ Bounded(FeNeg(x.fe), u)
  BY <1>3, OperationsBounded
<1>5. u + v <= MaxWeight => u + v \in 1 .. MaxWeight
  BY <1>3
<1>6. CASE Constant
  BY <1>3, <1>6, ConstantStands, SourcesBounded, ResultFits DEF Constant
<1>7. CASE Add
  <2> DEFINE n == (x.val + y.val) % p
  <2>1. Result(FeAdd(x.fe, y.fe), n, u + v) /\ Stands(FeAdd(x.fe, y.fe), n) /\ u + v \in 1 .. MaxWeight
    BY <1>1, <1>5, <1>7, StandsFacts DEF Add
  <2> HIDE DEF n
  <2> QED
    BY <1>4, <2>1, ResultFits
<1>8. CASE Sub
  <2> DEFINE n == (x.val - y.val) % p
  <2>1. Result(FeSub(x.fe, y.fe), n, u + v) /\ Stands(FeSub(x.fe, y.fe), n) /\ u + v \in 1 .. MaxWeight
    BY <1>1, <1>5, <1>8, StandsFacts DEF Sub
  <2> HIDE DEF n
  <2> QED
    BY <1>4, <2>1, ResultFits
<1>9. CASE Neg
  <2> DEFINE n == (-x.val) % p
  <2>1. Stands(FeNeg(x.fe), n) /\ Result(FeNeg(x.fe), n, u)
    BY <1>1, <1>9, StandsFacts DEF Neg
  <2> HIDE DEF n
  <2> QED
    BY <1>3, <1>4, <2>1, ResultFits
<1>10. CASE Mul
  BY <1>1, <1>3, <1>4, <1>10, StandsFacts, ResultFits DEF Mul
<1>11. CASE Square
  BY <1>1, <1>3, <1>4, <1>11, StandsFacts, ResultFits DEF Square
<1>12. CASE Square2
  <2> DEFINE n == fmul(x.val, (2 * x.val) % p)
  <2>1. Stands(FeSquare2(x.fe), n) /\ Result(FeSquare2(x.fe), n, 1)
    BY <1>1, <1>12, StandsFacts DEF Square2
  <2> HIDE DEF n
  <2> QED
    BY <1>3, <1>4, <2>1, ResultFits
<1>13. CASE CMove
  <2>1. PICK b \in {0, 1} :
          Result(FeCMove(x.fe, y.fe, b), (IF b = 1 THEN y ELSE x).val, (IF b = 1 THEN y ELSE x).weight)
    BY <1>13 DEF CMove
  <2> DEFINE r == IF b = 1 THEN y ELSE x
  <2>2. Fits(r) /\ FeCMove(x.fe, y.fe, b) = r.fe
    BY DEF FeCMove, BoundInv
  <2> HIDE DEF r
  <2>3. Result(r.fe, r.val, r.weight)
    BY <2>1, <2>2 DEF r
  <2> QED
    BY <2>2, <2>3, ResultFits DEF Fits
<1>14. CASE ToBytes
  <2> DEFINE r == [fe |-> Canonical(x.fe), val |-> x.val, weight |-> 2]
  <2>1. Stands(Canonical(x.fe), x.val) /\ Bounded(Canonical(x.fe), 2)
    BY <1>1, <1>3, CanonicalFits
  <2>2. 2 \in 1 .. MaxWeight
    BY RoomFacts
  <2>3. Fits(r)
    BY <2>1, <2>2 DEF Fits
  <2>4. x' = r /\ y' = y
    BY <1>14 DEF ToBytes
  <2> HIDE DEF r
  <2>5. (Fits(x)' <=> Fits(r)) /\ (Fits(y)' <=> Fits(y))
    BY <2>4 DEF Fits
  <2> QED
    BY <2>3, <2>5 DEF BoundInv
<1>15. CASE MulAdd
  BY <1>2, <1>15 DEF MulAdd
<1>16. CASE Reduce
  BY <1>2, <1>16 DEF Reduce
<1>17. CASE UNCHANGED vars
  BY <1>2, <1>17 DEF vars
<1> QED
  BY <1>6, <1>7, <1>8, <1>9, <1>10, <1>11, <1>12, <1>13, <1>14, <1>15, <1>16, <1>17 DEF Next

(* The bounds are those of LimbsBounded. *)
LEMMA BoundInvBounds == FieldShape /\ FieldRoom /\ BoundInv => LimbsBounded
<1> SUFFICES ASSUME FieldShape, FieldRoom, NEW r \in {x, y}, Fits(r), NEW i \in Limb
             PROVE  /\ 10 * r.fe[i] <= 11 * r.weight * pow2(Width(i) - 1)
                    /\ -10 * r.fe[i] <= 11 * r.weight * pow2(Width(i) - 1)
  BY DEF LimbsBounded, BoundInv
<1> DEFINE a == r.fe[i]
           w == r.weight
           P == HalfRange(i)
<1>1. a \in Int /\ i \in Nat /\ MaxWeight \in Nat /\ w \in 1 .. MaxWeight
  BY LimbFinite, RoomFacts DEF Fits, Stands, Elements
<1>2. P \in Nat /\ P = pow2(Width(i) - 1)
  BY <1>1, HalfFacts DEF HalfRange
<1>3. Within(10 * a, 11 * (w * P))
  BY DEF Fits, Bounded
<1> HIDE DEF a, w, P
<1>4. w \in Int /\ 11 * w * P = 11 * (w * P) /\ -10 * a = -(10 * a)
  BY <1>1, <1>2
<1>5. 10 * a <= 11 * w * P /\ -10 * a <= 11 * w * P
  BY <1>1, <1>2, <1>3, <1>4 DEF Within
<1> QED
  BY <1>2, <1>5 DEF a, w

(* For every shape of limbs with room, that of the code among them, and any
   sequence of calls, of any length: the limbs that FeAdd, FeSub, FeNeg, FeMul,
   FeSquare, FeSquare2 and FeCMove leave, and those that FeToBytes writes into
   its argument, stand modulo p for the number that was to be computed.     *)
THEOREM LimbsAreExact == ASSUME FieldShape, FieldRoom PROVE Spec => []LimbsExact
<1>1. Init => BoundInv
  BY InitBoundInv
<1>2. BoundInv /\ [Next]_vars => BoundInv'
  BY NextBoundInv
<1>3. BoundInv => LimbsExact
  <2> SUFFICES ASSUME BoundInv PROVE LimbsExact
    OBVIOUS
  <2>1. p \in Nat \ {0} /\ p \in Int
    BY FieldBitsFacts
  <2>2. ASSUME NEW fe, NEW val, Stands(fe, val)
        PROVE  (Value(fe) - val) % p = 0
    <3>1. Value(fe) \in Int /\ val \in Int /\ Same(Value(fe), val, p)
      BY <2>1, <2>2, ValueInt DEF Stands
    <3> QED
      BY <2>1, <3>1, SameIsMod
  <2> QED
    BY <2>2 DEF BoundInv, Fits, LimbsExact
<1> QED
  BY <1>1, <1>2, <1>3, PTL DEF Spec

(* The bounds in the comments of FeMul and FeSquare, for every shape of limbs
   with room, that of the code among them: in any sequence of calls, in which
   sums of products and limbs that FeToBytes wrote are multiplied again, a
   product's limbs are at most 1.1 times half their range, and those of the
   weight w at most w times as large.                                       *)
THEOREM LimbsAreBounded == ASSUME FieldShape, FieldRoom PROVE Spec => []LimbsBounded
<1>1. Init => BoundInv
  BY InitBoundInv
<1>2. BoundInv /\ [Next]_vars => BoundInv'
  BY NextBoundInv
<1>3. BoundInv => LimbsBounded
  BY BoundInvBounds
<1> QED
  BY <1>1, <1>2, <1>3, PTL DEF Spec

(* The limbs of the code, ten of 26 and 25 bits, have the room that a sum of
   three products takes.                                                    *)
THEOREM CodeHasRoom ==
  ASSUME Limbs = 10, Wide = 26, MaxWeight = 3
  PROVE  FieldRoom
<1>1. pow2(24) = 16777216
  <2>1. \A a, b \in Nat : pow2(a + b) = pow2(a) * pow2(b)
    BY Pow2Add
  <2>2. pow2(3 + 3) = 64
    BY <2>1, SmallPowers
  <2>3. pow2(6 + 6) = 4096
    BY <2>1, <2>2
  <2>4. pow2(12 + 12) = 16777216
    BY <2>1, <2>3
  <2> QED
    BY <2>4
<1> QED
  BY <1>1 DEF FieldRoom

(* The encoding in every sequence of calls, for every shape of limbs with room,
   that of the code among them: FeToBytes gives the one number below p that the
   calls compute, however the limbs represent it, and the sign and the zero
   test follow it.                                                          *)
THEOREM BytesAreExact == ASSUME FieldShape, FieldRoom PROVE Spec => []BytesExact
<1>1. Init => BoundInv
  BY InitBoundInv
<1>2. BoundInv /\ [Next]_vars => BoundInv'
  BY NextBoundInv
<1>3. BoundInv => BytesExact
  <2> SUFFICES ASSUME BoundInv, NEW r \in {x, y}
               PROVE  /\ FeToBytes(r.fe) = r.val
                      /\ FeIsNegative(r.fe) = r.val % 2
                      /\ FeIsNonZero(r.fe) = (IF r.val = 0 THEN 0 ELSE 1)
    BY DEF BytesExact
  <2>1. Stands(r.fe, r.val) /\ r.weight \in 1 .. MaxWeight /\ Bounded(r.fe, r.weight)
    BY DEF BoundInv, Fits
  <2>2. FeToBytes(r.fe) = r.val
    BY <2>1, ToBytesExact
  <2> QED
    BY <2>2 DEF FeIsNegative, FeIsNonZero
<1> QED
  BY <1>1, <1>2, <1>3, PTL DEF Spec

(* What the code computes of limbs before the carries: 19 times a limb in
   32 bits, products and twice a square in 64 bits, with a quarter of the range
   left to the carries.  No sum wraps around, so that the model's integers are
   those of the code.                                                       *)
NoOverflow ==
  \A r, t \in {x, y}, k \in Limb :
    /\ Within(19 * r.fe[k], pow2(31) - 1)
    /\ Within(Products(r.fe, t.fe)[k], 3 * pow2(61))
    /\ Within(2 * feSquare(r.fe)[k], 3 * pow2(61))

(* No call of FeMul, FeSquare or FeSquare2 on limbs of the code's shape
   overflows, in any sequence of calls, those that go on with what FeToBytes
   wrote into its argument included, as FromBytes does.                      *)
THEOREM CodeDoesNotOverflow ==
  ASSUME FieldShape, Limbs = 10, Wide = 26, MaxWeight = 3
  PROVE  Spec => []NoOverflow
<1>1. FieldRoom
  BY CodeHasRoom
<1>2. Init => BoundInv
  BY <1>1, InitBoundInv
<1>3. BoundInv /\ [Next]_vars => BoundInv'
  BY <1>1, NextBoundInv
<1>4. BoundInv => NoOverflow
  <2> SUFFICES ASSUME BoundInv, NEW r \in {x, y}, NEW t \in {x, y}, NEW k \in Limb
               PROVE  /\ Within(19 * r.fe[k], pow2(31) - 1)
                      /\ Within(Products(r.fe, t.fe)[k], 3 * pow2(61))
                      /\ Within(2 * feSquare(r.fe)[k], 3 * pow2(61))
    BY DEF NoOverflow
  <2>1. Fits(r) /\ Fits(t)
    BY DEF BoundInv
  <2>2. /\ r.fe \in Elements /\ r.weight \in 1 .. MaxWeight /\ Bounded(r.fe, r.weight)
        /\ t.fe \in Elements /\ t.weight \in 1 .. MaxWeight /\ Bounded(t.fe, t.weight)
    BY <2>1 DEF Fits, Stands
  <2>3. pow2(24) = 16777216 /\ Least = 16777216
    <3>1. \A a, b \in Nat : pow2(a + b) = pow2(a) * pow2(b)
      BY Pow2Add
    <3>2. pow2(3 + 3) = 64
      BY <3>1, SmallPowers
    <3>3. pow2(6 + 6) = 4096
      BY <3>1, <3>2
    <3>4. pow2(12 + 12) = 16777216
      BY <3>1, <3>3
    <3> QED
      BY <3>4 DEF Least
  <2>4. pow2(31) = 128 * pow2(24) /\ pow2(61) = 8192 * (Least * Least)
    <3>1. \A a, b \in Nat : pow2(a + b) = pow2(a) * pow2(b)
      BY Pow2Add
    <3>2. pow2(5 + 2) = 128
      BY <3>1, SmallPowers
    <3>3. pow2(7 + 24) = pow2(7) * pow2(24)
      BY <3>1
    <3>4. pow2(5 + 5) = 1024
      BY <3>1, SmallPowers
    <3>5. pow2(10 + 3) = 8192
      BY <3>1, <3>4, SmallPowers
    <3>6. pow2(24 + 24) = pow2(24) * pow2(24)
      BY <3>1
    <3>7. pow2(13 + 48) = pow2(13) * pow2(48)
      BY <3>1
    <3>8. pow2(7) = 128 /\ pow2(13) = 8192 /\ pow2(48) = Least * Least /\ pow2(31) = pow2(7) * pow2(24)
          /\ pow2(61) = pow2(13) * pow2(48)
      BY <2>3, <3>2, <3>3, <3>5, <3>6, <3>7
    <3> QED
      BY <3>8
  <2>5. Within(19 * r.fe[k], pow2(31) - 1)
    <3>1. Within(10 * r.fe[k], 22 * (MaxWeight * Least)) /\ r.fe[k] \in Int
      BY <1>1, <2>2, BoundedLimb
    <3>2. 22 * (MaxWeight * Least) = 1107296256 /\ pow2(31) = 2147483648
      BY <2>3, <2>4
    <3> QED
      BY <3>1, <3>2 DEF Within
  <2>6. feSquare(r.fe) = Products(r.fe, r.fe)
    BY <2>2, SquareIsProduct
  <2>7. Bulk = 33120
    BY DEF Bulk
  <2> DEFINE L == Least * Least
             P == Products(r.fe, t.fe)[k]
             S == Products(r.fe, r.fe)[k]
  <2>8. Within(4 * P, 33120 * L) /\ P \in Int
    BY <1>1, <2>2, <2>7, ProductsBounded
  <2>9. Within(4 * S, 33120 * L) /\ S \in Int
    BY <1>1, <2>2, <2>7, ProductsBounded
  <2>10. Least \in Nat
    BY LimbFinite, HalfFacts
  <2>11. L \in Nat
    BY <2>10
  <2> HIDE DEF L, P, S
  <2>12. 3 * pow2(61) = 24576 * L
    <3>1. pow2(61) = 8192 * L
      BY <2>4 DEF L
    <3> QED
      BY <2>11, <3>1
  <2>13. Within(P, 24576 * L) /\ Within(2 * S, 24576 * L)
    BY <2>8, <2>9, <2>11 DEF Within
  <2> QED
    BY <2>5, <2>6, <2>12, <2>13 DEF P, S
<1> QED
  BY <1>2, <1>3, <1>4, PTL DEF Spec
=============================================================================
