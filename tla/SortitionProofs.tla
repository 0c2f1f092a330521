-------------------------- MODULE SortitionProofs ---------------------------
(***************************************************************************)
(* subUsers selects the right number of sub-users, for any number of       *)
(* tokens, any probability and any hash, whatever is in the caches; and    *)
(* the common coin depends on the set of votes at hand only.               *)
(*                                                                         *)
(* The recursive functions behind powers, factorials, Exp and the folds    *)
(* are shown to exist, and to compute what they should, by minimal         *)
(* counterexamples.  The last sum, which CDF returns as 1 without adding   *)
(* anything up, is the binomial theorem.                                   *)
(***************************************************************************)
EXTENDS Sortition, SumProofs, TLAPS

(* Factorials and roots. *)

(* The factorial exists, and satisfies its definition. *)
LEMMA FactorialUnfold ==
  ASSUME NEW n \in Nat
  PROVE  factorial[n] = IF n = 0 THEN 1 ELSE n * factorial[n - 1]
<1> DEFINE m == [k \in Nat |-> k]
           G == [k \in Nat |-> Product(k, m)]
           F(g) == [k \in Nat |-> IF k = 0 THEN 1 ELSE k * g[k - 1]]
<1>1. ASSUME NEW k \in Nat
      PROVE  G[k] = IF k = 0 THEN 1 ELSE k * G[k - 1]
  <2>1. m[k] = k
    OBVIOUS
  <2>2. k # 0 => G[k - 1] = Product(k - 1, m)
    OBVIOUS
  <2> HIDE DEF m
  <2> QED
    BY <2>1, <2>2, ProductUnfold
<1>2. G = F(G)
  BY <1>1
<1>3. factorial = CHOOSE g : g = F(g)
  BY DEF factorial
<1> HIDE DEF F, G
<1>4. factorial = F(factorial)
  BY <1>2, <1>3
<1> QED
  BY <1>4, Zenon DEF F

(* Factorials are positive, so that choose divides by none that is 0. *)
LEMMA FactorialPos ==
  ASSUME NEW n \in Nat
  PROVE  factorial[n] \in Nat \ {0}
<1> DEFINE T == {i \in Nat : factorial[i] \notin Nat \ {0}}
<1> SUFFICES ASSUME T # {} PROVE FALSE
  OBVIOUS
<1>1. PICK i \in T : \A r \in T : i <= r
  <2>1. T \subseteq Nat
    OBVIOUS
  <2> HIDE DEF T
  <2> QED
    BY <2>1, LeastNat
<1>2. i \in Nat /\ factorial[i] = IF i = 0 THEN 1 ELSE i * factorial[i - 1]
  BY <1>1, FactorialUnfold
<1>3. i # 0 => i - 1 \in Nat /\ i - 1 \notin T
  BY <1>1, <1>2
<1>4. i # 0 => factorial[i - 1] \in Nat \ {0}
  BY <1>3
<1>5. \A a, b \in Nat \ {0} : a * b \in Nat \ {0}
  OBVIOUS
<1> HIDE DEF T
<1>6. factorial[i] \in Nat \ {0}
  BY <1>2, <1>4, <1>5
<1> QED
  BY <1>1, <1>6 DEF T

(* A probability has a natural numerator. *)
LEMMA ProbabilityNat ==
  ASSUME NEW k \in 0 .. N
  PROVE  Probability(k) \in Nat
<1>1. k \in Nat /\ N \in Nat /\ N - k \in Nat /\ pn \in Nat /\ pd - pn \in Nat
  BY SortitionAssumption
<1>2. factorial[N] \in Nat \ {0} /\ factorial[k] \in Nat \ {0} /\ factorial[N - k] \in Nat \ {0}
  BY <1>1, FactorialPos
<1>3. \A a, b, c \in Nat \ {0} : a \div (b * c) \in Nat
  <2>1. \A b, c \in Nat \ {0} : b * c \in Nat \ {0}
    OBVIOUS
  <2>2. \A a, d \in Nat \ {0} : a \div d \in Nat
    OBVIOUS
  <2> QED
    BY <2>1, <2>2
<1>4. choose(N, k) \in Nat
  BY <1>2, <1>3 DEF choose
<1>5. Power(pn, k) \in Nat /\ Power(pd - pn, N - k) \in Nat
  BY <1>1, PowerNat
<1>6. \A a, b, c \in Nat : a * b * c \in Nat
  OBVIOUS
<1> QED
  BY <1>4, <1>5, <1>6 DEF Probability

(* From 2 on the root is neither 0 nor the number itself, so both exponents that
   Exp splits y into are smaller than y.                                   *)
LEMMA SqrtSplits ==
  ASSUME NEW y \in Nat, y >= 2
  PROVE  Sqrt(y) \in 1 .. y - 1
<1> DEFINE T == {s \in Nat : s * s > y}
<1>1. PICK s \in T : \A r \in T : s <= r
  <2>1. y + 1 \in T
    OBVIOUS
  <2>2. T \subseteq Nat
    OBVIOUS
  <2> HIDE DEF T
  <2> QED
    BY <2>1, <2>2, LeastNat
<1>2. s \in Nat /\ s * s > y /\ s # 0
  BY <1>1
<1>3. y \in T
  <2>1. y * y >= 2 * y
    OBVIOUS
  <2> QED
    BY <2>1
<1>4. s - 1 \in 0 .. y /\ ~((s - 1) * (s - 1) > y)
  BY <1>1, <1>2, <1>3
<1>5. \E r \in 0 .. y : r * r <= y /\ (r + 1) * (r + 1) > y
  <2>1. (s - 1) + 1 = s /\ (s - 1) * (s - 1) \in Int
    BY <1>2
  <2>2. (s - 1) * (s - 1) <= y
    BY <1>4, <2>1
  <2> QED
    BY <1>2, <1>4, <2>1, <2>2
<1>6. Sqrt(y) \in 0 .. y /\ Sqrt(y) * Sqrt(y) <= y /\ (Sqrt(y) + 1) * (Sqrt(y) + 1) > y
  BY <1>5 DEF Sqrt
<1>7. ASSUME NEW r \in 0 .. y, r * r <= y, (r + 1) * (r + 1) > y
      PROVE  r \in 1 .. y - 1
  <2>1. r # 0
    BY <1>7
  <2>2. r # y
    <3>1. y * y >= 2 * y
      OBVIOUS
    <3> QED
      BY <1>7, <3>1
  <2> QED
    BY <2>1, <2>2
<1> QED
  BY <1>6, <1>7

-----------------------------------------------------------------------------
(* Exp and its caches. *)

(* With a cache of powers of x, Exp is the power. *)
LEMMA ExpIsPower ==
  ASSUME NEW x \in Nat, NEW y \in Nat, NEW c, \A k \in Nat \cap DOMAIN c : c[k] = Power(x, k)
  PROVE  Exp(c, x, y) = Power(x, y)
<1> DEFINE rest(k, e) == e[Sqrt(k)] * e[k - Sqrt(k)]
           val(k, e) == IF k = 0 THEN 1 ELSE IF k = 1 THEN x
                        ELSE IF k \in DOMAIN c THEN c[k]
                        ELSE IF k = 2 THEN x * x ELSE rest(k, e)
           F(e) == [k \in 0 .. y |-> val(k, e)]
           P == [k \in 0 .. y |-> Power(x, k)]
<1>1. Exp(c, x, y) = (CHOOSE e : e = F(e))[y]
  BY DEF Exp
<1>2. ASSUME NEW k \in 0 .. y, NEW e,
             k > 2 => e[Sqrt(k)] = Power(x, Sqrt(k)) /\ e[k - Sqrt(k)] = Power(x, k - Sqrt(k))
      PROVE  val(k, e) = Power(x, k)
  <2>1. k \in Nat
    OBVIOUS
  <2>2. /\ k = 0 => Power(x, k) = 1
        /\ k = 1 => Power(x, k) = x
        /\ k = 2 => Power(x, k) = x * x
    <3>1. Power(x, 0) = 1 /\ Power(x, 1) = x * Power(x, 0) /\ Power(x, 2) = x * Power(x, 1)
      BY PowerUnfold
    <3> QED
      BY <3>1
  <2>3. k > 2 => rest(k, e) = Power(x, k)
    <3> SUFFICES ASSUME k > 2 PROVE rest(k, e) = Power(x, k)
      OBVIOUS
    <3>1. Sqrt(k) \in 1 .. k - 1
      BY <2>1, SqrtSplits
    <3>2. Sqrt(k) \in Nat /\ k - Sqrt(k) \in Nat /\ Sqrt(k) + (k - Sqrt(k)) = k
      BY <2>1, <3>1
    <3>3. Power(x, Sqrt(k)) * Power(x, k - Sqrt(k)) = Power(x, Sqrt(k) + (k - Sqrt(k)))
      BY <3>2, PowerAdd
    <3>4. e[Sqrt(k)] = Power(x, Sqrt(k)) /\ e[k - Sqrt(k)] = Power(x, k - Sqrt(k))
      BY <1>2
    <3> QED
      BY <3>2, <3>3, <3>4
  <2> HIDE DEF rest
  <2> QED
    BY <2>1, <2>2, <2>3
<1>3. ASSUME NEW k \in 0 .. y, k > 2
      PROVE  Sqrt(k) \in 0 .. y /\ k - Sqrt(k) \in 0 .. y /\ Sqrt(k) < k /\ k - Sqrt(k) < k
  <2>1. Sqrt(k) \in 1 .. k - 1
    BY <1>3, SqrtSplits
  <2> QED
    BY <2>1
<1>4. P = F(P)
  <2>1. ASSUME NEW k \in 0 .. y
        PROVE  val(k, P) = Power(x, k)
    <3>1. k > 2 => P[Sqrt(k)] = Power(x, Sqrt(k)) /\ P[k - Sqrt(k)] = Power(x, k - Sqrt(k))
      BY <1>3
    <3> HIDE DEF P, val
    <3> QED
      BY <1>2, <3>1
  <2> HIDE DEF val
  <2> QED
    BY <2>1
<1>5. ASSUME NEW e, e = F(e)
      PROVE  e[y] = Power(x, y)
  <2> DEFINE T == {k \in 0 .. y : e[k] # Power(x, k)}
  <2> SUFFICES ASSUME T # {} PROVE FALSE
    OBVIOUS
  <2>1. PICK k \in T : \A r \in T : k <= r
    <3>1. T \subseteq Nat
      OBVIOUS
    <3> HIDE DEF T
    <3> QED
      BY <3>1, LeastNat
  <2>2. k \in 0 .. y /\ e[k] # Power(x, k)
    BY <2>1
  <2>3. \A i \in 0 .. y : i < k => e[i] = Power(x, i)
    BY <2>1
  <2>4. k > 2 => e[Sqrt(k)] = Power(x, Sqrt(k)) /\ e[k - Sqrt(k)] = Power(x, k - Sqrt(k))
    BY <1>3, <2>2, <2>3
  <2> HIDE DEF val, T
  <2>5. e[k] = val(k, e)
    BY <1>5, <2>2, Zenon
  <2>6. val(k, e) = Power(x, k)
    BY <1>2, <2>2, <2>4
  <2> QED
    BY <2>2, <2>5, <2>6
<1> HIDE DEF F, P
<1>6. (CHOOSE e : e = F(e)) = F((CHOOSE e : e = F(e)))
  BY <1>4
<1> QED
  BY <1>1, <1>5, <1>6

(* What Exp leaves in the caches are powers again. *)
LEMMA CachingValid ==
  ASSUME NEW ec, PowersIn(ec), NEW x \in Nat, NEW y
  PROVE  PowersIn(Caching(ec, x, y))
<1>1. ASSUME NEW c, \A k \in Nat \cap DOMAIN c : c[k] = Power(x, k)
      PROVE  \A k \in Nat \cap DOMAIN ExpStore(c, x, y) : ExpStore(c, x, y)[k] = Power(x, k)
  <2>1. PICK W : ExpStore(c, x, y) = [k \in DOMAIN c \cup W |-> IF k \in DOMAIN c THEN c[k] ELSE Exp(c, x, k)]
    BY DEF ExpStore
  <2>2. \A k \in Nat : Exp(c, x, k) = Power(x, k)
    BY <1>1, ExpIsPower
  <2> QED
    BY <1>1, <2>1, <2>2
<1>2. CASE x = pn
  <2>1. Caching(ec, x, y) = [ec EXCEPT !["pn"] = ExpStore(ec["pn"], x, y)]
    BY <1>2 DEF Caching, cacheOf
  <2>2. \A k \in Nat \cap DOMAIN ExpStore(ec["pn"], x, y) : ExpStore(ec["pn"], x, y)[k] = Power(x, k)
    BY <1>1, <1>2 DEF PowersIn
  <2> QED
    BY <1>2, <2>1, <2>2 DEF PowersIn
<1>3. CASE x # pn /\ x = pd - pn
  <2>1. Caching(ec, x, y) = [ec EXCEPT !["tpn"] = ExpStore(ec["tpn"], x, y)]
    BY <1>3 DEF Caching, cacheOf
  <2>2. \A k \in Nat \cap DOMAIN ExpStore(ec["tpn"], x, y) : ExpStore(ec["tpn"], x, y)[k] = Power(x, k)
    BY <1>1, <1>3 DEF PowersIn
  <2> QED
    BY <1>3, <2>1, <2>2 DEF PowersIn
<1>4. CASE x # pn /\ x # pd - pn
  BY <1>4 DEF Caching, cacheOf
<1> QED
  BY <1>2, <1>3, <1>4

-----------------------------------------------------------------------------
(* The sums of probabilities. *)

(* The sums of the model are those of SumProofs. *)
LEMMA SumOverIsSum ==
  ASSUME NEW S \in SUBSET (0 .. N)
  PROVE  SumOver(S) = Sum([k \in 0 .. N |-> Probability(k)], S)
<1> DEFINE w == [k \in 0 .. N |-> Probability(k)]
           F(g) == [t \in SUBSET S |->
                     IF t = {} THEN 0 ELSE Probability(Chosen(t)) + g[t \ {Chosen(t)}]]
<1>1. SumOver(S) = (CHOOSE g : g = F(g))[S]
  BY DEF SumOver, MapThenSumSet, MapThenFoldSet, Chosen
<1>2. ASSUME NEW g
      PROVE  F(g) = [t \in SUBSET S |-> IF t = {} THEN 0 ELSE w[Chosen(t)] + g[t \ {Chosen(t)}]]
  <2>1. \A t \in SUBSET S : t # {} => w[Chosen(t)] = Probability(Chosen(t))
    BY ChosenIn
  <2> QED
    BY <2>1
<1> HIDE DEF F, w
<1>3. \A g : IsSum(g, S, w) <=> g = F(g)
  BY <1>2 DEF IsSum
<1>4. (CHOOSE g : g = F(g)) = (CHOOSE g : IsSum(g, S, w))
  BY <1>3
<1> QED
  BY <1>1, <1>4, SumIs DEF SumFcn, w

(* A sum of probabilities: none, and one more. *)
LEMMA SumOverFacts ==
  ASSUME NEW S \in SUBSET (0 .. N)
  PROVE  /\ SumOver(S) \in Nat
         /\ SumOver({}) = 0
         /\ \A k \in (0 .. N) \ S : SumOver(S \cup {k}) = SumOver(S) + Probability(k)
<1> DEFINE w == [k \in 0 .. N |-> Probability(k)]
<1>1. \A k \in 0 .. N : w[k] \in Nat /\ w[k] = Probability(k)
  BY ProbabilityNat
<1>2. \A R \in SUBSET (0 .. N) : SumOver(R) = Sum(w, R)
  BY SumOverIsSum
<1> HIDE DEF w
<1>3. IsFiniteSet(S) /\ IsFiniteSet({})
  <2>1. IsFiniteSet(0 .. N)
    BY SortitionAssumption, FS_Interval
  <2> QED
    BY <2>1, FS_Subset, FS_EmptySet
<1>4. SumOver(S) \in Nat
  BY <1>1, <1>2, <1>3, SumNat
<1>5. SumOver({}) = 0
  BY <1>2, <1>3, SumUnfold
<1>6. ASSUME NEW k \in (0 .. N) \ S
      PROVE  SumOver(S \cup {k}) = SumOver(S) + Probability(k)
  <2>1. Sum(w, S \cup {k}) = w[k] + Sum(w, S)
    <3>1. \A u \in S \cup {k} : w[u] \in Int
      BY <1>1
    <3> QED
      BY <1>3, <1>6, <3>1, SumAdd
  <2> QED
    BY <1>1, <1>2, <1>4, <2>1
<1> QED
  BY <1>4, <1>5, <1>6

(* The closest argument below that is cached is well defined. *)
LEMMA MaxOfBounded ==
  ASSUME NEW n \in Nat, NEW S \in SUBSET (0 .. n), S # {}
  PROVE  Max(S) \in S /\ \A k \in S : k <= Max(S)
<1> DEFINE T == {n - k : k \in S}
<1>1. PICK t \in T : \A r \in T : t <= r
  <2>1. \A k \in S : n - k \in Nat
    OBVIOUS
  <2>2. T \subseteq Nat
    BY <2>1
  <2>3. PICK k \in S : TRUE
    OBVIOUS
  <2>4. n - k \in T
    BY <2>3
  <2> HIDE DEF T
  <2> QED
    BY <2>2, <2>4, LeastNat
<1>2. PICK m \in S : t = n - m
  BY <1>1
<1>3. \A k \in S : m >= k
  <2>1. \A k \in S : n - k \in T
    OBVIOUS
  <2>2. \A k \in S : n - m <= n - k
    BY <1>1, <1>2, <2>1
  <2> HIDE DEF T
  <2>3. \A k \in S : k \in Int
    OBVIOUS
  <2> QED
    BY <2>2, <2>3
<1>4. Max(S) \in S /\ \A k \in S : Max(S) >= k
  BY <1>2, <1>3 DEF Max
<1> QED
  BY <1>4

-----------------------------------------------------------------------------
(* The binomial theorem. *)

(* A multiple is divided without a rest. *)
LEMMA DivExact ==
  ASSUME NEW a \in Nat, NEW d \in Nat \ {0}
  PROVE  (a * d) \div d = a
OBVIOUS

(* The ends of a row of the triangle. *)
LEMMA ChooseEnds ==
  ASSUME NEW n \in Nat
  PROVE  choose(n, 0) = 1 /\ choose(n, n) = 1
<1>1. factorial[0] = 1 /\ factorial[n] \in Nat \ {0} /\ n - 0 = n /\ n - n = 0
  BY FactorialUnfold, FactorialPos
<1>2. factorial[n] \div factorial[n] = 1
  <2>1. (1 * factorial[n]) \div factorial[n] = 1
    BY <1>1, DivExact
  <2> QED
    BY <1>1, <2>1
<1>3. factorial[0] * factorial[n] = factorial[n] /\ factorial[n] * factorial[0] = factorial[n]
  BY <1>1
<1> QED
  BY <1>1, <1>2, <1>3 DEF choose

(* choose(n, k) divides without a rest. *)
Divides(n) == \A k \in 0 .. n :
                /\ choose(n, k) \in Nat
                /\ choose(n, k) * (factorial[k] * factorial[n - k]) = factorial[n]

(* A row of Pascal's triangle from the one before. *)
LEMMA PascalStep ==
  ASSUME NEW n \in Nat, Divides(n), NEW k \in 1 .. n
  PROVE  /\ choose(n + 1, k) = choose(n, k - 1) + choose(n, k)
         /\ choose(n + 1, k) * (factorial[k] * factorial[n + 1 - k]) = factorial[n + 1]
<1> DEFINE a == choose(n, k - 1)
           b == choose(n, k)
           f == factorial[k - 1]
           g == factorial[n - k]
           d == factorial[k] * factorial[n + 1 - k]
<1>1. k - 1 \in Nat /\ n - k \in Nat /\ k \in Nat /\ n + 1 - k \in Nat /\ n + 1 \in Nat
  OBVIOUS
<1>2. /\ factorial[k] = k * f
      /\ factorial[n + 1 - k] = (n + 1 - k) * g
      /\ factorial[n + 1] = (n + 1) * factorial[n]
  <2>1. (n + 1 - k) - 1 = n - k /\ n + 1 - k # 0 /\ (n + 1) - 1 = n /\ k # 0 /\ n + 1 # 0
    OBVIOUS
  <2> QED
    BY <1>1, <2>1, FactorialUnfold
<1>3. f \in Nat /\ g \in Nat /\ d \in Nat \ {0} /\ factorial[n] \in Nat
  <2>1. \A p, q \in Nat \ {0} : p * q \in Nat \ {0}
    OBVIOUS
  <2> QED
    BY <1>1, <2>1, FactorialPos
<1>4. a \in Nat /\ b \in Nat /\ a * (f * ((n + 1 - k) * g)) = factorial[n] /\ b * ((k * f) * g) = factorial[n]
  <2>1. n - (k - 1) = n + 1 - k /\ k - 1 \in 0 .. n /\ k \in 0 .. n
    OBVIOUS
  <2> QED
    BY <1>2, <2>1 DEF Divides
<1>5. (a + b) * d = factorial[n + 1]
  <2> DEFINE c == n + 1 - k
  <2>1. d = (k * f) * (c * g)
    BY <1>2
  <2>2. c \in Nat /\ k + c = n + 1
    OBVIOUS
  <2>3. a * (f * (c * g)) = factorial[n] /\ b * ((k * f) * g) = factorial[n]
    BY <1>4
  <2> HIDE DEF a, b, c, d, f, g
  <2>4. (a + b) * d = k * (a * (f * (c * g))) + c * (b * ((k * f) * g))
    BY <1>1, <1>3, <1>4, <2>1, <2>2
  <2>5. k * factorial[n] + c * factorial[n] = (n + 1) * factorial[n]
    BY <1>1, <1>3, <2>2
  <2> QED
    BY <1>2, <2>3, <2>4, <2>5
<1>6. choose(n + 1, k) = a + b
  <2>1. choose(n + 1, k) = factorial[n + 1] \div d
    BY DEF choose
  <2> HIDE DEF a, b, d
  <2>2. choose(n + 1, k) = ((a + b) * d) \div d /\ a + b \in Nat
    BY <1>4, <1>5, <2>1
  <2> QED
    BY <1>3, <2>2, DivExact
<1> QED
  BY <1>5, <1>6

(* Every row consists of such quotients. *)
LEMMA AllDivide == \A n \in Nat : Divides(n)
<1> DEFINE T == {n \in Nat : ~Divides(n)}
<1> SUFFICES ASSUME T # {} PROVE FALSE
  OBVIOUS
<1>1. PICK n \in T : \A r \in T : n <= r
  <2>1. T \subseteq Nat
    OBVIOUS
  <2> HIDE DEF T
  <2> QED
    BY <2>1, LeastNat
<1>2. n \in Nat /\ ~Divides(n)
  BY <1>1
<1>3. n # 0 => n - 1 \in Nat /\ Divides(n - 1) /\ (n - 1) + 1 = n
  BY <1>1, <1>2
<1> HIDE DEF T
<1>4. ASSUME NEW k \in 0 .. n
      PROVE  choose(n, k) \in Nat /\ choose(n, k) * (factorial[k] * factorial[n - k]) = factorial[n]
  <2>1. CASE k = 0 \/ k = n
    <3>1. factorial[0] = 1 /\ factorial[n] \in Nat /\ n - 0 = n /\ n - n = 0
      BY <1>2, FactorialUnfold, FactorialPos
    <3>2. choose(n, k) = 1
      BY <1>2, <2>1, ChooseEnds
    <3>3. factorial[k] * factorial[n - k] = factorial[n]
      BY <2>1, <3>1
    <3> QED
      BY <3>1, <3>2, <3>3
  <2>2. CASE k # 0 /\ k # n
    <3>1. n - 1 \in Nat /\ Divides(n - 1) /\ (n - 1) + 1 = n /\ k \in 1 .. n - 1
      BY <1>2, <1>3, <2>2
    <3>2. /\ choose((n - 1) + 1, k) = choose(n - 1, k - 1) + choose(n - 1, k)
          /\ choose((n - 1) + 1, k) * (factorial[k] * factorial[(n - 1) + 1 - k]) = factorial[(n - 1) + 1]
      BY <3>1, PascalStep
    <3>3. choose(n - 1, k - 1) \in Nat /\ choose(n - 1, k) \in Nat
      <4>1. k - 1 \in 0 .. n - 1 /\ k \in 0 .. n - 1
        BY <3>1
      <4> QED
        BY <3>1, <4>1 DEF Divides
    <3> QED
      BY <3>1, <3>2, <3>3
  <2> QED
    BY <2>1, <2>2
<1> QED
  BY <1>2, <1>4 DEF Divides

(* A sum over an interval, with one number more. *)
LEMMA SumUpTo ==
  ASSUME NEW w, NEW k \in Nat, \A i \in 0 .. k + 1 : w[i] \in Nat
  PROVE  /\ Sum(w, 0 .. 0) = w[0]
         /\ Sum(w, 0 .. k) \in Nat
         /\ Sum(w, 0 .. k + 1) = Sum(w, 0 .. k) + w[k + 1]
<1>1. IsFiniteSet(0 .. k) /\ IsFiniteSet({})
  BY FS_Interval, FS_EmptySet
<1>2. (0 .. k) \cup {k + 1} = 0 .. k + 1 /\ k + 1 \notin 0 .. k /\ {} \cup {0} = 0 .. 0
  OBVIOUS
<1>3. Sum(w, {}) = 0
  BY <1>1, SumUnfold
<1>4. Sum(w, 0 .. 0) = w[0]
  <2>1. Sum(w, {} \cup {0}) = w[0] + Sum(w, {})
    <3>1. \A x \in {} \cup {0} : w[x] \in Nat
      OBVIOUS
    <3> QED
      BY <1>1, <3>1, SumAdd
  <2>2. w[0] \in Nat
    OBVIOUS
  <2> QED
    BY <1>2, <1>3, <2>1, <2>2
<1>5. Sum(w, 0 .. k) \in Nat
  <2>1. \A i \in 0 .. k : w[i] \in Nat
    OBVIOUS
  <2> QED
    BY <1>1, <2>1, SumNat
<1>6. Sum(w, (0 .. k) \cup {k + 1}) = w[k + 1] + Sum(w, 0 .. k)
  <2>1. \A i \in (0 .. k) \cup {k + 1} : w[i] \in Int
    BY <1>2
  <2> QED
    BY <1>1, <1>2, <2>1, SumAdd
<1>7. w[k + 1] \in Nat
  BY <1>2
<1>8. Sum(w, 0 .. k + 1) = w[k + 1] + Sum(w, 0 .. k)
  BY <1>2, <1>6, Zenon
<1>9. w[k + 1] + Sum(w, 0 .. k) = Sum(w, 0 .. k) + w[k + 1]
  BY <1>5, <1>7
<1> QED
  BY <1>4, <1>5, <1>8, <1>9, Zenon

(* The terms of (a + b)^n. *)
Term(a, b, n, k) == choose(n, k) * Power(a, k) * Power(b, n - k)

Terms(a, b, n) == [k \in 0 .. n |-> Term(a, b, n, k)]

(* The terms are natural numbers; the first and the last one. *)
LEMMA TermFacts ==
  ASSUME NEW a \in Nat, NEW b \in Nat, NEW n \in Nat
  PROVE  /\ \A k \in 0 .. n : Term(a, b, n, k) \in Nat
         /\ Term(a, b, n, 0) = Power(b, n)
         /\ Term(a, b, n, n) = Power(a, n)
<1>1. ASSUME NEW k \in 0 .. n
      PROVE  Term(a, b, n, k) \in Nat
  <2>1. choose(n, k) \in Nat
    BY AllDivide DEF Divides
  <2>2. Power(a, k) \in Nat /\ Power(b, n - k) \in Nat
    <3>1. k \in Nat /\ n - k \in Nat
      OBVIOUS
    <3> QED
      BY <3>1, PowerNat
  <2>3. \A p, q, r \in Nat : p * q * r \in Nat
    OBVIOUS
  <2> QED
    BY <2>1, <2>2, <2>3 DEF Term
<1>2. /\ choose(n, 0) = 1 /\ choose(n, n) = 1 /\ Power(a, 0) = 1 /\ Power(b, 0) = 1
      /\ Power(a, n) \in Nat /\ Power(b, n) \in Nat /\ n - 0 = n /\ n - n = 0
  <2>1. Power(a, 0) = 1 /\ Power(b, 0) = 1
    BY PowerUnfold
  <2>2. Power(a, n) \in Nat /\ Power(b, n) \in Nat
    BY PowerNat
  <2> QED
    BY <2>1, <2>2, ChooseEnds
<1>3. Term(a, b, n, 0) = Power(b, n) /\ Term(a, b, n, n) = Power(a, n)
  <2>1. \A p \in Nat : 1 * 1 * p = p /\ 1 * p * 1 = p
    OBVIOUS
  <2> QED
    BY <1>2, <2>1 DEF Term
<1> QED
  BY <1>1, <1>3

(* Pascal's triangle, for the terms. *)
LEMMA TermPascal ==
  ASSUME NEW a \in Nat, NEW b \in Nat, NEW n \in Nat, NEW k \in Nat, k < n
  PROVE  Term(a, b, n + 1, k + 1) = a * Term(a, b, n, k) + b * Term(a, b, n, k + 1)
<1> DEFINE c == choose(n, k)
           d == choose(n, k + 1)
           p == Power(a, k)
           q == Power(b, n - (k + 1))
<1>1. /\ k + 1 \in 1 .. n /\ k \in 0 .. n /\ k + 1 \in 0 .. n /\ (k + 1) - 1 = k
      /\ n - k \in Nat /\ n - (k + 1) \in Nat /\ n - k # 0 /\ (n - k) - 1 = n - (k + 1)
      /\ k + 1 \in Nat /\ k + 1 # 0 /\ (n + 1) - (k + 1) = n - k
  OBVIOUS
<1>2. Divides(n)
  BY AllDivide
<1>3. c \in Nat /\ d \in Nat /\ choose(n + 1, k + 1) = c + d
  BY <1>1, <1>2, PascalStep DEF Divides
<1>4. p \in Nat /\ q \in Nat /\ Power(a, k + 1) = a * p /\ Power(b, n - k) = b * q
  BY <1>1, PowerNat, PowerUnfold
<1>5. /\ Term(a, b, n + 1, k + 1) = (c + d) * (a * p) * (b * q)
      /\ Term(a, b, n, k) = c * p * (b * q)
      /\ Term(a, b, n, k + 1) = d * (a * p) * q
  BY <1>1, <1>3, <1>4 DEF Term
<1> HIDE DEF c, d, p, q
<1>6. (c + d) * (a * p) * (b * q) = a * (c * p * (b * q)) + b * (d * (a * p) * q)
  BY <1>3, <1>4
<1> QED
  BY <1>5, <1>6

(* The sums of the first terms, for n and n + 1. *)
LEMMA PartialSums ==
  ASSUME NEW a \in Nat, NEW b \in Nat, NEW n \in Nat, NEW m \in 0 .. n
  PROVE  Sum(Terms(a, b, n + 1), 0 .. m) + a * Term(a, b, n, m)
           = (a + b) * Sum(Terms(a, b, n), 0 .. m)
<1> DEFINE w == Terms(a, b, n)
           v == Terms(a, b, n + 1)
           T == {k \in 0 .. n : Sum(v, 0 .. k) + a * Term(a, b, n, k) # (a + b) * Sum(w, 0 .. k)}
<1> SUFFICES ASSUME T # {} PROVE FALSE
  OBVIOUS
<1>1. PICK k \in T : \A r \in T : k <= r
  <2>1. T \subseteq Nat
    OBVIOUS
  <2> HIDE DEF T
  <2> QED
    BY <2>1, LeastNat
<1>2. k \in 0 .. n /\ Sum(v, 0 .. k) + a * Term(a, b, n, k) # (a + b) * Sum(w, 0 .. k)
  BY <1>1
<1>3. k # 0 => k - 1 \in 0 .. n /\ k - 1 \notin T
  BY <1>1, <1>2
<1>4. k # 0 => Sum(v, 0 .. k - 1) + a * Term(a, b, n, k - 1) = (a + b) * Sum(w, 0 .. k - 1)
  BY <1>3
<1> HIDE DEF T
<1>5. /\ \A i \in 0 .. n : w[i] = Term(a, b, n, i) /\ w[i] \in Nat
      /\ \A i \in 0 .. n + 1 : v[i] = Term(a, b, n + 1, i) /\ v[i] \in Nat
  BY TermFacts DEF Terms
<1> HIDE DEF w, v
<1>6. CASE k = 0
  <2>1. \A i \in 0 .. 0 + 1 : v[i] \in Nat
    BY <1>5
  <2>2. Sum(v, 0 .. 0) = v[0]
    BY <2>1, SumUpTo
  <2>3. Sum(w, 0 .. 0) = w[0]
    <3>1. {} \cup {0} = 0 .. 0 /\ IsFiniteSet({}) /\ \A x \in {} \cup {0} : w[x] \in Int
      BY <1>5, FS_EmptySet
    <3>2. Sum(w, {} \cup {0}) = w[0] + Sum(w, {}) /\ Sum(w, {}) = 0
      BY <3>1, SumAdd, SumUnfold
    <3> QED
      BY <1>5, <3>1, <3>2
  <2>4. /\ v[0] = Power(b, n + 1) /\ w[0] = Power(b, n) /\ Term(a, b, n, 0) = Power(b, n)
        /\ Power(b, n + 1) = b * Power(b, n) /\ Power(b, n) \in Nat
    <3>1. n + 1 \in Nat /\ n + 1 # 0 /\ (n + 1) - 1 = n
      OBVIOUS
    <3>2. Power(b, n + 1) = b * Power(b, n) /\ Power(b, n) \in Nat
      BY <3>1, PowerUnfold, PowerNat
    <3>3. Term(a, b, n, 0) = Power(b, n) /\ Term(a, b, n + 1, 0) = Power(b, n + 1)
      BY <3>1, TermFacts
    <3>4. w[0] = Term(a, b, n, 0) /\ v[0] = Term(a, b, n + 1, 0)
      BY <1>5
    <3> QED
      BY <3>2, <3>3, <3>4
  <2>5. \A p \in Nat : b * p + a * p = (a + b) * p
    OBVIOUS
  <2> QED
    BY <1>2, <1>6, <2>2, <2>3, <2>4, <2>5
<1>7. CASE k # 0
  <2> DEFINE i == k - 1
  <2>1. i \in Nat /\ i < n /\ i + 1 = k /\ k \in 0 .. n /\ i \in 0 .. n
    BY <1>2, <1>7
  <2>2. /\ Sum(v, 0 .. i) \in Nat /\ Sum(v, 0 .. i + 1) = Sum(v, 0 .. i) + v[i + 1]
        /\ Sum(w, 0 .. i) \in Nat /\ Sum(w, 0 .. i + 1) = Sum(w, 0 .. i) + w[i + 1]
    <3>1. /\ \A x \in 0 .. i + 1 : v[x] \in Nat
          /\ \A x \in 0 .. i + 1 : w[x] \in Nat
      BY <1>5, <2>1
    <3> QED
      BY <2>1, <3>1, SumUpTo
  <2> HIDE DEF i
  <2>3. v[i + 1] = a * Term(a, b, n, i) + b * Term(a, b, n, i + 1) /\ w[i + 1] = Term(a, b, n, i + 1)
    BY <1>5, <2>1, TermPascal
  <2>4. Term(a, b, n, i) \in Nat /\ Term(a, b, n, i + 1) \in Nat
    BY <2>1, TermFacts
  <2>5. Sum(v, 0 .. i) + a * Term(a, b, n, i) = (a + b) * Sum(w, 0 .. i)
    BY <1>4, <1>7 DEF i
  <2> DEFINE s == Sum(v, 0 .. i)
             t == Sum(w, 0 .. i)
             x == Term(a, b, n, i)
             y == Term(a, b, n, i + 1)
  <2>6. s \in Nat /\ t \in Nat /\ x \in Nat /\ y \in Nat /\ s + a * x = (a + b) * t
    BY <2>2, <2>4, <2>5
  <2>7. Sum(v, 0 .. i + 1) + a * y = (a + b) * Sum(w, 0 .. i + 1)
    <3>1. Sum(v, 0 .. i + 1) = s + (a * x + b * y) /\ Sum(w, 0 .. i + 1) = t + y
      BY <2>2, <2>3, Zenon
    <3> HIDE DEF s, t, x, y
    <3>2. (s + (a * x + b * y)) + a * y = (s + a * x) + (a + b) * y
      BY <2>6
    <3>3. (a + b) * t + (a + b) * y = (a + b) * (t + y)
      BY <2>6
    <3> QED
      BY <2>6, <3>1, <3>2, <3>3
  <2> QED
    BY <1>2, <2>1, <2>7
<1> QED
  BY <1>6, <1>7

(* The binomial theorem. *)
LEMMA Binomial ==
  ASSUME NEW a \in Nat, NEW b \in Nat, NEW n \in Nat
  PROVE  Sum(Terms(a, b, n), 0 .. n) = Power(a + b, n)
<1> DEFINE T == {k \in Nat : Sum(Terms(a, b, k), 0 .. k) # Power(a + b, k)}
<1> SUFFICES ASSUME T # {} PROVE FALSE
  OBVIOUS
<1>1. PICK k \in T : \A r \in T : k <= r
  <2>1. T \subseteq Nat
    OBVIOUS
  <2> HIDE DEF T
  <2> QED
    BY <2>1, LeastNat
<1>2. k \in Nat /\ Sum(Terms(a, b, k), 0 .. k) # Power(a + b, k)
  BY <1>1
<1>3. k # 0 => k - 1 \in Nat /\ Sum(Terms(a, b, k - 1), 0 .. k - 1) = Power(a + b, k - 1)
  BY <1>1, <1>2
<1> HIDE DEF T
<1>4. CASE k = 0
  <2>1. Terms(a, b, 0)[0] = 1
    <3>1. 0 \in 0 .. 0 /\ Term(a, b, 0, 0) = Power(b, 0) /\ Power(b, 0) = 1
      BY TermFacts, PowerUnfold
    <3> QED
      BY <3>1 DEF Terms
  <2>2. {} \cup {0} = 0 .. 0 /\ IsFiniteSet({}) /\ \A x \in {} \cup {0} : Terms(a, b, 0)[x] \in Nat
    BY <2>1, FS_EmptySet
  <2>3. /\ Sum(Terms(a, b, 0), {} \cup {0}) = Terms(a, b, 0)[0] + Sum(Terms(a, b, 0), {})
        /\ Sum(Terms(a, b, 0), {}) = 0
    BY <2>2, SumAdd, SumUnfold
  <2>4. Power(a + b, 0) = 1
    BY PowerUnfold
  <2> QED
    BY <1>2, <1>4, <2>1, <2>2, <2>3, <2>4
<1>5. CASE k # 0
  <2> DEFINE i == k - 1
             v == Terms(a, b, i + 1)
             w == Terms(a, b, i)
  <2>1. i \in Nat /\ i + 1 = k /\ i + 1 \in Nat /\ i + 1 # 0 /\ (i + 1) - 1 = i /\ i \in 0 .. i
    BY <1>2, <1>5
  <2>2. Sum(w, 0 .. i) = Power(a + b, i)
    BY <1>3, <1>5
  <2> HIDE DEF i
  <2>3. \A x \in 0 .. i + 1 : v[x] = Term(a, b, i + 1, x) /\ v[x] \in Nat
    BY <2>1, TermFacts DEF Terms
  <2>4. Sum(v, 0 .. i) + a * Term(a, b, i, i) = (a + b) * Sum(w, 0 .. i)
    BY <2>1, PartialSums
  <2> HIDE DEF v, w
  <2>5. Sum(v, 0 .. i) \in Nat /\ Sum(v, 0 .. i + 1) = Sum(v, 0 .. i) + v[i + 1]
    BY <2>1, <2>3, SumUpTo
  <2>6. v[i + 1] = a * Power(a, i) /\ Term(a, b, i, i) = Power(a, i)
    <3>1. i + 1 \in 0 .. i + 1
      BY <2>1
    <3>2. v[i + 1] = Term(a, b, i + 1, i + 1)
      BY <2>3, <3>1
    <3>3. Term(a, b, i + 1, i + 1) = Power(a, i + 1) /\ Term(a, b, i, i) = Power(a, i)
      BY <2>1, TermFacts
    <3>4. Power(a, i + 1) = a * Power(a, i)
      BY <2>1, PowerUnfold
    <3> QED
      BY <3>2, <3>3, <3>4
  <2>7. Power(a + b, i + 1) = (a + b) * Power(a + b, i)
    BY <2>1, PowerUnfold
  <2>8. Sum(v, 0 .. i + 1) = Power(a + b, i + 1)
    BY <2>2, <2>4, <2>5, <2>6, <2>7
  <2> QED
    BY <1>2, <2>1, <2>8 DEF v
<1> QED
  BY <1>4, <1>5

-----------------------------------------------------------------------------
(* The inductive invariant. *)

(* The caches are empty at first. *)
LEMMA InitSumInv == Init => SumInv
BY DEF Init, SumInv, CacheInv, CallInv, CDFExact, PowersIn, noCache, none

(* A call that is answered at once changes nothing that is kept. *)
LEMMA KeptSumInv ==
  ASSUME SumInv, res = none, UNCHANGED <<heap, caches, res, gor>>
  PROVE  SumInv'
BY DEF SumInv, CacheInv, CallInv, CDFExact, PowersIn, caches, none

(* A sum starts from the closest one below, at a place of its own. *)
LEMMA BeginSumInv ==
  ASSUME SumInv, CDFBegin
  PROVE  SumInv'
<1> DEFINE known == {k \in DOMAIN cdfCache : k < arg}
           last == IF known = {} THEN -1 ELSE Max(known)
           first == IF known = {} THEN 0 ELSE heap[cdfCache[last]]
<1>1. /\ arg \in 0 .. N - 1 /\ res = none
      /\ heap' = Append(heap, first) /\ res' = Len(heap) + 1
      /\ gor' = [k \in last + 1 .. arg |-> "start"]
      /\ UNCHANGED <<cdfCache, probCache, expCache, denom, arg>>
  BY DEF CDFBegin, caches
<1>2. /\ heap \in Seq(Nat) /\ N \in Nat
      /\ \A k \in DOMAIN cdfCache : k \in 0 .. N - 1 /\ cdfCache[k] \in 1 .. Len(heap)
      /\ \A k \in DOMAIN cdfCache : heap[cdfCache[k]] = SumOver(0 .. k)
  BY SortitionAssumption DEF SumInv, CacheInv, CDFExact, Cumulative
<1>3. last \in -1 .. arg - 1 /\ first = SumOver(0 .. last) /\ first \in Nat
  <2>1. CASE known = {}
    <3>1. 0 .. last = {}
      BY <2>1
    <3>2. {} \in SUBSET (0 .. N)
      OBVIOUS
    <3> QED
      BY <1>1, <2>1, <3>1, <3>2, SumOverFacts
  <2>2. CASE known # {}
    <3>1. known \in SUBSET (0 .. N)
      BY <1>2
    <3>2. Max(known) \in known
      BY <1>2, <2>2, <3>1, MaxOfBounded
    <3>3. last \in DOMAIN cdfCache /\ last < arg /\ last \in 0 .. N - 1
      BY <1>2, <2>2, <3>2
    <3>4. first = SumOver(0 .. last)
      BY <1>2, <2>2, <3>3
    <3>5. SumOver(0 .. last) \in Nat
      <4> HIDE DEF last
      <4>1. 0 .. last \in SUBSET (0 .. N)
        BY <1>2, <3>3
      <4> QED
        BY <4>1, SumOverFacts
    <3> QED
      BY <1>1, <3>3, <3>4, <3>5
  <2> QED
    BY <2>1, <2>2
<1> HIDE DEF known, last, first
<1>4. /\ heap' \in Seq(Nat) /\ Len(heap') = Len(heap) + 1 /\ heap'[res'] = first
      /\ \A i \in 1 .. Len(heap) : heap'[i] = heap[i]
  BY <1>1, <1>2, <1>3
<1>5. Len(heap) \in Nat
  BY <1>2
<1>6. CacheInv'
  BY <1>1, <1>2, <1>4, <1>5 DEF SumInv, CacheInv, PowersIn
<1>7. CDFExact'
  BY <1>1, <1>2, <1>4 DEF CDFExact, Cumulative
<1>8. Added' = 0 .. last
  <2>1. Added' = {k \in 0 .. arg : k \in last + 1 .. arg => "start" = "done"}
    BY <1>1 DEF Added
  <2> QED
    BY <1>1, <1>3, <2>1
<1>9. CallInv'
  <2>1. res' # none /\ res' \in 1 .. Len(heap') /\ \A k \in DOMAIN cdfCache' : cdfCache'[k] # res'
    BY <1>1, <1>2, <1>4, <1>5 DEF none
  <2>2. heap'[res'] = SumOver(Added')
    BY <1>3, <1>4, <1>8
  <2>3. DOMAIN gor' \subseteq 0 .. arg' /\ \A k \in DOMAIN gor' : gor'[k] = "start"
    BY <1>1, <1>3
  <2> QED
    BY <1>1, <2>1, <2>2, <2>3 DEF CallInv
<1> QED
  BY <1>6, <1>7, <1>9 DEF SumInv

(* A lookup of a probability changes no sum. *)
LEMMA LoadSumInv ==
  ASSUME SumInv, ProbLoad
  PROVE  SumInv'
<1>1. PICK k \in DOMAIN gor :
        /\ gor[k] = "start"
        /\ gor' = [gor EXCEPT ![k] = IF k \in DOMAIN probCache THEN "sent" ELSE "miss"]
        /\ UNCHANGED <<heap, cdfCache, probCache, expCache, denom, arg, res>>
  BY DEF ProbLoad, caches
<1>2. DOMAIN gor' = DOMAIN gor /\ \A i \in DOMAIN gor : (gor'[i] = "done") <=> (gor[i] = "done")
  BY <1>1
<1>3. Added' = Added
  BY <1>1, <1>2 DEF Added
<1>4. CacheInv' /\ CDFExact'
  BY <1>1 DEF SumInv, CacheInv, PowersIn, CDFExact
<1>5. \A i \in DOMAIN gor' : gor'[i] \in {"sent", "done"} => i \in DOMAIN probCache'
  BY <1>1, <1>2 DEF SumInv, CallInv
<1>6. CallInv'
  BY <1>1, <1>2, <1>3, <1>5 DEF SumInv, CallInv
<1> QED
  BY <1>4, <1>6 DEF SumInv

(* A probability is computed from whatever powers the goroutines before it have
   left in the caches.                                                     *)
LEMMA StoreSumInv ==
  ASSUME SumInv, ProbStore
  PROVE  SumInv'
<1> DEFINE tpn == pd - pn
           ec1(k) == Caching(expCache, pn, k)
           right(k) == IF cacheOf(tpn) = "none" THEN noCache ELSE ec1(k)[cacheOf(tpn)]
           ec2(k) == Caching(ec1(k), tpn, N - k)
<1>1. PICK k \in DOMAIN gor :
        /\ gor[k] = "miss"
        /\ probCache' = [i \in DOMAIN probCache \cup {k} |->
                           IF i = k THEN choose(N, k) * Exp(Cache(pn), pn, k) * Exp(right(k), tpn, N - k)
                           ELSE probCache[i]]
        /\ expCache' = Caching(ec2(k), pd, N)
        /\ gor' = [gor EXCEPT ![k] = "sent"]
        /\ UNCHANGED <<heap, cdfCache, arg, res>>
  BY DEF ProbStore
<1>2. res # none /\ arg \in 0 .. N - 1 /\ k \in 0 .. arg
  BY <1>1 DEF SumInv, CallInv
<1>3. N \in Nat /\ pn \in Nat /\ tpn \in Nat /\ pd \in Nat /\ k \in Nat /\ N - k \in Nat
  BY <1>2, SortitionAssumption
<1>4. PowersIn(expCache) /\ PowersIn(ec1(k)) /\ PowersIn(ec2(k)) /\ PowersIn(expCache')
  BY <1>1, <1>3, CachingValid DEF SumInv, CacheInv
<1>5. Exp(Cache(pn), pn, k) = Power(pn, k)
  <2>1. \A i \in Nat \cap DOMAIN Cache(pn) : Cache(pn)[i] = Power(pn, i)
    BY <1>4 DEF PowersIn, Cache, cacheOf
  <2> QED
    BY <1>3, <2>1, ExpIsPower
<1>6. Exp(right(k), tpn, N - k) = Power(tpn, N - k)
  <2>1. right(k) = IF tpn = pn THEN ec1(k)["pn"] ELSE ec1(k)["tpn"]
    BY DEF cacheOf
  <2> HIDE DEF right, ec1
  <2>2. \A i \in Nat \cap DOMAIN right(k) : right(k)[i] = Power(tpn, i)
    BY <1>4, <2>1 DEF PowersIn
  <2> HIDE DEF tpn
  <2> QED
    BY <1>3, <2>2, ExpIsPower
<1>7. \A i \in DOMAIN probCache' : probCache'[i] = Probability(i)
  BY <1>1, <1>5, <1>6 DEF Probability, SumInv, CacheInv
<1> HIDE DEF ec1, ec2, right
<1>8. CacheInv' /\ CDFExact'
  BY <1>1, <1>4, <1>7 DEF SumInv, CacheInv, CDFExact
<1>9. DOMAIN gor' = DOMAIN gor /\ \A i \in DOMAIN gor : (gor'[i] = "done") <=> (gor[i] = "done")
  BY <1>1
<1>10. Added' = Added
  BY <1>1, <1>9 DEF Added
<1>11. \A i \in DOMAIN gor' : gor'[i] \in {"sent", "done"} => i \in DOMAIN probCache'
  BY <1>1, <1>9 DEF SumInv, CallInv
<1>12. CallInv'
  BY <1>1, <1>9, <1>10, <1>11 DEF SumInv, CallInv
<1> QED
  BY <1>8, <1>12 DEF SumInv

(* An answer adds its probability to the running sum, and to no other. *)
LEMMA ReceiveSumInv ==
  ASSUME SumInv, Receive
  PROVE  SumInv'
<1>1. PICK k \in DOMAIN gor :
        /\ gor[k] = "sent" /\ gor' = [gor EXCEPT ![k] = "done"]
        /\ heap' = [heap EXCEPT ![res] = @ + probCache[k]]
        /\ UNCHANGED <<cdfCache, probCache, expCache, denom, arg, res>>
  BY DEF Receive, caches
<1>2. /\ res # none /\ arg \in 0 .. N - 1 /\ k \in 0 .. arg /\ N \in Nat
      /\ res \in 1 .. Len(heap) /\ \A i \in DOMAIN cdfCache : cdfCache[i] # res
      /\ heap[res] = SumOver(Added) /\ k \in DOMAIN probCache
  BY <1>1, SortitionAssumption DEF SumInv, CallInv
<1>3. /\ heap \in Seq(Nat) /\ probCache[k] = Probability(k)
      /\ \A i \in DOMAIN cdfCache : i \in 0 .. N - 1 /\ cdfCache[i] \in 1 .. Len(heap)
  BY <1>2 DEF SumInv, CacheInv
<1>4. k \in 0 .. N /\ k \notin Added /\ Added \in SUBSET (0 .. N)
  BY <1>1, <1>2 DEF Added
<1>5. Added' = Added \cup {k}
  BY <1>1, <1>2 DEF Added
<1>6. SumOver(Added \cup {k}) = heap[res] + probCache[k]
  BY <1>2, <1>3, <1>4, SumOverFacts
<1>7. probCache[k] \in Nat /\ heap[res] \in Nat
  BY <1>2, <1>3, <1>4, ProbabilityNat
<1>8. /\ heap' \in Seq(Nat) /\ Len(heap') = Len(heap) /\ heap'[res] = heap[res] + probCache[k]
      /\ \A i \in 1 .. Len(heap) : i # res => heap'[i] = heap[i]
  BY <1>1, <1>2, <1>3, <1>7
<1>9. CacheInv'
  BY <1>1, <1>3, <1>8 DEF SumInv, CacheInv, PowersIn
<1>10. CDFExact'
  BY <1>1, <1>2, <1>3, <1>8 DEF SumInv, CDFExact
<1>11. DOMAIN gor' = DOMAIN gor /\ \A i \in DOMAIN gor : i # k => gor'[i] = gor[i]
  BY <1>1
<1>12. \A i \in DOMAIN gor' : gor'[i] \in {"sent", "done"} => i \in DOMAIN probCache'
  BY <1>1, <1>2, <1>11 DEF SumInv, CallInv
<1>13. CallInv'
  BY <1>1, <1>2, <1>5, <1>6, <1>8, <1>11, <1>12 DEF SumInv, CallInv
<1> QED
  BY <1>9, <1>10, <1>13 DEF SumInv

(* With all answers the running sum is the one that is to be cached. *)
LEMMA EndSumInv ==
  ASSUME SumInv, CDFEnd
  PROVE  SumInv'
<1>1. /\ res # none /\ \A k \in DOMAIN gor : gor[k] = "done"
      /\ cdfCache' = [k \in DOMAIN cdfCache \cup {arg} |-> IF k = arg THEN res ELSE cdfCache[k]]
      /\ res' = none /\ gor' = noCache
      /\ UNCHANGED <<heap, probCache, expCache>>
  BY DEF CDFEnd
<1>2. /\ arg \in 0 .. N - 1 /\ res \in 1 .. Len(heap) /\ heap[res] = SumOver(Added)
  BY <1>1 DEF SumInv, CallInv
<1>3. Added = 0 .. arg
  BY <1>1 DEF Added
<1>4. CacheInv'
  BY <1>1, <1>2 DEF SumInv, CacheInv, PowersIn
<1>5. CDFExact'
  BY <1>1, <1>2, <1>3 DEF SumInv, CDFExact, Cumulative
<1>6. CallInv'
  BY <1>1 DEF CallInv, noCache
<1> QED
  BY <1>4, <1>5, <1>6 DEF SumInv

(* Every step keeps the sums exact. *)
LEMMA NextSumInv == SumInv /\ [Next]_vars => SumInv'
<1> SUFFICES ASSUME SumInv, [Next]_vars PROVE SumInv'
  OBVIOUS
<1>1. CASE Call
  <2>1. UNCHANGED <<heap, caches, res, gor>>
    BY <1>1 DEF Call
  <2>2. CASE res = none
    BY <2>1, <2>2, KeptSumInv
  <2>3. CASE res # none
    BY <1>1, <2>3 DEF Call, SumInv, CallInv, none
  <2> QED
    BY <2>2, <2>3
<1>2. CASE CDFKnown
  BY <1>2, KeptSumInv DEF CDFKnown
<1>3. CASE CDFBegin
  BY <1>3, BeginSumInv
<1>4. CASE ProbLoad
  BY <1>4, LoadSumInv
<1>5. CASE ProbStore
  BY <1>5, StoreSumInv
<1>6. CASE Receive
  BY <1>6, ReceiveSumInv
<1>7. CASE CDFEnd
  BY <1>7, EndSumInv
<1>8. CASE UNCHANGED vars
  BY <1>8 DEF vars, caches, SumInv, CacheInv, CallInv, CDFExact, PowersIn, Added
<1> QED
  BY <1>1, <1>2, <1>3, <1>4, <1>5, <1>6, <1>7, <1>8 DEF Next

-----------------------------------------------------------------------------
(* The search of subUsers. *)

(* The sums grow, up to 1. *)
LEMMA CumulativeFacts ==
  /\ \A k \in 0 .. N : Cumulative(k) \in Nat
  /\ \A k \in 0 .. N : \A i \in 0 .. k : Cumulative(i) <= Cumulative(k)
  /\ Cumulative(N) = one
  /\ one \in Nat /\ one > 0
<1> DEFINE w == [k \in 0 .. N |-> Probability(k)]
<1>1. N \in Nat /\ pn \in Nat /\ pd \in Nat /\ pd - pn \in Nat /\ pn + (pd - pn) = pd /\ pd # 0
  BY SortitionAssumption
<1>2. \A k \in 0 .. N : w[k] \in Nat
  BY ProbabilityNat
<1>3. \A S \in SUBSET (0 .. N) : SumOver(S) = Sum(w, S)
  BY SumOverIsSum
<1>4. w = Terms(pn, pd - pn, N)
  BY DEF Terms, Term, Probability
<1> HIDE DEF w
<1>5. ASSUME NEW k \in 0 .. N
      PROVE  /\ Cumulative(k) \in Nat
             /\ \A i \in 0 .. k : Cumulative(i) <= Cumulative(k)
  <2>1. /\ 0 .. k \in SUBSET (0 .. N) /\ \A i \in 0 .. k : 0 .. i \subseteq 0 .. k
        /\ IsFiniteSet(0 .. k)
    BY <1>1, FS_Interval
  <2>2. \A u \in 0 .. k : w[u] \in Nat
    BY <1>2, <2>1
  <2>3. \A i \in 0 .. k : Cumulative(i) = Sum(w, 0 .. i)
    BY <1>3, <2>1 DEF Cumulative
  <2>4. k \in 0 .. k
    OBVIOUS
  <2>5. Sum(w, 0 .. k) \in Nat /\ \A i \in 0 .. k : Sum(w, 0 .. i) <= Sum(w, 0 .. k)
    BY <2>1, <2>2, SumNat, SumMono
  <2> QED
    BY <2>3, <2>4, <2>5
<1>6. Cumulative(N) = one
  <2>1. Cumulative(N) = Sum(w, 0 .. N)
    BY <1>3 DEF Cumulative
  <2>2. Sum(Terms(pn, pd - pn, N), 0 .. N) = Power(pn + (pd - pn), N)
    BY <1>1, Binomial
  <2> QED
    BY <1>1, <1>4, <2>1, <2>2 DEF one
<1>7. one \in Nat /\ one > 0
  <2>1. one \in Nat
    BY <1>1, PowerNat DEF one
  <2>2. one # 0
    BY <1>1, PowerPos DEF one
  <2> QED
    BY <2>1, <2>2
<1> QED
  BY <1>5, <1>6, <1>7

(* A hash that reaches a sum reaches the ones before it, and none reaches 1. *)
LEMMA ReachFacts ==
  ASSUME hash \in Hashes
  PROVE  /\ \A k \in 0 .. N : \A i \in 0 .. k : Reaches(k) => Reaches(i)
         /\ ~Reaches(N)
<1>1. hash \in Nat /\ HashMax \in Nat /\ hash < HashMax /\ N \in Nat
  BY SortitionAssumption
<1>2. ASSUME NEW k \in 0 .. N, NEW i \in 0 .. k, Reaches(k)
      PROVE  Reaches(i)
  <2>1. i \in 0 .. N
    BY <1>1
  <2>2. Cumulative(i) \in Nat /\ Cumulative(k) \in Nat /\ Cumulative(i) <= Cumulative(k) /\ one \in Nat
    BY <2>1, CumulativeFacts
  <2>3. Cumulative(i) * HashMax <= Cumulative(k) * HashMax
    BY <1>1, <2>2
  <2>4. hash * one \in Nat /\ Cumulative(i) * HashMax \in Nat /\ Cumulative(k) * HashMax \in Nat
    BY <1>1, <2>2
  <2>5. hash * one >= Cumulative(k) * HashMax
    BY <1>2 DEF Reaches
  <2> QED
    BY <2>3, <2>4, <2>5 DEF Reaches
<1>3. ~Reaches(N)
  <2>1. Cumulative(N) = one /\ one \in Nat /\ one > 0
    BY CumulativeFacts
  <2>2. hash * one < one * HashMax
    BY <1>1, <2>1
  <2>3. hash * one \in Nat /\ one * HashMax \in Nat
    BY <1>1, <2>1
  <2> QED
    BY <2>1, <2>2, <2>3 DEF Reaches
<1> QED
  BY <1>2, <1>3

(* A bound that CDF returned takes the search on by one interval, or ends it with
   the right number.                                                       *)
LEMMA ReturnSearch ==
  ASSUME SearchInv, hash # none, arg # none,
         NEW v, v = Cumulative(IF arg > N THEN N ELSE arg),
         Return(v), hash' = hash, res' = none
  PROVE  SearchInv' /\ SelectedExact'
<1> DEFINE inside == hash * one >= lower * HashMax /\ hash * one < v * HashMax
           reached == {k \in 0 .. N : hash * one >= Cumulative(k) * HashMax}
<1>1. /\ hash \in Hashes /\ selected = none
      /\ lower = none => arg = 0 /\ j = 0
      /\ lower # none => /\ j \in 0 .. N /\ arg = j + 1
                         /\ lower = Cumulative(j) /\ (Reaches(j) \/ ~Reaches(0))
  BY DEF SearchInv
<1>2. /\ lower' = v
      /\ j' = IF lower = none \/ inside THEN j ELSE j + 1
      /\ selected' = IF lower = none THEN none
                     ELSE IF inside THEN j
                     ELSE IF j + 1 > N THEN 0 ELSE none
      /\ arg' = IF selected' = none THEN j' + 1 ELSE none
  BY DEF Return
<1>3. N \in Nat /\ N > 0 /\ HashMax \in Nat /\ hash \in Nat
  BY <1>1, SortitionAssumption
<1>4. /\ \A k \in 0 .. N : \A i \in 0 .. k : Reaches(k) => Reaches(i)
      /\ ~Reaches(N)
  BY <1>1, ReachFacts
<1>5. CASE lower = none
  <2>1. v = Cumulative(0) /\ j' = 0 /\ arg' = 1 /\ selected' = none /\ v \in Nat
    <3>1. v = Cumulative(0)
      BY <1>1, <1>3, <1>5
    <3>2. Cumulative(0) \in Nat
      BY <1>3, CumulativeFacts
    <3> QED
      BY <1>1, <1>2, <1>5, <3>1, <3>2
  <2>2. lower' # none
    BY <1>2, <2>1 DEF none
  <2>3. SearchInv'
    <3>1. 0 \in 0 .. N
      BY <1>3
    <3>2. lower' = Cumulative(0)
      BY <1>2, <2>1
    <3> QED
      BY <1>1, <2>1, <2>2, <3>1, <3>2 DEF SearchInv, Reaches
  <2>4. SelectedExact'
    BY <2>1 DEF SelectedExact
  <2> QED
    BY <2>3, <2>4
<1>6. CASE lower # none
  <2> DEFINE m == IF j + 1 > N THEN N ELSE j + 1
  <2>1. m \in 0 .. N /\ v = Cumulative(m) /\ v \in Nat /\ lower \in Nat /\ one \in Nat
    <3>1. m \in 0 .. N /\ v = Cumulative(m)
      BY <1>1, <1>3, <1>6
    <3> HIDE DEF m
    <3> QED
      BY <1>1, <1>6, <3>1, CumulativeFacts
  <2>2. inside <=> Reaches(j) /\ ~Reaches(m)
    <3>1. hash * one \in Nat /\ lower * HashMax \in Nat /\ v * HashMax \in Nat
      BY <1>3, <2>1
    <3>2. hash * one < v * HashMax <=> ~(hash * one >= v * HashMax)
      BY <3>1
    <3> HIDE DEF m
    <3> QED
      BY <1>1, <1>6, <2>1, <3>2 DEF Reaches
  <2>3. v # none /\ j \in 0 .. N
    BY <1>1, <1>6, <2>1 DEF none
  <2> HIDE DEF inside
  <2>4. CASE inside
    <3>1. selected' = j /\ arg' = none /\ j \in Nat /\ j < N /\ m = j + 1
      <4>1. j # N
        BY <1>4, <2>2, <2>4
      <4> QED
        BY <1>2, <1>3, <1>6, <2>3, <2>4, <4>1 DEF none
    <3>2. reached = 0 .. j
      <4>1. \A k \in 0 .. j : k \in 0 .. N /\ Reaches(k)
        BY <1>3, <1>4, <2>2, <2>3, <2>4
      <4>2. \A k \in j + 1 .. N : ~Reaches(k)
        BY <1>3, <1>4, <2>2, <2>3, <2>4, <3>1
      <4>3. \A k \in 0 .. N : k \in reached <=> Reaches(k)
        BY DEF Reaches
      <4>4. \A k \in 0 .. N : k \in 0 .. j \/ k \in j + 1 .. N
        BY <1>3, <2>3
      <4> HIDE DEF m
      <4>5. \A k \in 0 .. N : Reaches(k) <=> k \in 0 .. j
        BY <4>1, <4>2, <4>4
      <4>6. reached \subseteq 0 .. N
        OBVIOUS
      <4> HIDE DEF reached
      <4>7. \A k : k \in reached <=> k \in 0 .. j
        BY <4>1, <4>3, <4>5, <4>6
      <4> QED
        BY <4>7, Zenon
    <3>3. Cardinality(reached) = j + 1 /\ reached # {}
      <4>1. Cardinality(0 .. j) = j + 1 /\ 0 \in 0 .. j
        <5>1. 0 \in Int /\ j \in Int /\ ~(0 > j) /\ j - 0 + 1 = j + 1
          BY <3>1
        <5>2. Cardinality(0 .. j) = j - 0 + 1
          BY <5>1, FS_Interval
        <5> QED
          BY <3>1, <5>1, <5>2
      <4> HIDE DEF reached
      <4> QED
        BY <3>2, <4>1
    <3>4. SelectedExact'
      <4>1. selected' = Cardinality(reached) - 1
        BY <3>1, <3>3
      <4> QED
        BY <3>3, <4>1 DEF SelectedExact
    <3> QED
      BY <1>1, <3>1, <3>4 DEF SearchInv, none
  <2>5. CASE ~inside /\ j + 1 > N
    <3>1. selected' = 0 /\ arg' = none
      BY <1>2, <1>6, <2>5 DEF none
    <3>2. reached = {}
      <4>1. ~Reaches(0)
        <5>1. j = N
          BY <1>3, <2>3, <2>5
        <5> QED
          BY <1>1, <1>4, <1>6, <5>1
      <4>2. \A k \in 0 .. N : ~Reaches(k)
        BY <1>3, <1>4, <4>1
      <4> QED
        BY <4>2 DEF Reaches
    <3>3. SelectedExact'
      BY <3>1, <3>2 DEF SelectedExact
    <3> QED
      BY <1>1, <3>1, <3>3 DEF SearchInv, none
  <2>6. CASE ~inside /\ ~(j + 1 > N)
    <3>1. selected' = none /\ j' = j + 1 /\ arg' = (j + 1) + 1 /\ lower' = Cumulative(j + 1) /\ lower' # none
      BY <1>2, <1>6, <2>1, <2>3, <2>6
    <3>2. j + 1 \in 0 .. N /\ (Reaches(j + 1) \/ ~Reaches(0))
      BY <1>1, <1>3, <1>6, <2>2, <2>3, <2>6
    <3> QED
      BY <1>1, <3>1, <3>2 DEF SearchInv, SelectedExact, Reaches
  <2> QED
    BY <2>4, <2>5, <2>6
<1> QED
  BY <1>5, <1>6

(* Steps of a running call of CDF leave the search alone. *)
LEMMA SearchKept ==
  ASSUME SearchInv, SelectedExact, UNCHANGED <<hash, arg, j, lower, selected>>,
         selected # none => res' = none
  PROVE  SearchInv' /\ SelectedExact'
<1>1. SearchInv'
  BY DEF SearchInv, Reaches
<1>2. SelectedExact'
  BY DEF SelectedExact
<1> QED
  BY <1>1, <1>2

(* Every step keeps the search right. *)
LEMMA NextSearch ==
  ASSUME SumInv, SearchInv, SelectedExact, [Next]_vars
  PROVE  SearchInv' /\ SelectedExact'
<1>1. CASE Call
  BY <1>1 DEF Call, SearchInv, SelectedExact
<1>2. ASSUME hash = none, hash' = hash, NEW v, Return(v)
      PROVE  SearchInv' /\ SelectedExact'
  BY <1>2 DEF Return, SearchInv, SelectedExact
<1>3. ASSUME hash # none, arg # none
      PROVE  arg \in 0 .. N + 1 /\ N \in Nat /\ N > 0
  BY <1>3, SortitionAssumption DEF SearchInv
<1>4. CASE CDFKnown
  <2>1. arg # none /\ res = none /\ res' = res /\ hash' = hash
    BY <1>4 DEF CDFKnown
  <2>2. PICK v : /\ Return(v)
                 /\ \/ arg < 0
                    \/ arg >= N /\ v = one
                    \/ arg \in DOMAIN cdfCache /\ arg \in 0 .. N - 1 /\ v = heap[cdfCache[arg]]
    <3>1. CASE arg < 0 /\ Return(0)
      BY <3>1
    <3>2. CASE arg >= N /\ Return(one)
      BY <3>2
    <3>3. CASE arg \in DOMAIN cdfCache /\ arg \in 0 .. N - 1 /\ Return(heap[cdfCache[arg]])
      BY <3>3
    <3> QED
      BY <1>4, <3>1, <3>2, <3>3 DEF CDFKnown
  <2>3. CASE hash # none
    <3>1. arg \in 0 .. N + 1 /\ N \in Nat /\ N > 0
      BY <1>3, <2>1, <2>3
    <3>2. v = Cumulative(IF arg > N THEN N ELSE arg)
      <4>1. CASE arg >= N /\ v = one
        <5>1. (IF arg > N THEN N ELSE arg) = N
          BY <3>1, <4>1
        <5>2. Cumulative(N) = one
          BY CumulativeFacts
        <5> QED
          BY <4>1, <5>1, <5>2
      <4>2. CASE arg \in DOMAIN cdfCache /\ arg \in 0 .. N - 1 /\ v = heap[cdfCache[arg]]
        <5>1. (IF arg > N THEN N ELSE arg) = arg
          BY <3>1, <4>2
        <5>2. heap[cdfCache[arg]] = Cumulative(arg)
          BY <4>2 DEF SumInv, CDFExact
        <5> QED
          BY <4>2, <5>1, <5>2
      <4> QED
        BY <2>2, <3>1, <4>1, <4>2
    <3> QED
      BY <2>1, <2>2, <2>3, <3>2, ReturnSearch
  <2> QED
    BY <1>2, <2>1, <2>2, <2>3
<1>5. CASE CDFBegin
  <2>1. UNCHANGED <<hash, arg, j, lower, selected>> /\ arg \in 0 .. N - 1
    BY <1>5 DEF CDFBegin
  <2>2. selected = none
    BY <2>1 DEF SearchInv, none
  <2> QED
    BY <2>1, <2>2, SearchKept
<1>6. CASE ProbLoad \/ ProbStore \/ Receive \/ UNCHANGED vars
  <2>1. UNCHANGED <<hash, arg, res, j, lower, selected>>
    BY <1>6 DEF ProbLoad, ProbStore, Receive, vars
  <2>2. selected # none => res = none
    BY DEF SearchInv
  <2> QED
    BY <2>1, <2>2, SearchKept
<1>7. CASE CDFEnd
  <2>1. /\ res # none /\ Return(heap[res]) /\ res' = none /\ hash' = hash
        /\ \A k \in DOMAIN gor : gor[k] = "done"
    BY <1>7 DEF CDFEnd
  <2>2. arg \in 0 .. N - 1 /\ arg # none /\ heap[res] = SumOver(Added)
    BY <2>1 DEF SumInv, CallInv, none
  <2>3. Added = 0 .. arg
    BY <2>1 DEF Added
  <2>4. heap[res] = Cumulative(IF arg > N THEN N ELSE arg)
    <3>1. (IF arg > N THEN N ELSE arg) = arg
      BY <2>2, SortitionAssumption
    <3> QED
      BY <2>2, <2>3, <3>1 DEF Cumulative
  <2> QED
    BY <1>2, <2>1, <2>2, <2>4, ReturnSearch
<1> QED
  BY <1>1, <1>4, <1>5, <1>6, <1>7 DEF Next

-----------------------------------------------------------------------------
(* The inductive invariant: exact sums, and a search that has not missed the hash. *)
THEOREM Invariance == Spec => []IInv
<1>1. Init => IInv
  <2>1. Init => SearchInv /\ SelectedExact
    BY DEF Init, SearchInv, SelectedExact, none
  <2> QED
    BY <2>1, InitSumInv DEF IInv
<1>2. IInv /\ [Next]_vars => IInv'
  BY NextSumInv, NextSearch DEF IInv
<1> QED
  BY <1>1, <1>2, PTL DEF Spec

(* A cached sum is exact, for any number of tokens and any probability: in
   whatever order CDF was asked and its goroutines answered, and although later
   sums are started from earlier ones and powers are shared by the caches.  *)
THEOREM CachedSumsAreExact == Spec => []CDFExact
<1>1. IInv => CDFExact
  BY DEF IInv, SumInv
<1> QED
  BY <1>1, Invariance, PTL

(* subUsers selects as many sub-users as the hash reaches sums, less one, for any
   number of tokens, any probability and any hash.                          *)
THEOREM SubUsersAreExact == Spec => []SelectedExact
<1>1. IInv => SelectedExact
  BY DEF IInv
<1> QED
  BY <1>1, Invariance, PTL

-----------------------------------------------------------------------------
(* The common coin. *)

(* The least of a set of natural numbers. *)
LEMMA MinFacts ==
  ASSUME NEW X, X \subseteq Nat, X # {}
  PROVE  /\ Min(X) \in X /\ \A y \in X : Min(X) <= y
         /\ \A x \in X : (\A y \in X : x <= y) => x = Min(X)
<1>1. \E x \in X : \A y \in X : x <= y
  BY LeastNat
<1>2. Min(X) \in X /\ \A y \in X : Min(X) <= y
  BY <1>1 DEF Min
<1>3. ASSUME NEW x \in X, \A y \in X : x <= y
      PROVE  x = Min(X)
  <2>1. x <= Min(X) /\ Min(X) <= x /\ x \in Nat /\ Min(X) \in Nat
    BY <1>2, <1>3
  <2> QED
    BY <2>1
<1> QED
  BY <1>2, <1>3

Votes == [vrf : Hashes, votes : 0 .. N]

(* The hashes of a vote that the coin looks at. *)
CoinHashes(m) == {CoinHash(m.vrf, i) : i \in 1 .. m.votes - 1}

(* The inner loop of commonCoin finds the least hash of a vote. *)
LEMMA MinhashIsMin ==
  ASSUME NEW min \in Nat, NEW m \in Votes
  PROVE  minhash(min, m) = Min({min} \cup CoinHashes(m))
<1> DEFINE D == 1 .. m.votes - 1
           q == [i \in D |-> i]
           h(i) == CoinHash(m.vrf, i)
           E(g) == [s \in SUBSET DOMAIN q |->
                      IF s = {} THEN min
                      ELSE IF h(q[Max(s)]) < g[s \ {Max(s)}] THEN h(q[Max(s)]) ELSE g[s \ {Max(s)}]]
           val(s, g) == IF s = {} THEN min
                        ELSE IF h(Max(s)) < g[s \ {Max(s)}] THEN h(Max(s)) ELSE g[s \ {Max(s)}]
           F(g) == [s \in SUBSET D |-> val(s, g)]
           X(s) == {min} \cup {h(i) : i \in s}
           W == [s \in SUBSET D |-> Min(X(s))]
<1>1. minhash(min, m) = (CHOOSE g : g = E(g))[DOMAIN q]
  BY DEF minhash, FoldLeft, MapThenFoldSet
<1>2. m.votes \in Nat /\ IsFiniteSet(D) /\ DOMAIN q = D /\ \A i \in D : q[i] = i /\ h(i) \in Nat
  <2>1. m.votes \in 0 .. N /\ m.vrf \in Hashes /\ N \in Nat
    BY SortitionAssumption DEF Votes
  <2>2. IsFiniteSet(D)
    BY <2>1, FS_Interval
  <2>3. \A i \in D : i \in 1 .. N
    BY <2>1
  <2>4. \A i \in D : h(i) \in Nat
    BY <2>1, <2>3, SortitionAssumption
  <2> QED
    BY <2>1, <2>2, <2>4
<1>3. ASSUME NEW s \in SUBSET D, s # {}
      PROVE  Max(s) \in s
  <2>1. s \in SUBSET (0 .. m.votes) /\ m.votes \in Nat
    BY <1>2
  <2> QED
    BY <1>3, <2>1, MaxOfBounded
<1>4. \A g : E(g) = F(g)
  <2> SUFFICES ASSUME NEW g PROVE E(g) = F(g)
    OBVIOUS
  <2>1. \A s \in SUBSET D : s # {} => q[Max(s)] = Max(s)
    BY <1>2, <1>3
  <2> HIDE DEF q, h, D
  <2> QED
    BY <1>2, <2>1
<1>5. \A s \in SUBSET D : X(s) \subseteq Nat /\ X(s) # {}
  BY <1>2
<1>6. ASSUME NEW s \in SUBSET D, NEW g, s # {} => g[s \ {Max(s)}] = Min(X(s \ {Max(s)}))
      PROVE  val(s, g) = Min(X(s))
  <2>1. CASE s = {}
    <3>1. X(s) = {min}
      BY <2>1
    <3>2. Min({min}) = min
      BY MinFacts
    <3> QED
      BY <2>1, <3>1, <3>2
  <2>2. CASE s # {}
    <3> DEFINE x == Max(s)
               r == s \ {x}
    <3>1. x \in s /\ x \in D /\ r \in SUBSET D /\ h(x) \in Nat
      BY <1>2, <1>3, <2>2
    <3>2. X(s) = X(r) \cup {h(x)}
      BY <3>1
    <3> HIDE DEF x, r, X, h
    <3>3. Min(X(r)) \in X(r) /\ \A y \in X(r) : Min(X(r)) <= y
      BY <1>5, <3>1, MinFacts
    <3>4. /\ X(s) \subseteq Nat /\ X(s) # {} /\ X(r) \subseteq Nat
          /\ \A z \in X(s) : (\A y \in X(s) : z <= y) => z = Min(X(s))
      BY <1>5, <3>1, MinFacts
    <3>5. val(s, g) = IF h(x) < Min(X(r)) THEN h(x) ELSE Min(X(r))
      BY <1>6, <2>2 DEF x, r
    <3>6. CASE h(x) < Min(X(r))
      <4>1. \A y \in X(s) : h(x) <= y
        BY <3>1, <3>2, <3>3, <3>4, <3>6
      <4> QED
        BY <3>2, <3>4, <3>5, <3>6, <4>1
    <3>7. CASE ~(h(x) < Min(X(r)))
      <4>1. \A y \in X(s) : Min(X(r)) <= y
        BY <3>1, <3>2, <3>3, <3>4, <3>7
      <4> QED
        BY <3>2, <3>3, <3>4, <3>5, <3>7, <4>1
    <3> QED
      BY <3>6, <3>7
  <2> QED
    BY <2>1, <2>2
<1> HIDE DEF val, X
<1>7. W = F(W)
  <2>1. ASSUME NEW s \in SUBSET D
        PROVE  val(s, W) = Min(X(s))
    <3>1. s # {} => W[s \ {Max(s)}] = Min(X(s \ {Max(s)}))
      OBVIOUS
    <3> HIDE DEF W
    <3> QED
      BY <1>6, <3>1
  <2> QED
    BY <2>1
<1>8. ASSUME NEW g, g = F(g)
      PROVE  g[D] = Min(X(D))
  <2> DEFINE T == {s \in SUBSET D : g[s] # Min(X(s))}
  <2> SUFFICES ASSUME T # {} PROVE FALSE
    OBVIOUS
  <2>1. PICK s \in T : \A r \in T : r \subseteq s => r = s
    <3>1. T \subseteq SUBSET D
      OBVIOUS
    <3> HIDE DEF T, D
    <3> QED
      BY <1>2, <3>1, MinimalSet
  <2>2. s \in SUBSET D /\ g[s] # Min(X(s))
    BY <2>1
  <2>3. s # {} => g[s \ {Max(s)}] = Min(X(s \ {Max(s)}))
    <3> SUFFICES ASSUME s # {} PROVE g[s \ {Max(s)}] = Min(X(s \ {Max(s)}))
      OBVIOUS
    <3>1. s \ {Max(s)} \in SUBSET D /\ s \ {Max(s)} # s /\ s \ {Max(s)} \subseteq s
      BY <1>3, <2>2
    <3> QED
      BY <2>1, <3>1
  <2>4. g[s] = val(s, g)
    <3> HIDE DEF D
    <3> QED
      BY <1>8, <2>2, Zenon
  <2> QED
    BY <1>6, <2>2, <2>3, <2>4
<1> HIDE DEF E, F, W, q
<1>9. (CHOOSE g : g = E(g)) = F((CHOOSE g : g = E(g)))
  BY <1>4, <1>7
<1>10. minhash(min, m) = Min(X(D))
  BY <1>1, <1>2, <1>8, <1>9
<1> QED
  BY <1>10 DEF X, CoinHashes

(* The hashes of all the votes in a list. *)
AllHashes(msgs, s) == {CoinStart} \cup UNION {CoinHashes(msgs[i]) : i \in s}

(* The coin is the lowest bit of the least of them. *)
LEMMA CoinIsMin ==
  ASSUME NEW msgs \in Seq(Votes)
  PROVE  commonCoin(msgs) = Min(AllHashes(msgs, DOMAIN msgs)) % 2
<1> DEFINE D == DOMAIN msgs
           val(s, g) == IF s = {} THEN CoinStart ELSE minhash(g[s \ {Max(s)}], msgs[Max(s)])
           F(g) == [s \in SUBSET D |-> val(s, g)]
           X(s) == AllHashes(msgs, s)
           W == [s \in SUBSET D |-> Min(X(s))]
<1>1. commonCoin(msgs) = (CHOOSE g : g = F(g))[D] % 2
  BY DEF commonCoin, FoldLeft, MapThenFoldSet
<1>2. Len(msgs) \in Nat /\ D = 1 .. Len(msgs) /\ IsFiniteSet(D) /\ \A i \in D : msgs[i] \in Votes
  <2>1. Len(msgs) \in Nat /\ D = 1 .. Len(msgs)
    OBVIOUS
  <2>2. IsFiniteSet(D)
    BY <2>1, FS_Interval
  <2> QED
    BY <2>1, <2>2
<1>3. ASSUME NEW s \in SUBSET D, s # {}
      PROVE  Max(s) \in s
  <2>1. s \in SUBSET (0 .. Len(msgs)) /\ Len(msgs) \in Nat
    BY <1>2
  <2> QED
    BY <1>3, <2>1, MaxOfBounded
<1>4. \A m \in Votes : CoinHashes(m) \subseteq Nat
  <2> SUFFICES ASSUME NEW m \in Votes, NEW i \in 1 .. m.votes - 1 PROVE CoinHash(m.vrf, i) \in Nat
    BY DEF CoinHashes
  <2>1. m.vrf \in Hashes /\ m.votes \in 0 .. N /\ N \in Nat
    BY SortitionAssumption DEF Votes
  <2>2. i \in 1 .. N
    BY <2>1
  <2> QED
    BY <2>1, <2>2, SortitionAssumption
<1>5. \A s \in SUBSET D : X(s) \subseteq Nat /\ X(s) # {}
  BY <1>2, <1>4, SortitionAssumption DEF AllHashes
<1>6. ASSUME NEW s \in SUBSET D, NEW g, s # {} => g[s \ {Max(s)}] = Min(X(s \ {Max(s)}))
      PROVE  val(s, g) = Min(X(s))
  <2>1. CASE s = {}
    <3>1. X(s) = {CoinStart} /\ CoinStart \in Nat
      BY <2>1, SortitionAssumption DEF AllHashes
    <3>2. Min({CoinStart}) = CoinStart
      BY <3>1, MinFacts
    <3> QED
      BY <2>1, <3>1, <3>2
  <2>2. CASE s # {}
    <3> DEFINE x == Max(s)
               r == s \ {x}
               l == Min(X(r))
               H == CoinHashes(msgs[x])
    <3>1. x \in s /\ x \in D /\ r \in SUBSET D /\ msgs[x] \in Votes
      BY <1>2, <1>3, <2>2
    <3>2. X(s) = X(r) \cup H
      BY <3>1 DEF AllHashes
    <3>3. val(s, g) = minhash(l, msgs[x])
      BY <1>6, <2>2
    <3> HIDE DEF x, r, X, val
    <3>4. l \in X(r) /\ l \in Nat /\ \A y \in X(r) : l <= y
      BY <1>5, <3>1, MinFacts
    <3>5. H \subseteq Nat
      BY <1>4, <3>1
    <3>6. val(s, g) = Min({l} \cup H)
      BY <3>1, <3>3, <3>4, MinhashIsMin
    <3> HIDE DEF l, H
    <3> DEFINE k == Min({l} \cup H)
    <3>7. k \in {l} \cup H /\ \A y \in {l} \cup H : k <= y
      BY <3>4, <3>5, MinFacts
    <3> HIDE DEF k
    <3>8. k \in X(s)
      BY <3>2, <3>4, <3>7
    <3>9. \A y \in X(s) : k <= y
      <4>1. ASSUME NEW y \in X(r) PROVE k <= y
        <5>1. k <= l /\ l <= y /\ k \in Nat /\ l \in Nat /\ y \in Nat
          BY <1>5, <3>1, <3>4, <3>5, <3>7
        <5> QED
          BY <5>1
      <4> QED
        BY <3>2, <3>7, <4>1
    <3>10. X(s) \subseteq Nat /\ X(s) # {}
      BY <1>5
    <3>11. k = Min(X(s))
      BY <3>8, <3>9, <3>10, MinFacts
    <3> QED
      BY <3>6, <3>11 DEF k
  <2> QED
    BY <2>1, <2>2
<1> HIDE DEF val, X
<1>7. W = F(W)
  <2>1. ASSUME NEW s \in SUBSET D
        PROVE  val(s, W) = Min(X(s))
    <3>1. s # {} => W[s \ {Max(s)}] = Min(X(s \ {Max(s)}))
      OBVIOUS
    <3> HIDE DEF W
    <3> QED
      BY <1>6, <3>1
  <2> QED
    BY <2>1
<1>8. ASSUME NEW g, g = F(g)
      PROVE  g[D] = Min(X(D))
  <2> DEFINE T == {s \in SUBSET D : g[s] # Min(X(s))}
  <2> SUFFICES ASSUME T # {} PROVE FALSE
    OBVIOUS
  <2>1. PICK s \in T : \A r \in T : r \subseteq s => r = s
    <3>1. T \subseteq SUBSET D
      OBVIOUS
    <3>2. IsFiniteSet(D)
      BY <1>2
    <3> HIDE DEF T, D
    <3> QED
      BY <3>1, <3>2, MinimalSet
  <2>2. s \in SUBSET D /\ g[s] # Min(X(s))
    BY <2>1
  <2>3. s # {} => g[s \ {Max(s)}] = Min(X(s \ {Max(s)}))
    <3> SUFFICES ASSUME s # {} PROVE g[s \ {Max(s)}] = Min(X(s \ {Max(s)}))
      OBVIOUS
    <3>1. s \ {Max(s)} \in SUBSET D /\ s \ {Max(s)} # s /\ s \ {Max(s)} \subseteq s
      BY <1>3, <2>2
    <3> QED
      BY <2>1, <3>1
  <2>4. g[s] = val(s, g)
    <3> HIDE DEF D
    <3> QED
      BY <1>8, <2>2, Zenon
  <2> QED
    BY <1>6, <2>2, <2>3, <2>4
<1> HIDE DEF F, W
<1>9. (CHOOSE g : g = F(g)) = F((CHOOSE g : g = F(g)))
  BY <1>7
<1> QED
  BY <1>1, <1>8, <1>9 DEF X

(* Two nodes whose lists hold the same votes toss the same coin: neither the
   order in which they came nor how often one came makes a difference.      *)
THEOREM SameVotesSameCoin ==
  ASSUME NEW l1 \in Seq(Votes), NEW l2 \in Seq(Votes),
         {l1[i] : i \in DOMAIN l1} = {l2[i] : i \in DOMAIN l2}
  PROVE  commonCoin(l1) = commonCoin(l2)
<1>1. AllHashes(l1, DOMAIN l1) = AllHashes(l2, DOMAIN l2)
  <2>1. ASSUME NEW l, NEW y
        PROVE  y \in UNION {CoinHashes(l[i]) : i \in DOMAIN l}
                 <=> \E m \in {l[i] : i \in DOMAIN l} : y \in CoinHashes(m)
    OBVIOUS
  <2>2. UNION {CoinHashes(l1[i]) : i \in DOMAIN l1} = UNION {CoinHashes(l2[i]) : i \in DOMAIN l2}
    BY <2>1
  <2> QED
    BY <2>2 DEF AllHashes
<1> QED
  BY <1>1, CoinIsMin

(* So the coin does not depend on the order of the votes. *)
THEOREM CoinIsOrderFree == Spec => []CoinOrderFree
<1>1. IInv => CoinOrderFree
  <2> SUFFICES ASSUME IInv, selected # none, NEW w \in Hashes, NEW n \in 0 .. N
               PROVE  LET a == [vrf |-> hash, votes |-> selected]
                          b == [vrf |-> w, votes |-> n]
                      IN  /\ commonCoin(<<a, b>>) = commonCoin(<<b, a>>)
                          /\ commonCoin(<<a, b, a>>) = commonCoin(<<a, b>>)
    BY DEF CoinOrderFree
  <2> DEFINE a == [vrf |-> hash, votes |-> selected]
             b == [vrf |-> w, votes |-> n]
             reached == {k \in 0 .. N : hash * one >= Cumulative(k) * HashMax}
  <2>1. hash \in Hashes /\ N \in Nat /\ N > 0
    BY SortitionAssumption DEF IInv, SearchInv
  <2>2. selected \in 0 .. N
    <3>1. selected = IF reached = {} THEN 0 ELSE Cardinality(reached) - 1
      BY DEF IInv, SelectedExact
    <3>2. IsFiniteSet(0 .. N) /\ Cardinality(0 .. N) = N + 1
      <4>1. 0 \in Int /\ N \in Int /\ ~(0 > N) /\ N - 0 + 1 = N + 1
        BY <2>1
      <4>2. IsFiniteSet(0 .. N) /\ Cardinality(0 .. N) = N - 0 + 1
        BY <4>1, FS_Interval
      <4> QED
        BY <4>1, <4>2
    <3>3. reached \subseteq 0 .. N
      OBVIOUS
    <3> HIDE DEF reached
    <3>4. IsFiniteSet(reached) /\ Cardinality(reached) <= Cardinality(0 .. N) /\ Cardinality(reached) \in Nat
      BY <3>2, <3>3, FS_Subset, FS_CardinalityType
    <3>5. reached # {} => Cardinality(reached) # 0
      BY <3>4, FS_EmptySet
    <3> QED
      BY <2>1, <3>1, <3>2, <3>4, <3>5
  <2>3. a \in Votes /\ b \in Votes
    BY <2>1, <2>2 DEF Votes
  <2> HIDE DEF a, b
  <2>4. /\ <<a, b>> \in Seq(Votes) /\ <<b, a>> \in Seq(Votes) /\ <<a, b, a>> \in Seq(Votes)
        /\ {<<a, b>>[i] : i \in DOMAIN <<a, b>>} = {a, b}
        /\ {<<b, a>>[i] : i \in DOMAIN <<b, a>>} = {a, b}
        /\ {<<a, b, a>>[i] : i \in DOMAIN <<a, b, a>>} = {a, b}
    BY <2>3
  <2>5. commonCoin(<<a, b>>) = commonCoin(<<b, a>>)
    BY <2>4, SameVotesSameCoin
  <2>6. commonCoin(<<a, b, a>>) = commonCoin(<<a, b>>)
    BY <2>4, SameVotesSameCoin
  <2> QED
    BY <2>5, <2>6 DEF a, b
<1> QED
  BY <1>1, Invariance, PTL

=============================================================================
