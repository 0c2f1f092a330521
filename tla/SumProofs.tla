----------------------------- MODULE SumProofs ------------------------------
(***************************************************************************)
(* Sums over finite sets, as of the weights that countVotes compares with  *)
(* its thresholds or of the limbs of a field element, powers, congruence   *)
(* and folds.  The models take sums with MapThenSumSet, a recursive        *)
(* function over the subsets of the set.  That this function exists, and   *)
(* what it computes, is proved by minimal counterexamples: a set of        *)
(* subsets of a finite set has a minimal member.                           *)
(***************************************************************************)
EXTENDS Powers, FiniteSets, FiniteSetsExt, FiniteSetTheorems, NaturalsInduction, TLAPS

Sum(w, S) == MapThenSumSet(LAMBDA u : w[u], S)

(* The element that the fold takes from s first. *)
Chosen(s) == CHOOSE x \in s : TRUE

(* g is the recursive function behind the sum over S. *)
IsSum(g, S, w) ==
  g = [s \in SUBSET S |-> IF s = {} THEN 0 ELSE w[Chosen(s)] + g[s \ {Chosen(s)}]]

SumFcn(S, w) == CHOOSE g : IsSum(g, S, w)

(* The sum is a value of that function. *)
LEMMA SumIs ==
  ASSUME NEW S, NEW w
  PROVE  Sum(w, S) = SumFcn(S, w)[S]
BY DEF Sum, MapThenSumSet, MapThenFoldSet, SumFcn, IsSum, Chosen

(* A set of subsets of a finite set has a minimal element. *)
LEMMA MinimalSet ==
  ASSUME NEW S, IsFiniteSet(S), NEW T, T \subseteq SUBSET S, T # {}
  PROVE  \E t \in T : \A r \in T : r \subseteq t => r = t
<1>1. IsWellFoundedOn(StrictSubsetOrdering(S), FiniteSubsetsOf(S))
  BY FS_StrictSubsetOrderingWellFounded
<1>2. T \subseteq FiniteSubsetsOf(S)
  BY FS_FiniteSubsetsOfFinite
<1>3. \E t \in T : \A r \in T : ~(<<r, t>> \in StrictSubsetOrdering(S))
  BY <1>1, <1>2, WFMin
<1> QED
  BY <1>3 DEF StrictSubsetOrdering

(* The fold takes elements of the set. *)
LEMMA ChosenIn ==
  ASSUME NEW s, s # {}
  PROVE  Chosen(s) \in s
BY DEF Chosen

(* Two such functions agree on the sets both are defined for. *)
LEMMA SumUnique ==
  ASSUME NEW S, NEW R, IsFiniteSet(S), NEW w, NEW g, NEW h, IsSum(g, S, w), IsSum(h, R, w),
         NEW t, t \subseteq S, t \subseteq R
  PROVE  g[t] = h[t]
<1> DEFINE T == {s \in SUBSET S : s \subseteq R /\ g[s] # h[s]}
<1> SUFFICES ASSUME T # {} PROVE FALSE
  OBVIOUS
<1>1. PICK s \in T : \A q \in T : q \subseteq s => q = s
  <2>1. T \subseteq SUBSET S
    OBVIOUS
  <2> HIDE DEF T
  <2> QED
    BY <2>1, MinimalSet
<1>2. s \subseteq S /\ s \subseteq R /\ g[s] # h[s]
  BY <1>1
<1>3. /\ g[s] = IF s = {} THEN 0 ELSE w[Chosen(s)] + g[s \ {Chosen(s)}]
      /\ h[s] = IF s = {} THEN 0 ELSE w[Chosen(s)] + h[s \ {Chosen(s)}]
  <2>1. s \in SUBSET S /\ s \in SUBSET R
    BY <1>2
  <2> QED
    BY <2>1, Zenon DEF IsSum
<1>4. s # {}
  BY <1>2, <1>3
<1>5. s \ {Chosen(s)} \in T => FALSE
  BY <1>1, <1>4, ChosenIn
<1>6. g[s \ {Chosen(s)}] = h[s \ {Chosen(s)}]
  BY <1>2, <1>5
<1> QED
  BY <1>2, <1>3, <1>4, <1>6

(* Such a function exists for every finite set. *)
LEMMA SumExists ==
  ASSUME NEW S, IsFiniteSet(S), NEW w
  PROVE  \E g : IsSum(g, S, w)
<1> DEFINE T == {s \in SUBSET S : ~\E g : IsSum(g, s, w)}
<1> SUFFICES ASSUME T # {} PROVE FALSE
  OBVIOUS
<1>1. PICK t \in T : \A q \in T : q \subseteq t => q = t
  <2>1. T \subseteq SUBSET S
    OBVIOUS
  <2> HIDE DEF T
  <2> QED
    BY <2>1, MinimalSet
<1>2. t \subseteq S /\ ~\E g : IsSum(g, t, w)
  BY <1>1
<1>3. ASSUME NEW q, q \subseteq t, q # t
      PROVE  IsSum(SumFcn(q, w), q, w)
  <2>1. \E g : IsSum(g, q, w)
    BY <1>1, <1>2, <1>3
  <2> QED
    BY <2>1 DEF SumFcn
<1> DEFINE rest(s) == s \ {Chosen(s)}
           G == [s \in SUBSET t |->
                  IF s = {} THEN 0 ELSE w[Chosen(s)] + SumFcn(rest(s), w)[rest(s)]]
<1>4. ASSUME NEW s \in SUBSET t, s # {}
      PROVE  G[rest(s)] = SumFcn(rest(s), w)[rest(s)]
  <2> DEFINE q == rest(s)
             p == rest(q)
  <2>1. q \subseteq t /\ q # t /\ p \subseteq q /\ p # t
    BY <1>4, ChosenIn
  <2>2. IsSum(SumFcn(q, w), q, w) /\ IsSum(SumFcn(p, w), p, w)
    BY <1>3, <2>1
  <2>3. SumFcn(q, w)[p] = SumFcn(p, w)[p]
    <3>1. IsFiniteSet(q) /\ IsFiniteSet(p)
      BY <1>2, <2>1, FS_Subset
    <3> HIDE DEF q, p
    <3> QED
      BY <2>1, <2>2, <3>1, SumUnique
  <2>4. SumFcn(q, w)[q] = IF q = {} THEN 0 ELSE w[Chosen(q)] + SumFcn(q, w)[p]
    <3>1. q \in SUBSET q
      OBVIOUS
    <3> HIDE DEF q
    <3> QED
      BY <2>2, <3>1, Zenon DEF IsSum
  <2>5. G[q] = IF q = {} THEN 0 ELSE w[Chosen(q)] + SumFcn(p, w)[p]
    <3>1. q \in SUBSET t
      BY <2>1
    <3> HIDE DEF q
    <3> QED
      BY <3>1, Zenon
  <2> QED
    BY <2>3, <2>4, <2>5
<1>5. G = [s \in SUBSET t |-> IF s = {} THEN 0 ELSE w[Chosen(s)] + G[rest(s)]]
  BY <1>4
<1>6. IsSum(G, t, w)
  BY <1>5 DEF IsSum
<1> QED
  BY <1>2, <1>6

(* The sum of a set, unfolded once. *)
LEMMA SumUnfold ==
  ASSUME NEW S, IsFiniteSet(S), NEW w
  PROVE  /\ S = {} => Sum(w, S) = 0
         /\ S # {} => Sum(w, S) = w[Chosen(S)] + Sum(w, S \ {Chosen(S)})
<1> DEFINE q == S \ {Chosen(S)}
<1>1. IsSum(SumFcn(S, w), S, w)
  BY SumExists DEF SumFcn
<1>2. IsFiniteSet(q) /\ q \subseteq S
  BY FS_Subset
<1>3. IsSum(SumFcn(q, w), q, w)
  <2> HIDE DEF q
  <2> QED
    BY <1>2, SumExists DEF SumFcn
<1>4. SumFcn(S, w)[S] = IF S = {} THEN 0 ELSE w[Chosen(S)] + SumFcn(S, w)[q]
  <2>1. S \in SUBSET S
    OBVIOUS
  <2> QED
    BY <1>1, <2>1, Zenon DEF IsSum
<1>5. SumFcn(S, w)[q] = SumFcn(q, w)[q]
  <2> HIDE DEF q
  <2> QED
    BY <1>1, <1>2, <1>3, SumUnique
<1> QED
  BY <1>4, <1>5, SumIs

(* A sum of natural numbers is one. *)
LEMMA SumNat ==
  ASSUME NEW S, IsFiniteSet(S), NEW w, \A u \in S : w[u] \in Nat
  PROVE  Sum(w, S) \in Nat
<1> DEFINE T == {s \in SUBSET S : Sum(w, s) \notin Nat}
<1> SUFFICES ASSUME T # {} PROVE FALSE
  OBVIOUS
<1>1. PICK s \in T : \A q \in T : q \subseteq s => q = s
  <2>1. T \subseteq SUBSET S
    OBVIOUS
  <2> HIDE DEF T
  <2> QED
    BY <2>1, MinimalSet
<1>2. s \subseteq S /\ Sum(w, s) \notin Nat /\ IsFiniteSet(s)
  BY <1>1, FS_Subset
<1>3. s # {}
  BY <1>2, SumUnfold
<1>4. Chosen(s) \in s /\ w[Chosen(s)] \in Nat
  BY <1>2, <1>3, ChosenIn
<1>5. Sum(w, s \ {Chosen(s)}) \in Nat
  BY <1>1, <1>2, <1>4
<1> QED
  BY <1>2, <1>3, <1>4, <1>5, SumUnfold

(* So is a sum of integers an integer. *)
LEMMA SumInt ==
  ASSUME NEW S, IsFiniteSet(S), NEW w, \A u \in S : w[u] \in Int
  PROVE  Sum(w, S) \in Int
<1> DEFINE T == {s \in SUBSET S : Sum(w, s) \notin Int}
<1> SUFFICES ASSUME T # {} PROVE FALSE
  OBVIOUS
<1>1. PICK s \in T : \A q \in T : q \subseteq s => q = s
  <2>1. T \subseteq SUBSET S
    OBVIOUS
  <2> HIDE DEF T
  <2> QED
    BY <2>1, MinimalSet
<1>2. s \subseteq S /\ Sum(w, s) \notin Int /\ IsFiniteSet(s)
  BY <1>1, FS_Subset
<1>3. s # {}
  BY <1>2, SumUnfold
<1>4. Chosen(s) \in s /\ w[Chosen(s)] \in Int
  BY <1>2, <1>3, ChosenIn
<1>5. Sum(w, s \ {Chosen(s)}) \in Int
  BY <1>1, <1>2, <1>4
<1>6. Sum(w, s) = w[Chosen(s)] + Sum(w, s \ {Chosen(s)})
  BY <1>2, <1>3, SumUnfold
<1>7. \A a, b \in Int : a + b \in Int
  OBVIOUS
<1> QED
  BY <1>2, <1>4, <1>5, <1>6, <1>7, Zenon

(* The sum does not depend on the order in which the fold takes the users:
   any one of them may be taken out first.                                 *)
LEMMA SumRemove ==
  ASSUME NEW S, IsFiniteSet(S), NEW w, \A u \in S : w[u] \in Int, NEW u \in S
  PROVE  Sum(w, S) = w[u] + Sum(w, S \ {u})
<1> DEFINE T == {s \in SUBSET S : \E x \in s : Sum(w, s) # w[x] + Sum(w, s \ {x})}
<1> SUFFICES ASSUME T # {} PROVE FALSE
  OBVIOUS
<1>1. PICK s \in T : \A q \in T : q \subseteq s => q = s
  <2>1. T \subseteq SUBSET S
    OBVIOUS
  <2> HIDE DEF T
  <2> QED
    BY <2>1, MinimalSet
<1>2. PICK x \in s : Sum(w, s) # w[x] + Sum(w, s \ {x})
  BY <1>1
<1> DEFINE c == Chosen(s)
<1>3. s \subseteq S /\ c \in s /\ IsFiniteSet(s) /\ Sum(w, s) = w[c] + Sum(w, s \ {c})
  BY <1>1, <1>2, ChosenIn, FS_Subset, SumUnfold
<1>4. x # c
  BY <1>2, <1>3
<1> HIDE DEF c
<1>5. s \ {c} \notin T /\ s \ {x} \notin T /\ s \ {c} \subseteq S /\ s \ {x} \subseteq S
  BY <1>1, <1>3
<1>6. Sum(w, s \ {c}) = w[x] + Sum(w, (s \ {c}) \ {x})
  BY <1>4, <1>5
<1>7. Sum(w, s \ {x}) = w[c] + Sum(w, (s \ {x}) \ {c})
  BY <1>3, <1>4, <1>5
<1>8. (s \ {c}) \ {x} = (s \ {x}) \ {c} /\ IsFiniteSet((s \ {c}) \ {x})
      /\ (s \ {c}) \ {x} \subseteq S
  BY <1>3, FS_Subset
<1>9. Sum(w, (s \ {c}) \ {x}) \in Int /\ w[x] \in Int /\ w[c] \in Int
  BY <1>3, <1>8, SumInt
<1> DEFINE R == Sum(w, (s \ {c}) \ {x})
<1>10. Sum(w, s) = w[c] + (w[x] + R) /\ w[x] + Sum(w, s \ {x}) = w[x] + (w[c] + R)
  BY <1>3, <1>6, <1>7, <1>8
<1>11. \A a, b, d \in Int : a + (b + d) = b + (a + d)
  OBVIOUS
<1>12. Sum(w, s) = w[x] + Sum(w, s \ {x})
  BY <1>9, <1>10, <1>11
<1> QED
  BY <1>2, <1>12

(* A user that joins adds its weight. *)
LEMMA SumAdd ==
  ASSUME NEW S, IsFiniteSet(S), NEW w, NEW u, u \notin S, \A x \in S \cup {u} : w[x] \in Int
  PROVE  Sum(w, S \cup {u}) = w[u] + Sum(w, S)
<1>1. IsFiniteSet(S \cup {u}) /\ u \in S \cup {u} /\ (S \cup {u}) \ {u} = S
  BY FS_AddElement
<1> QED
  BY <1>1, SumRemove

(* More users have no less weight. *)
LEMMA SumMono ==
  ASSUME NEW S, IsFiniteSet(S), NEW w, \A u \in S : w[u] \in Nat, NEW R, R \subseteq S
  PROVE  Sum(w, R) <= Sum(w, S)
<1> DEFINE T == {s \in SUBSET S : R \subseteq s /\ ~(Sum(w, R) <= Sum(w, s))}
<1> SUFFICES ASSUME T # {} PROVE FALSE
  OBVIOUS
<1>1. PICK s \in T : \A q \in T : q \subseteq s => q = s
  <2>1. T \subseteq SUBSET S
    OBVIOUS
  <2> HIDE DEF T
  <2> QED
    BY <2>1, MinimalSet
<1>2. s \subseteq S /\ R \subseteq s /\ ~(Sum(w, R) <= Sum(w, s)) /\ IsFiniteSet(s) /\ IsFiniteSet(R)
  BY <1>1, FS_Subset
<1>3. Sum(w, R) \in Nat
  BY <1>2, SumNat
<1>4. PICK u \in s : u \notin R
  BY <1>2, <1>3
<1>5. Sum(w, R) <= Sum(w, s \ {u})
  BY <1>1, <1>2, <1>4
<1>6. IsFiniteSet(s \ {u}) /\ s \ {u} \subseteq S /\ w[u] \in Nat
  BY <1>2, FS_Subset
<1>7. Sum(w, s) = w[u] + Sum(w, s \ {u}) /\ Sum(w, s \ {u}) \in Nat
  BY <1>2, <1>6, SumRemove, SumNat
<1> QED
  BY <1>2, <1>3, <1>5, <1>6, <1>7

(* Sets without a common user add up. *)
LEMMA SumDisjoint ==
  ASSUME NEW A, NEW B, IsFiniteSet(A), IsFiniteSet(B), A \cap B = {},
         NEW w, \A u \in A \cup B : w[u] \in Int
  PROVE  Sum(w, A \cup B) = Sum(w, A) + Sum(w, B)
<1> DEFINE T == {s \in SUBSET B : Sum(w, A \cup s) # Sum(w, A) + Sum(w, s)}
<1> SUFFICES ASSUME T # {} PROVE FALSE
  OBVIOUS
<1>1. PICK s \in T : \A q \in T : q \subseteq s => q = s
  <2>1. T \subseteq SUBSET B
    OBVIOUS
  <2> HIDE DEF T
  <2> QED
    BY <2>1, MinimalSet
<1>2. /\ s \subseteq B /\ Sum(w, A \cup s) # Sum(w, A) + Sum(w, s)
      /\ IsFiniteSet(s) /\ Sum(w, A) \in Int
  BY <1>1, FS_Subset, SumInt
<1>3. s # {}
  <2>1. s = {} => A \cup s = A /\ Sum(w, s) = 0
    BY <1>2, SumUnfold
  <2>2. \A a \in Int : a + 0 = a
    OBVIOUS
  <2> QED
    BY <1>2, <2>1, <2>2, Zenon
<1>4. PICK u \in s : TRUE
  BY <1>3
<1> DEFINE q == s \ {u}
<1>5. /\ q \subseteq B /\ IsFiniteSet(q) /\ u \notin q /\ s = q \cup {u} /\ w[u] \in Int
      /\ Sum(w, q) \in Int
  <2>1. q \subseteq B /\ u \notin q /\ s = q \cup {u} /\ w[u] \in Int
    BY <1>2
  <2>2. IsFiniteSet(q)
    BY <1>2, <2>1, FS_Subset
  <2>3. Sum(w, q) \in Int
    BY <2>1, <2>2, SumInt
  <2> QED
    BY <2>1, <2>2, <2>3
<1>6. Sum(w, A \cup q) = Sum(w, A) + Sum(w, q)
  BY <1>1, <1>5
<1> HIDE DEF q
<1>7. Sum(w, s) = w[u] + Sum(w, q)
  BY <1>2, <1>5, SumAdd
<1>8. Sum(w, A \cup s) = w[u] + Sum(w, A \cup q)
  <2>1. u \notin A \cup q /\ A \cup s = (A \cup q) \cup {u} /\ \A x \in (A \cup q) \cup {u} : w[x] \in Int
    BY <1>2, <1>5
  <2>2. IsFiniteSet(A \cup q)
    BY <1>5, FS_Union
  <2> QED
    BY <2>1, <2>2, SumAdd
<1> QED
  BY <1>2, <1>5, <1>6, <1>7, <1>8

-----------------------------------------------------------------------------
(* Products and powers. *)

(* A set of natural numbers has a least one. *)
LEMMA LeastNat ==
  ASSUME NEW T, T \subseteq Nat, T # {}
  PROVE  \E t \in T : \A r \in T : t <= r
<1>1. \E t \in T : \A r \in T : ~(<<r, t>> \in OpToRel(<, Nat))
  BY NatLessThanWellFounded, WFMin
<1>2. \A r, t \in Nat : r < t => <<r, t>> \in OpToRel(<, Nat)
  BY DEF OpToRel
<1>3. \E t \in T : \A r \in T : ~(r < t)
  BY <1>1, <1>2
<1> QED
  BY <1>3

(* The recursive function behind a product of n factors. *)
IsProduct(g, n, m) == g = [k \in 0 .. n |-> IF k = 0 THEN 1 ELSE m[k] * g[k - 1]]

ProductFcn(n, m) == CHOOSE g : IsProduct(g, n, m)

Product(n, m) == ProductFcn(n, m)[n]

(* Two such functions agree on what both are defined for. *)
LEMMA ProductUnique ==
  ASSUME NEW n \in Nat, NEW q \in Nat, NEW m, NEW g, NEW h, IsProduct(g, n, m), IsProduct(h, q, m),
         NEW k \in Nat, k <= n, k <= q
  PROVE  g[k] = h[k]
<1> DEFINE T == {i \in 0 .. k : g[i] # h[i]}
<1> SUFFICES ASSUME T # {} PROVE FALSE
  OBVIOUS
<1>1. PICK i \in T : \A r \in T : i <= r
  <2>1. T \subseteq Nat
    OBVIOUS
  <2> HIDE DEF T
  <2> QED
    BY <2>1, LeastNat
<1>2. i \in 0 .. n /\ i \in 0 .. q /\ g[i] # h[i] /\ i - 1 \notin T
  BY <1>1
<1>3. /\ g[i] = IF i = 0 THEN 1 ELSE m[i] * g[i - 1]
      /\ h[i] = IF i = 0 THEN 1 ELSE m[i] * h[i - 1]
  BY <1>2, Zenon DEF IsProduct
<1>4. i # 0 => g[i - 1] = h[i - 1]
  BY <1>1, <1>2
<1> QED
  BY <1>2, <1>3, <1>4

(* Such a function exists. *)
LEMMA ProductExists ==
  ASSUME NEW n \in Nat, NEW m
  PROVE  \E g : IsProduct(g, n, m)
<1> DEFINE T == {i \in Nat : ~\E g : IsProduct(g, i, m)}
<1> SUFFICES ASSUME T # {} PROVE FALSE
  OBVIOUS
<1>1. PICK i \in T : \A r \in T : i <= r
  <2>1. T \subseteq Nat
    OBVIOUS
  <2> HIDE DEF T
  <2> QED
    BY <2>1, LeastNat
<1>2. i \in Nat /\ ~\E g : IsProduct(g, i, m)
  BY <1>1
<1>3. i # 0
  <2>1. IsProduct([k \in 0 .. 0 |-> 1], 0, m)
    BY DEF IsProduct
  <2> QED
    BY <1>2, <2>1
<1>4. PICK g : IsProduct(g, i - 1, m)
  <2>1. i - 1 \in Nat /\ i - 1 \notin T
    BY <1>1, <1>2, <1>3
  <2> QED
    BY <2>1
<1> DEFINE h == [k \in 0 .. i |-> IF k = i THEN m[i] * g[i - 1] ELSE g[k]]
<1>5. ASSUME NEW k \in 0 .. i
      PROVE  h[k] = IF k = 0 THEN 1 ELSE m[k] * h[k - 1]
  <2>1. CASE k = i
    BY <1>2, <1>3, <2>1
  <2>2. CASE k # i
    <3>1. k \in 0 .. i - 1 /\ h[k] = g[k] /\ (k # 0 => h[k - 1] = g[k - 1])
      BY <1>2, <1>5, <2>2
    <3>2. g[k] = IF k = 0 THEN 1 ELSE m[k] * g[k - 1]
      BY <1>4, <3>1, Zenon DEF IsProduct
    <3> QED
      BY <3>1, <3>2
  <2> QED
    BY <2>1, <2>2
<1>6. IsProduct(h, i, m)
  BY <1>5 DEF IsProduct
<1> QED
  BY <1>2, <1>6

(* A product, unfolded once. *)
LEMMA ProductUnfold ==
  ASSUME NEW n \in Nat, NEW m
  PROVE  Product(n, m) = IF n = 0 THEN 1 ELSE m[n] * Product(n - 1, m)
<1>1. IsProduct(ProductFcn(n, m), n, m)
  BY ProductExists DEF ProductFcn
<1>2. Product(n, m) = IF n = 0 THEN 1 ELSE m[n] * ProductFcn(n, m)[n - 1]
  <2>1. n \in 0 .. n
    OBVIOUS
  <2> QED
    BY <1>1, <2>1, Zenon DEF IsProduct, Product
<1>3. ASSUME n # 0
      PROVE  ProductFcn(n, m)[n - 1] = Product(n - 1, m)
  <2>1. n - 1 \in Nat /\ n - 1 <= n
    BY <1>3
  <2>2. IsProduct(ProductFcn(n - 1, m), n - 1, m)
    BY <2>1, ProductExists DEF ProductFcn
  <2> QED
    BY <1>1, <2>1, <2>2, ProductUnique DEF Product
<1> QED
  BY <1>2, <1>3

(* Power is the product of equal factors. *)
LEMMA PowerIsProduct ==
  ASSUME NEW x, NEW n \in Nat
  PROVE  Power(x, n) = Product(n, [k \in Nat |-> x])
<1> DEFINE m == [k \in Nat |-> x]
           F(g) == [k \in 0 .. n |-> IF k = 0 THEN 1 ELSE x * g[k - 1]]
<1>1. Power(x, n) = (CHOOSE g : g = F(g))[n]
  BY DEF Power
<1>2. ASSUME NEW g
      PROVE  F(g) = [k \in 0 .. n |-> IF k = 0 THEN 1 ELSE m[k] * g[k - 1]]
  OBVIOUS
<1> HIDE DEF F, m
<1>3. \A g : IsProduct(g, n, m) <=> g = F(g)
  BY <1>2 DEF IsProduct
<1>4. (CHOOSE g : g = F(g)) = (CHOOSE g : IsProduct(g, n, m))
  BY <1>3
<1> QED
  BY <1>1, <1>4 DEF Product, ProductFcn, m

(* A power, unfolded once. *)
LEMMA PowerUnfold ==
  ASSUME NEW x, NEW n \in Nat
  PROVE  Power(x, n) = IF n = 0 THEN 1 ELSE x * Power(x, n - 1)
<1> DEFINE m == [k \in Nat |-> x]
<1>1. m[n] = x
  OBVIOUS
<1>2. n # 0 => n - 1 \in Nat
  OBVIOUS
<1>3. Power(x, n) = Product(n, m) /\ (n # 0 => Power(x, n - 1) = Product(n - 1, m))
  BY <1>2, PowerIsProduct
<1> HIDE DEF m
<1> QED
  BY <1>1, <1>3, ProductUnfold

(* Powers of natural numbers are natural numbers, *)
LEMMA PowerNat ==
  ASSUME NEW x \in Nat, NEW n \in Nat
  PROVE  Power(x, n) \in Nat
<1> DEFINE T == {i \in Nat : Power(x, i) \notin Nat}
<1> SUFFICES ASSUME T # {} PROVE FALSE
  OBVIOUS
<1>1. PICK i \in T : \A r \in T : i <= r
  <2>1. T \subseteq Nat
    OBVIOUS
  <2> HIDE DEF T
  <2> QED
    BY <2>1, LeastNat
<1>2. i \in Nat /\ Power(x, i) = IF i = 0 THEN 1 ELSE x * Power(x, i - 1)
  BY <1>1, PowerUnfold
<1>3. i # 0 => i - 1 \in Nat /\ i - 1 \notin T
  BY <1>1, <1>2
<1>4. i # 0 => Power(x, i - 1) \in Nat
  BY <1>3
<1> QED
  BY <1>1, <1>2, <1>4

(* and those of positive ones are positive. *)
LEMMA PowerPos ==
  ASSUME NEW x \in Nat \ {0}, NEW n \in Nat
  PROVE  Power(x, n) # 0
<1> DEFINE T == {i \in Nat : Power(x, i) = 0}
<1> SUFFICES ASSUME T # {} PROVE FALSE
  OBVIOUS
<1>1. PICK i \in T : \A r \in T : i <= r
  <2>1. T \subseteq Nat
    OBVIOUS
  <2> HIDE DEF T
  <2> QED
    BY <2>1, LeastNat
<1>2. i \in Nat /\ Power(x, i) = 0 /\ Power(x, i) = IF i = 0 THEN 1 ELSE x * Power(x, i - 1)
  BY <1>1, PowerUnfold
<1>3. i # 0 /\ i - 1 \in Nat /\ i - 1 \notin T
  BY <1>1, <1>2
<1>4. Power(x, i - 1) \in Nat \ {0}
  BY <1>3, PowerNat
<1>5. \A p \in Nat \ {0} : x * p # 0
  OBVIOUS
<1> QED
  BY <1>2, <1>3, <1>4, <1>5

(* The exponents of two powers of x add up. *)
LEMMA PowerAdd ==
  ASSUME NEW x \in Nat, NEW a \in Nat, NEW b \in Nat
  PROVE  Power(x, a) * Power(x, b) = Power(x, a + b)
<1> DEFINE T == {i \in Nat : Power(x, i) * Power(x, b) # Power(x, i + b)}
<1> SUFFICES ASSUME T # {} PROVE FALSE
  OBVIOUS
<1>1. PICK i \in T : \A r \in T : i <= r
  <2>1. T \subseteq Nat
    OBVIOUS
  <2> HIDE DEF T
  <2> QED
    BY <2>1, LeastNat
<1>2. i \in Nat /\ Power(x, i) * Power(x, b) # Power(x, i + b)
  BY <1>1
<1>3. i # 0
  <2>1. i = 0 => Power(x, i) = 1 /\ i + b = b /\ Power(x, b) \in Nat
    BY PowerUnfold, PowerNat
  <2> QED
    BY <1>2, <2>1
<1>4. i - 1 \in Nat /\ i - 1 \notin T
  BY <1>1, <1>2, <1>3
<1>5. Power(x, i - 1) * Power(x, b) = Power(x, (i - 1) + b)
  BY <1>4
<1>6. /\ Power(x, i) = x * Power(x, i - 1)
      /\ Power(x, i + b) = x * Power(x, (i - 1) + b)
  <2>1. i + b \in Nat /\ i + b # 0 /\ (i + b) - 1 = (i - 1) + b
    BY <1>2, <1>3
  <2> QED
    BY <1>2, <1>3, <2>1, PowerUnfold
<1>7. Power(x, i - 1) \in Nat /\ Power(x, b) \in Nat
  BY <1>4, PowerNat
<1>8. \A p, q \in Nat : (x * p) * q = x * (p * q)
  OBVIOUS
<1> QED
  BY <1>2, <1>5, <1>6, <1>7, <1>8

-----------------------------------------------------------------------------
(* Sums of integers. *)

(* A set of subsets of S that has the empty set, and with a set each one that has one
   element more, has S. *)
LEMMA SetInduction ==
  ASSUME NEW S, IsFiniteSet(S), NEW T, {} \in T,
         \A t \in T, u \in S : t \subseteq S /\ u \notin t => t \cup {u} \in T
  PROVE  S \in T
<1> DEFINE B == {t \in SUBSET S : t \notin T}
<1> SUFFICES ASSUME B # {} PROVE FALSE
  OBVIOUS
<1>1. PICK t \in B : \A r \in B : r \subseteq t => r = t
  <2>1. B \subseteq SUBSET S
    OBVIOUS
  <2> HIDE DEF B
  <2> QED
    BY <2>1, MinimalSet
<1>2. PICK u \in t : TRUE
  BY <1>1
<1>3. t \ {u} \in T
  BY <1>1, <1>2
<1>4. (t \ {u}) \cup {u} = t /\ t \subseteq S
  BY <1>1, <1>2
<1> QED
  BY <1>1, <1>2, <1>3, <1>4

(* A set that has 0, and with a number its successor, has all natural numbers. *)
LEMMA NatSetInduction ==
  ASSUME NEW T, 0 \in T, \A n \in Nat : n \in T => n + 1 \in T
  PROVE  Nat \subseteq T
<1> DEFINE B == {n \in Nat : n \notin T}
<1> SUFFICES ASSUME B # {} PROVE FALSE
  OBVIOUS
<1>1. PICK n \in B : \A r \in B : n <= r
  <2>1. B \subseteq Nat
    OBVIOUS
  <2> HIDE DEF B
  <2> QED
    BY <2>1, LeastNat
<1>2. n # 0 /\ n - 1 \in Nat /\ n - 1 \in T
  BY <1>1
<1> QED
  BY <1>1, <1>2

(* The sum of nothing is 0. *)
LEMMA SumEmpty ==
  ASSUME NEW w
  PROVE  Sum(w, {}) = 0
BY SumUnfold, FS_EmptySet

(* Equal weights have equal sums. *)
LEMMA SumEqual ==
  ASSUME NEW S, IsFiniteSet(S), NEW w, NEW v, \A u \in S : w[u] \in Int /\ v[u] = w[u]
  PROVE  Sum(w, S) = Sum(v, S)
<1> DEFINE T == {t \in SUBSET S : Sum(w, t) = Sum(v, t)}
<1>1. {} \in T
  BY SumEmpty
<1>2. ASSUME NEW t \in T, NEW u \in S, t \subseteq S, u \notin t
      PROVE  t \cup {u} \in T
  <2>1. /\ IsFiniteSet(t)
        /\ \A e \in t \cup {u} : w[e] \in Int
        /\ \A e \in t \cup {u} : v[e] \in Int
    BY <1>2, FS_Subset
  <2>2. Sum(w, t \cup {u}) = w[u] + Sum(w, t) /\ Sum(v, t \cup {u}) = v[u] + Sum(v, t)
    BY <1>2, <2>1, SumAdd
  <2> QED
    BY <1>2, <2>2
<1> HIDE DEF T
<1>3. S \in T
  BY <1>1, <1>2, SetInduction
<1> QED
  BY <1>3 DEF T

(* Sums add up, *)
LEMMA SumPlus ==
  ASSUME NEW S, IsFiniteSet(S), NEW w, NEW v, NEW z,
         \A u \in S : w[u] \in Int /\ v[u] \in Int /\ z[u] = w[u] + v[u]
  PROVE  Sum(z, S) = Sum(w, S) + Sum(v, S)
<1> DEFINE T == {t \in SUBSET S : Sum(z, t) = Sum(w, t) + Sum(v, t)}
<1>1. {} \in T
  BY SumEmpty
<1>2. ASSUME NEW t \in T, NEW u \in S, t \subseteq S, u \notin t
      PROVE  t \cup {u} \in T
  <2>1. /\ IsFiniteSet(t)
        /\ \A e \in t \cup {u} : w[e] \in Int
        /\ \A e \in t \cup {u} : v[e] \in Int
        /\ \A e \in t \cup {u} : z[e] \in Int
    BY <1>2, FS_Subset
  <2>2. /\ Sum(w, t \cup {u}) = w[u] + Sum(w, t)
        /\ Sum(v, t \cup {u}) = v[u] + Sum(v, t)
        /\ Sum(z, t \cup {u}) = z[u] + Sum(z, t)
    BY <1>2, <2>1, SumAdd
  <2>3. Sum(w, t) \in Int /\ Sum(v, t) \in Int /\ w[u] \in Int /\ v[u] \in Int
    BY <2>1, SumInt
  <2>4. \A a, b, c, d \in Int : (a + b) + (c + d) = (a + c) + (b + d)
    OBVIOUS
  <2>5. Sum(z, t \cup {u}) = (w[u] + v[u]) + (Sum(w, t) + Sum(v, t))
    BY <1>2, <2>2
  <2>6. Sum(z, t \cup {u}) = Sum(w, t \cup {u}) + Sum(v, t \cup {u})
    BY <2>2, <2>3, <2>4, <2>5
  <2> QED
    BY <1>2, <2>6
<1> HIDE DEF T
<1>3. S \in T
  BY <1>1, <1>2, SetInduction
<1> QED
  BY <1>3 DEF T

(* and a common factor can be taken out. *)
LEMMA SumTimes ==
  ASSUME NEW S, IsFiniteSet(S), NEW w, NEW z, NEW a \in Int,
         \A u \in S : w[u] \in Int /\ z[u] = a * w[u]
  PROVE  Sum(z, S) = a * Sum(w, S)
<1> DEFINE T == {t \in SUBSET S : Sum(z, t) = a * Sum(w, t)}
<1>1. {} \in T
  BY SumEmpty
<1>2. ASSUME NEW t \in T, NEW u \in S, t \subseteq S, u \notin t
      PROVE  t \cup {u} \in T
  <2>1. /\ IsFiniteSet(t)
        /\ \A e \in t \cup {u} : w[e] \in Int
        /\ \A e \in t \cup {u} : z[e] \in Int
    BY <1>2, FS_Subset
  <2>2. /\ Sum(w, t \cup {u}) = w[u] + Sum(w, t)
        /\ Sum(z, t \cup {u}) = z[u] + Sum(z, t)
    BY <1>2, <2>1, SumAdd
  <2>3. Sum(w, t) \in Int /\ w[u] \in Int
    BY <2>1, SumInt
  <2>4. \A b, c \in Int : a * b + a * c = a * (b + c)
    OBVIOUS
  <2>5. Sum(z, t \cup {u}) = a * w[u] + a * Sum(w, t)
    BY <1>2, <2>2
  <2>6. Sum(z, t \cup {u}) = a * Sum(w, t \cup {u})
    BY <2>2, <2>3, <2>4, <2>5
  <2> QED
    BY <1>2, <2>6
<1> HIDE DEF T
<1>3. S \in T
  BY <1>1, <1>2, SetInduction
<1> QED
  BY <1>3 DEF T

(* A change of one weight is a change of the sum. *)
LEMMA SumChange ==
  ASSUME NEW S, IsFiniteSet(S), NEW w, NEW v, NEW u \in S, v[u] \in Int,
         \A e \in S : w[e] \in Int /\ (e # u => v[e] = w[e])
  PROVE  Sum(v, S) = Sum(w, S) + (v[u] - w[u])
<1> DEFINE R == S \ {u}
<1>1. IsFiniteSet(R) /\ (\A e \in R : w[e] \in Int /\ v[e] = w[e]) /\ (\A e \in S : v[e] \in Int)
  BY FS_Subset
<1>2. Sum(w, R) = Sum(v, R) /\ Sum(w, R) \in Int
  <2> HIDE DEF R
  <2> QED
    BY <1>1, SumEqual, SumInt
<1>3. Sum(w, S) = w[u] + Sum(w, R)
  BY SumRemove
<1>4. Sum(v, S) = v[u] + Sum(v, R)
  BY <1>1, SumRemove
<1>5. \A a, b, c \in Int : b + c = (a + c) + (b - a)
  OBVIOUS
<1> HIDE DEF R
<1>6. w[u] \in Int
  OBVIOUS
<1> QED
  BY <1>2, <1>3, <1>4, <1>5, <1>6

(* Sums over two indices can be taken in any order. *)
LEMMA SumSwap ==
  ASSUME NEW S, IsFiniteSet(S), NEW R, IsFiniteSet(R), NEW w,
         \A i \in S, k \in R : w[i][k] \in Int
  PROVE  Sum([i \in S |-> Sum(w[i], R)], S) = Sum([k \in R |-> Sum([i \in S |-> w[i][k]], S)], R)
<1> DEFINE row == [i \in S |-> Sum(w[i], R)]
           col(t) == [k \in R |-> Sum([i \in S |-> w[i][k]], t)]
           T == {t \in SUBSET S : Sum(row, t) = Sum(col(t), R)}
<1>0. \A i \in S : row[i] \in Int
  BY SumInt
<1>00. ASSUME NEW t \in SUBSET S, NEW k \in R
       PROVE  col(t)[k] \in Int
  <2> DEFINE c == [i \in S |-> w[i][k]]
  <2>1. \A i \in t : c[i] \in Int
    OBVIOUS
  <2>2. IsFiniteSet(t)
    BY FS_Subset
  <2> HIDE DEF c
  <2>3. Sum(c, t) \in Int
    BY <2>1, <2>2, SumInt
  <2> QED
    BY <2>3 DEF c
<1>1. {} \in T
  <2> DEFINE zero == [k \in R |-> 0]
  <2>1. \A k \in R : col({})[k] = 0
    BY SumEmpty
  <2>2. \A k \in R : zero[k] \in Int /\ zero[k] = 0 * zero[k] /\ col({})[k] = zero[k]
    BY <2>1
  <2> HIDE DEF zero, col
  <2>3. Sum(zero, R) = 0 * Sum(zero, R) /\ Sum(zero, R) \in Int
    BY <2>2, SumTimes, SumInt
  <2>4. Sum(zero, R) = Sum(col({}), R)
    BY <2>2, SumEqual
  <2> QED
    BY <2>3, <2>4, SumEmpty
<1>2. ASSUME NEW t \in T, NEW u \in S, t \subseteq S, u \notin t
      PROVE  t \cup {u} \in T
  <2>1. IsFiniteSet(t) /\ t \cup {u} \subseteq S
    BY <1>2, FS_Subset
  <2>2. Sum(row, t \cup {u}) = row[u] + Sum(row, t)
    <3> HIDE DEF row
    <3> QED
      BY <1>0, <1>2, <2>1, SumAdd
  <2>3. ASSUME NEW k \in R
        PROVE  col(t \cup {u})[k] = w[u][k] + col(t)[k]
    <3> DEFINE c == [i \in S |-> w[i][k]]
    <3>1. (\A i \in t \cup {u} : c[i] \in Int) /\ c[u] = w[u][k]
      BY <1>2
    <3> HIDE DEF c
    <3>2. Sum(c, t \cup {u}) = c[u] + Sum(c, t)
      BY <1>2, <2>1, <3>1, SumAdd
    <3> QED
      BY <3>1, <3>2 DEF c
  <2>4. Sum(col(t \cup {u}), R) = Sum(w[u], R) + Sum(col(t), R)
    <3>1. \A k \in R : w[u][k] \in Int /\ col(t)[k] \in Int
      BY <1>00, <1>2
    <3> HIDE DEF col
    <3> QED
      BY <2>3, <3>1, SumPlus
  <2>5. Sum(row, t) = Sum(col(t), R) /\ row[u] = Sum(w[u], R)
    BY <1>2
  <2> QED
    BY <2>1, <2>2, <2>4, <2>5
<1> HIDE DEF T
<1>3. S \in T
  BY <1>1, <1>2, SetInduction
<1> QED
  BY <1>3 DEF T

(* A sum over another set, with one element for each. *)
LEMMA SumReindex ==
  ASSUME NEW S, IsFiniteSet(S), NEW R, NEW w, NEW v, NEW b \in [S -> R],
         \A u, e \in S : b[u] = b[e] => u = e,
         \A k \in R : w[k] \in Int /\ \E u \in S : b[u] = k,
         \A u \in S : v[u] = w[b[u]]
  PROVE  Sum(v, S) = Sum(w, R)
<1> DEFINE img(t) == {b[u] : u \in t}
           T == {t \in SUBSET S : IsFiniteSet(img(t)) /\ Sum(v, t) = Sum(w, img(t))}
<1>1. {} \in T
  <2>1. img({}) = {}
    OBVIOUS
  <2> QED
    BY <2>1, SumEmpty, FS_EmptySet
<1>2. ASSUME NEW t \in T, NEW u \in S, t \subseteq S, u \notin t
      PROVE  t \cup {u} \in T
  <2>1. IsFiniteSet(t) /\ (\A e \in t \cup {u} : v[e] \in Int)
    BY <1>2, FS_Subset
  <2>2. /\ img(t \cup {u}) = img(t) \cup {b[u]} /\ b[u] \notin img(t) /\ IsFiniteSet(img(t))
        /\ \A e \in img(t) \cup {b[u]} : w[e] \in Int
    BY <1>2
  <2>3. Sum(v, t \cup {u}) = v[u] + Sum(v, t)
    BY <1>2, <2>1, SumAdd
  <2>4. Sum(w, img(t) \cup {b[u]}) = w[b[u]] + Sum(w, img(t)) /\ IsFiniteSet(img(t) \cup {b[u]})
    <3> DEFINE i == img(t)
               k == b[u]
    <3> HIDE DEF i, k
    <3>1. Sum(w, i \cup {k}) = w[k] + Sum(w, i) /\ IsFiniteSet(i \cup {k})
      BY <2>2, SumAdd, FS_AddElement DEF i, k
    <3> QED
      BY <3>1 DEF i, k
  <2>5. Sum(v, t) = Sum(w, img(t)) /\ v[u] = w[b[u]]
    BY <1>2
  <2>6. Sum(v, t \cup {u}) = Sum(w, img(t \cup {u})) /\ IsFiniteSet(img(t \cup {u}))
    <3> HIDE DEF img
    <3> QED
      BY <2>2, <2>3, <2>4, <2>5
  <2>7. t \cup {u} \in SUBSET S
    BY <1>2
  <2> HIDE DEF img
  <2> QED
    BY <2>6, <2>7
<1> HIDE DEF T
<1>3. S \in T
  BY <1>1, <1>2, SetInduction
<1>4. img(S) = R
  OBVIOUS
<1> QED
  BY <1>3, <1>4 DEF T

-----------------------------------------------------------------------------
(* Numbers that are the same modulo m. *)
Same(a, b, m) == \E c \in Int : a - b = c * m

(* Congruence is an equivalence, kept by sums and products. *)
LEMMA SameReflexive ==
  ASSUME NEW m \in Int, NEW a \in Int
  PROVE  Same(a, a, m)
<1>1. 0 \in Int /\ a - a = 0 * m
  OBVIOUS
<1> QED
  BY <1>1 DEF Same

(* Congruence is symmetric. *)
LEMMA SameSymmetric ==
  ASSUME NEW m \in Int, NEW a \in Int, NEW b \in Int, Same(a, b, m)
  PROVE  Same(b, a, m)
<1>1. PICK c \in Int : a - b = c * m
  BY DEF Same
<1>2. -c \in Int /\ b - a = (-c) * m
  BY <1>1
<1> QED
  BY <1>2 DEF Same

(* Congruence is transitive. *)
LEMMA SameTransitive ==
  ASSUME NEW m \in Int, NEW a \in Int, NEW b \in Int, NEW d \in Int, Same(a, b, m), Same(b, d, m)
  PROVE  Same(a, d, m)
<1>1. PICK c \in Int : a - b = c * m
  BY DEF Same
<1>2. PICK e \in Int : b - d = e * m
  BY DEF Same
<1>3. c + e \in Int /\ a - d = (c + e) * m
  <2>1. (c + e) * m = c * m + e * m
    OBVIOUS
  <2> QED
    BY <1>1, <1>2, <2>1
<1> QED
  BY <1>3 DEF Same

(* Congruent numbers have congruent sums, differences and negatives. *)
LEMMA SamePlus ==
  ASSUME NEW m \in Int, NEW a \in Int, NEW b \in Int, NEW d \in Int, NEW e \in Int,
         Same(a, b, m), Same(d, e, m)
  PROVE  Same(a + d, b + e, m) /\ Same(a - d, b - e, m) /\ Same(-a, -b, m)
<1>1. PICK c \in Int : a - b = c * m
  BY DEF Same
<1>2. PICK f \in Int : d - e = f * m
  BY DEF Same
<1>3. /\ c + f \in Int /\ (a + d) - (b + e) = (c + f) * m
      /\ c - f \in Int /\ (a - d) - (b - e) = (c - f) * m
      /\ -c \in Int /\ (-a) - (-b) = (-c) * m
  <2>1. (c + f) * m = c * m + f * m /\ (c - f) * m = c * m - f * m /\ (-c) * m = -(c * m)
    OBVIOUS
  <2> QED
    BY <1>1, <1>2, <2>1
<1> QED
  BY <1>3 DEF Same

(* Congruent numbers have congruent multiples. *)
LEMMA SameTimes ==
  ASSUME NEW m \in Int, NEW a \in Int, NEW b \in Int, NEW d \in Int, Same(a, b, m)
  PROVE  Same(d * a, d * b, m) /\ Same(a * d, b * d, m)
<1>1. PICK c \in Int : a - b = c * m
  BY DEF Same
<1>2. \A u, v \in Int : d * (u * m) = (d * u) * m /\ d * a - d * b = d * (a - b)
                        /\ a * d = d * a /\ b * d = d * b
  OBVIOUS
<1>3. d * c \in Int /\ d * a - d * b = (d * c) * m /\ a * d - b * d = (d * c) * m
  BY <1>1, <1>2
<1> QED
  BY <1>3 DEF Same

(* The remainder is the same number, and the only one in its range. *)
LEMMA SameMod ==
  ASSUME NEW m \in Nat \ {0}, NEW a \in Int
  PROVE  Same(a % m, a, m) /\ a % m \in 0 .. m - 1 /\ a % m \in Int
<1>1. a = m * (a \div m) + (a % m) /\ a % m \in 0 .. m - 1 /\ a \div m \in Int
      /\ a % m \in Int
  OBVIOUS
<1>2. -(a \div m) \in Int /\ (a % m) - a = (-(a \div m)) * m
  BY <1>1
<1> QED
  BY <1>1, <1>2 DEF Same

(* Congruent remainders are equal. *)
LEMMA SameUnique ==
  ASSUME NEW m \in Nat \ {0}, NEW a \in 0 .. m - 1, NEW b \in 0 .. m - 1, Same(a, b, m)
  PROVE  a = b
<1>1. PICK c \in Int : a - b = c * m
  BY DEF Same
<1>2. c >= 1 => c * m >= m
  BY <1>1
<1>3. c <= -1 => c * m <= -m
  BY <1>1
<1>4. c = 0
  BY <1>1, <1>2, <1>3
<1> QED
  BY <1>1, <1>4

(* Congruence is what % says. *)
LEMMA SameIsMod ==
  ASSUME NEW m \in Nat \ {0}, NEW a \in Int, NEW b \in Int
  PROVE  Same(a, b, m) <=> (a - b) % m = 0
<1>1. ASSUME Same(a, b, m) PROVE (a - b) % m = 0
  <2>1. PICK c \in Int : a - b = c * m
    BY <1>1 DEF Same
  <2> QED
    BY <2>1
<1>2. ASSUME (a - b) % m = 0 PROVE Same(a, b, m)
  <2>1. (a - b) \div m \in Int /\ a - b = ((a - b) \div m) * m
    BY <1>2
  <2> QED
    BY <2>1 DEF Same
<1> QED
  BY <1>1, <1>2

(* Weights that are the same modulo m have sums that are. *)
LEMMA SumSame ==
  ASSUME NEW S, IsFiniteSet(S), NEW w, NEW v, NEW m \in Int,
         \A u \in S : w[u] \in Int /\ v[u] \in Int /\ Same(w[u], v[u], m)
  PROVE  Same(Sum(w, S), Sum(v, S), m)
<1> DEFINE T == {t \in SUBSET S : Same(Sum(w, t), Sum(v, t), m)}
<1>1. {} \in T
  BY SumEmpty, SameReflexive
<1>2. ASSUME NEW t \in T, NEW u \in S, t \subseteq S, u \notin t
      PROVE  t \cup {u} \in T
  <2>1. /\ IsFiniteSet(t)
        /\ \A e \in t \cup {u} : w[e] \in Int
        /\ \A e \in t \cup {u} : v[e] \in Int
    BY <1>2, FS_Subset
  <2>2. /\ Sum(w, t \cup {u}) = w[u] + Sum(w, t)
        /\ Sum(v, t \cup {u}) = v[u] + Sum(v, t)
    BY <1>2, <2>1, SumAdd
  <2>3. Sum(w, t) \in Int /\ w[u] \in Int /\ Sum(v, t) \in Int /\ v[u] \in Int
    BY <2>1, SumInt
  <2>4. Same(w[u] + Sum(w, t), v[u] + Sum(v, t), m)
    BY <1>2, <2>3, SamePlus
  <2> QED
    BY <1>2, <2>2, <2>4
<1> HIDE DEF T
<1>3. S \in T
  BY <1>1, <1>2, SetInduction
<1> QED
  BY <1>3 DEF T

-----------------------------------------------------------------------------
(* Folds over sequences. *)

(* A set of natural numbers with a bound has a greatest one. *)
LEMMA MaxIn ==
  ASSUME NEW n \in Nat, NEW t, t \subseteq 1 .. n, t # {}
  PROVE  Max(t) \in t /\ \A e \in t : e <= Max(t)
<1> DEFINE T == {k \in Nat : \A e \in t : e <= k}
<1>1. PICK k \in T : \A r \in T : k <= r
  <2>1. T \subseteq Nat /\ n \in T
    OBVIOUS
  <2> HIDE DEF T
  <2> QED
    BY <2>1, LeastNat
<1>2. k \in t
  <2>1. SUFFICES ASSUME k \notin t PROVE FALSE
    OBVIOUS
  <2>2. PICK e \in t : TRUE
    OBVIOUS
  <2>3. k >= 1 /\ k - 1 \in Nat
    BY <1>1, <2>1, <2>2
  <2>4. k - 1 \in T
    BY <1>1, <2>1, <2>3
  <2> QED
    BY <1>1, <2>3, <2>4
<1>3. \E e \in t : \A d \in t : e >= d
  BY <1>1, <1>2
<1>4. Max(t) \in t /\ \A d \in t : Max(t) >= d
  BY <1>3 DEF Max
<1> QED
  BY <1>4

(* o, applied n times from b on: with what it gave before and the position. *)
IsFold(g, n, b, o) ==
  \A t \in SUBSET (1 .. n) :
    g[t] = IF t = {} THEN b ELSE o[Max(t)][g[t \ {Max(t)}]]

(* The recursive function behind a fold over a sequence exists. *)
LEMMA FoldExists ==
  ASSUME NEW n \in Nat, NEW V, NEW b \in V, NEW o, \A v \in V, k \in 1 .. n : o[k][v] \in V
  PROVE  \E g \in [SUBSET (1 .. n) -> V] : IsFold(g, n, b, o)
<1> DEFINE P(i) == \E g \in [SUBSET (1 .. i) -> V] : IsFold(g, i, b, o)
           T == {i \in Nat : i <= n => P(i)}
<1>1. P(0)
  <2> DEFINE g == [t \in SUBSET (1 .. 0) |-> b]
  <2>1. g \in [SUBSET (1 .. 0) -> V]
    OBVIOUS
  <2>2. \A t \in SUBSET (1 .. 0) : t = {} /\ g[t] = b
    OBVIOUS
  <2>3. IsFold(g, 0, b, o)
    BY <2>2 DEF IsFold
  <2> HIDE DEF g
  <2> QED
    BY <2>1, <2>3
<1>2. ASSUME NEW i \in Nat, i + 1 <= n, P(i)
      PROVE  P(i + 1)
  <2>1. PICK g \in [SUBSET (1 .. i) -> V] : IsFold(g, i, b, o)
    BY <1>2
  <2> DEFINE h == [t \in SUBSET (1 .. i + 1) |->
                     IF i + 1 \in t THEN o[i + 1][g[t \ {i + 1}]] ELSE g[t]]
  <2>2. ASSUME NEW t \in SUBSET (1 .. i + 1), i + 1 \in t
        PROVE  Max(t) = i + 1 /\ t \ {i + 1} \in SUBSET (1 .. i) /\ h[t \ {i + 1}] = g[t \ {i + 1}]
    <3>1. Max(t) = i + 1
      <4>1. t \subseteq 1 .. i + 1 /\ t # {} /\ i + 1 \in Nat
        BY <2>2
      <4>2. Max(t) \in t /\ \A e \in t : e <= Max(t)
        BY <4>1, MaxIn
      <4>3. Max(t) \in 1 .. i + 1 /\ i + 1 <= Max(t)
        BY <2>2, <4>1, <4>2
      <4> QED
        BY <4>3
    <3>2. t \ {i + 1} \in SUBSET (1 .. i)
      OBVIOUS
    <3>3. t \ {i + 1} \in SUBSET (1 .. i + 1) /\ i + 1 \notin t \ {i + 1}
      OBVIOUS
    <3> QED
      BY <3>1, <3>2, <3>3
  <2>3. ASSUME NEW t \in SUBSET (1 .. i + 1), i + 1 \notin t
        PROVE  t \in SUBSET (1 .. i) /\ h[t] = g[t]
    BY <2>3
  <2>4. h \in [SUBSET (1 .. i + 1) -> V]
    <3>1. ASSUME NEW t \in SUBSET (1 .. i + 1)
          PROVE  h[t] \in V
      <4>1. CASE i + 1 \in t
        <5>1. t \ {i + 1} \in SUBSET (1 .. i) /\ i + 1 \in 1 .. n
          BY <1>2, <2>2, <4>1
        <5>2. g[t \ {i + 1}] \in V
          BY <5>1
        <5>3. h[t] = o[i + 1][g[t \ {i + 1}]]
          BY <4>1
        <5> QED
          BY <5>1, <5>2, <5>3
      <4>2. CASE i + 1 \notin t
        BY <2>3, <4>2
      <4> QED
        BY <4>1, <4>2
    <3> QED
      BY <3>1
  <2>5. ASSUME NEW t \in SUBSET (1 .. i + 1)
        PROVE  h[t] = IF t = {} THEN b ELSE o[Max(t)][h[t \ {Max(t)}]]
    <3>1. CASE i + 1 \in t
      BY <2>2, <3>1
    <3>2. CASE i + 1 \notin t
      <4>1. t \in SUBSET (1 .. i) /\ h[t] = g[t]
        BY <2>3, <3>2
      <4>2. g[t] = IF t = {} THEN b ELSE o[Max(t)][g[t \ {Max(t)}]]
        BY <2>1, <4>1 DEF IsFold
      <4>3. t \ {Max(t)} \in SUBSET (1 .. i + 1) /\ i + 1 \notin t \ {Max(t)}
        BY <3>2
      <4>4. h[t \ {Max(t)}] = g[t \ {Max(t)}]
        BY <2>3, <4>3
      <4> QED
        BY <4>1, <4>2, <4>4
    <3> QED
      BY <3>1, <3>2
  <2> HIDE DEF h
  <2>6. IsFold(h, i + 1, b, o)
    BY <2>5 DEF IsFold
  <2> QED
    BY <2>4, <2>6
<1> HIDE DEF P
<1>3. 0 \in T /\ \A i \in Nat : i \in T => i + 1 \in T
  BY <1>1, <1>2
<1> HIDE DEF T
<1>4. n \in T
  BY <1>3, NatSetInduction
<1>5. P(n)
  BY <1>4 DEF T
<1> QED
  BY <1>5 DEF P

(* The steps of a fold. *)
LEMMA MaxUpTo ==
  ASSUME NEW k \in Nat \ {0}
  PROVE  Max(1 .. k) = k /\ (1 .. k) \ {k} = 1 .. k - 1
<1>1. Max(1 .. k) \in 1 .. k /\ \A e \in 1 .. k : e <= Max(1 .. k)
  <2>1. 1 .. k # {} /\ 1 .. k \subseteq 1 .. k
    OBVIOUS
  <2> QED
    BY <2>1, MaxIn
<1> QED
  BY <1>1

(* The same, as a function of the number of times. *)
IsIter(d, n, b, o) == d[0] = b /\ \A k \in 1 .. n : d[k] = o[k][d[k - 1]]

(* A function given by recursion on a number exists. *)
LEMMA IterExists ==
  ASSUME NEW n \in Nat, NEW V, NEW b \in V, NEW o, \A v \in V, k \in 1 .. n : o[k][v] \in V
  PROVE  \E d \in [0 .. n -> V] : IsIter(d, n, b, o)
<1>1. PICK g \in [SUBSET (1 .. n) -> V] : IsFold(g, n, b, o)
  BY FoldExists
<1> DEFINE d == [k \in 0 .. n |-> g[1 .. k]]
<1>2. d \in [0 .. n -> V]
  OBVIOUS
<1>3. d[0] = b
  <2>1. 1 .. 0 = {} /\ {} \in SUBSET (1 .. n)
    OBVIOUS
  <2>2. g[{}] = b
    BY <1>1, <2>1 DEF IsFold
  <2> QED
    BY <2>1, <2>2
<1>4. ASSUME NEW k \in 1 .. n
      PROVE  d[k] = o[k][d[k - 1]]
  <2>1. 1 .. k \in SUBSET (1 .. n) /\ 1 .. k # {}
    OBVIOUS
  <2>2. g[1 .. k] = o[Max(1 .. k)][g[(1 .. k) \ {Max(1 .. k)}]]
    BY <1>1, <2>1 DEF IsFold
  <2>3. Max(1 .. k) = k /\ (1 .. k) \ {k} = 1 .. k - 1
    BY MaxUpTo
  <2>4. g[1 .. k] = o[k][g[1 .. k - 1]]
    BY <2>2, <2>3
  <2>5. k - 1 \in 0 .. n /\ k \in 0 .. n
    OBVIOUS
  <2> QED
    BY <2>4, <2>5
<1> HIDE DEF d
<1>5. IsIter(d, n, b, o)
  BY <1>3, <1>4 DEF IsIter
<1> QED
  BY <1>2, <1>5
=============================================================================
