----------------------------- MODULE Sortition ------------------------------
(***************************************************************************)
(* The selection of sub-users (binomial.go, RegularBinomial, and subUsers  *)
(* in algorand.go): the distribution function of the binomial is computed  *)
(* by a goroutine for each probability and kept in caches, and subUsers    *)
(* looks for the interval of it that the hash of a node is in.             *)
(*                                                                         *)
(* Rationals here have the denominator pd^N, and stand for their           *)
(* numerator; big.Rat values that the code shares by pointer are places in *)
(* heap.                                                                   *)
(***************************************************************************)
EXTENDS Powers, Sequences, SequencesExt, Combinatorics

CONSTANTS
  N,          \* the tokens of the node
  pn, pd,     \* expected sub-users and total tokens: p = pn / pd
  HashMax,    \* 2^256
  Hashes,     \* VRF values of a node
  CoinHash(_, _),  \* SHA-256 of a VRF value and a number
  CoinStart,  \* 2^32: where the minimum of the coin starts
  MaxCalls    \* bound of the calls of CDF, when it is not subUsers that makes them

ASSUME SortitionAssumption ==
  /\ {N, pn, pd, HashMax, MaxCalls} \subseteq Nat /\ N > 0 /\ pn < pd
  /\ Hashes \subseteq 0 .. HashMax - 1
  /\ CoinStart \in Nat /\ \A v \in Hashes, i \in 1 .. N : CoinHash(v, i) \in Nat

VARIABLES
  hash,       \* the hash of a call of subUsers, or none if CDF is called by itself
  heap,       \* the rationals allocated so far
  cdfCache,   \* argument -> place in heap
  probCache,  \* argument -> numerator
  expCache,   \* base ("pn", "tpn") -> exponent -> power
  denom,      \* resDenomCache
  arg, res,   \* the running call of CDF: its argument and the place of its sum
  gor,        \* the goroutines of that call: argument -> "start", "miss", "sent", "done"
  j, lower,   \* subUsers: the loop variable and the last bound
  selected,   \* what subUsers returned
  calls

caches == <<cdfCache, probCache, expCache, denom>>
vars == <<hash, heap, caches, arg, res, gor, j, lower, selected, calls>>

none == -9

(* The rational 1. *)
one == Power(pd, N)

-----------------------------------------------------------------------------
(* Exp: x^y from x^floor(sqrt(y)) and the rest.  Powers of pn and pd - pn are *)
(* cached by their exponent.                                                  *)

cacheOf(x) == IF x = pn THEN "pn" ELSE IF x = pd - pn THEN "tpn" ELSE "none"

Sqrt(y) == CHOOSE r \in 0 .. y : r * r <= y /\ (r + 1) * (r + 1) > y

(* The power, with what the cache c has. *)
Exp(c, x, y) ==
  LET e[k \in 0 .. y] ==
        IF k = 0 THEN 1 ELSE IF k = 1 THEN x
        ELSE IF k \in DOMAIN c THEN c[k]
        ELSE IF k = 2 THEN x * x ELSE e[Sqrt(k)] * e[k - Sqrt(k)]
  IN  e[y]

(* The cache after it: all the exponents on the way. *)
ExpStore(c, x, y) ==
  LET way[k \in 0 .. y] ==
        IF k \in {0, 1} \cup DOMAIN c THEN {}
        ELSE {k} \cup (IF k = 2 THEN {} ELSE way[Sqrt(k)] \cup way[k - Sqrt(k)])
  IN  [k \in DOMAIN c \cup way[y] |-> IF k \in DOMAIN c THEN c[k] ELSE Exp(c, x, k)]

noCache == [k \in {} |-> 0]
Cache(x) == IF cacheOf(x) = "none" THEN noCache ELSE expCache[cacheOf(x)]
Caching(ec, x, y) ==
  IF cacheOf(x) = "none" THEN ec ELSE [ec EXCEPT ![cacheOf(x)] = ExpStore(@, x, y)]

-----------------------------------------------------------------------------
(* Mutant: the last hash below the start, not the smallest. *)
MutMinhash(min, m) ==
  FoldLeft(LAMBDA a, i : IF CoinHash(m.vrf, i) < CoinStart THEN CoinHash(m.vrf, i) ELSE a,
           min, [i \in 1 .. m.votes - 1 |-> i])

(* The smallest of min and the hashes of the sub-users of a vote, the last of
   them left out.                                                          *)
minhash(min, m) ==
  FoldLeft(LAMBDA a, i : IF CoinHash(m.vrf, i) < a THEN CoinHash(m.vrf, i) ELSE a,
           min, [i \in 1 .. m.votes - 1 |-> i])

(* The lowest bit of the smallest hash of the votes at hand. *)
commonCoin(msgs) == FoldLeft(minhash, CoinStart, msgs) % 2

-----------------------------------------------------------------------------
Init ==
  /\ hash \in Hashes \cup {none}
  /\ heap = <<>> /\ cdfCache = noCache /\ probCache = noCache
  /\ expCache = [b \in {"pn", "tpn"} |-> noCache] /\ denom = none
  /\ arg = (IF hash = none THEN none ELSE 0)
  /\ res = none /\ gor = noCache /\ j = 0 /\ lower = none /\ selected = none /\ calls = 0

(* Someone calls CDF(k). *)
Call ==
  /\ hash = none /\ arg = none /\ calls < MaxCalls
  /\ \E k \in -1 .. N + 1 : arg' = k
  /\ calls' = calls + 1
  /\ UNCHANGED <<hash, heap, caches, res, gor, j, lower, selected>>

(* Mutant: j is not set back when no interval was found. *)
MutReturn(v) ==
  LET inside == hash * one >= lower * HashMax /\ hash * one < v * HashMax
  IN  IF hash = none THEN arg' = none /\ UNCHANGED <<j, lower, selected>>
      ELSE /\ lower' = v
           /\ j' = IF lower = none \/ inside THEN j ELSE j + 1
           /\ selected' = IF lower = none THEN none ELSE IF inside \/ j + 1 > N THEN j' ELSE none
           /\ arg' = IF selected' = none THEN j' + 1 ELSE none

(* What subUsers does with a bound v that CDF returned: the first is the lower
   one; then the hash is compared with the two.                             *)
Return(v) ==
  LET inside == hash * one >= lower * HashMax /\ hash * one < v * HashMax
  IN  IF hash = none THEN arg' = none /\ UNCHANGED <<j, lower, selected>>
      ELSE /\ lower' = v
           /\ j' = IF lower = none \/ inside THEN j ELSE j + 1
           /\ selected' = IF lower = none THEN none
                          ELSE IF inside THEN j
                          ELSE IF j + 1 > N THEN 0 ELSE none
           /\ arg' = IF selected' = none THEN j' + 1 ELSE none

(* CDF, for an argument outside 0 .. N - 1 or one that is cached. *)
CDFKnown ==
  /\ arg # none /\ res = none
  /\ \/ arg < 0 /\ Return(0)
     \/ arg >= N /\ Return(one)
     \/ arg \in DOMAIN cdfCache /\ arg \in 0 .. N - 1 /\ Return(heap[cdfCache[arg]])
  /\ UNCHANGED <<hash, heap, caches, res, gor, calls>>

(* Mutant: the cached rational itself is added to. *)
MutCDFBegin ==
  LET known == {k \in DOMAIN cdfCache : k < arg}
      last == IF known = {} THEN -1 ELSE Max(known)
  IN  /\ arg \in 0 .. N - 1 /\ arg \notin DOMAIN cdfCache /\ res = none
      /\ heap' = IF known = {} THEN Append(heap, 0) ELSE heap
      /\ res' = IF known = {} THEN Len(heap) + 1 ELSE cdfCache[last]
      /\ gor' = [k \in last + 1 .. arg |-> "start"]
      /\ UNCHANGED <<hash, caches, arg, j, lower, selected, calls>>

(* CDF, otherwise: a copy of the closest sum below that is cached, and a
   goroutine for each probability that it lacks.                           *)
CDFBegin ==
  LET known == {k \in DOMAIN cdfCache : k < arg}
      last == IF known = {} THEN -1 ELSE Max(known)
  IN  /\ arg \in 0 .. N - 1 /\ arg \notin DOMAIN cdfCache /\ res = none
      /\ heap' = Append(heap, IF known = {} THEN 0 ELSE heap[cdfCache[last]])
      /\ res' = Len(heap) + 1
      /\ gor' = [k \in last + 1 .. arg |-> "start"]
      /\ UNCHANGED <<hash, caches, arg, j, lower, selected, calls>>

(* Prob in a goroutine: the cache is looked up ... *)
ProbLoad ==
  /\ \E k \in DOMAIN gor :
       gor[k] = "start" /\ gor' = [gor EXCEPT ![k] = IF k \in DOMAIN probCache THEN "sent" ELSE "miss"]
  /\ UNCHANGED <<hash, heap, caches, arg, res, j, lower, selected, calls>>

(* ... and otherwise C(N,k) p^k (1-p)^(N-k) is computed, stored and sent. *)
ProbStore ==
  \E k \in DOMAIN gor :
    LET tpn == pd - pn
        lnum == Exp(Cache(pn), pn, k)
        ec1 == Caching(expCache, pn, k)
        right == IF cacheOf(tpn) = "none" THEN noCache ELSE ec1[cacheOf(tpn)]
        rnum == Exp(right, tpn, N - k)
        ec2 == Caching(ec1, tpn, N - k)
    IN  /\ gor[k] = "miss"
        /\ probCache' = [i \in DOMAIN probCache \cup {k} |->
                           IF i = k THEN choose(N, k) * lnum * rnum ELSE probCache[i]]
        /\ expCache' = Caching(ec2, pd, N)
        /\ denom' = IF denom = none THEN Exp(Cache(pd), pd, N) ELSE denom
        /\ gor' = [gor EXCEPT ![k] = "sent"]
        /\ UNCHANGED <<hash, heap, cdfCache, arg, res, j, lower, selected, calls>>

(* The call adds up what the goroutines send, in the order in which it comes. *)
Receive ==
  /\ \E k \in DOMAIN gor :
       /\ gor[k] = "sent" /\ gor' = [gor EXCEPT ![k] = "done"]
       /\ heap' = [heap EXCEPT ![res] = @ + probCache[k]]
  /\ UNCHANGED <<hash, caches, arg, res, j, lower, selected, calls>>

(* Mutant: an answer is awaited for every argument from 0 on. *)
MutCDFEnd ==
  /\ res # none /\ \A k \in 0 .. arg : k \in DOMAIN gor /\ gor[k] = "done"
  /\ cdfCache' = [k \in DOMAIN cdfCache \cup {arg} |-> IF k = arg THEN res ELSE cdfCache[k]]
  /\ res' = none /\ gor' = noCache
  /\ Return(heap[res])
  /\ UNCHANGED <<hash, heap, probCache, expCache, denom, calls>>

(* With all of them the sum is stored and returned. *)
CDFEnd ==
  /\ res # none /\ \A k \in DOMAIN gor : gor[k] = "done"
  /\ cdfCache' = [k \in DOMAIN cdfCache \cup {arg} |-> IF k = arg THEN res ELSE cdfCache[k]]
  /\ res' = none /\ gor' = noCache
  /\ Return(heap[res])
  /\ UNCHANGED <<hash, heap, probCache, expCache, denom, calls>>

Next == Call \/ CDFKnown \/ CDFBegin \/ ProbLoad \/ ProbStore \/ Receive \/ CDFEnd

(* Goroutines that can run do, and so does a call that has what it waits for. *)
Fairness == WF_vars(CDFKnown \/ CDFBegin \/ ProbLoad \/ ProbStore \/ Receive \/ CDFEnd)

Spec == Init /\ [][Next]_vars /\ Fairness

-----------------------------------------------------------------------------
(* The reference: the probability of k sub-users, and the sum of those up to k, over pd^N. *)
Probability(k) == choose(N, k) * Power(pn, k) * Power(pd - pn, N - k)
SumOver(S) == MapThenSumSet(LAMBDA k : Probability(k), S)
Cumulative(k) == SumOver(0 .. k)

(* Whatever was asked before, and in whatever order the goroutines answered, a *)
(* cached sum is the exact one, and stays it when later sums start from it.     *)
CDFExact == \A k \in DOMAIN cdfCache : heap[cdfCache[k]] = Cumulative(k)

(* subUsers returns the number of sums that the hash reaches, less one: no      *)
(* sub-user for a hash below the second sum, up to N - 1 for one below 1.       *)
SelectedExact ==
  selected # none =>
    LET reached == {k \in 0 .. N : hash * one >= Cumulative(k) * HashMax}
    IN  selected = IF reached = {} THEN 0 ELSE Cardinality(reached) - 1

(* A coin depends on the votes at hand only: neither their order in the list,   *)
(* nor a vote that is in it twice, makes a difference.                          *)
CoinOrderFree ==
  selected # none =>
    \A w \in Hashes, n \in 0 .. N :
      LET a == [vrf |-> hash, votes |-> selected]
          b == [vrf |-> w, votes |-> n]
      IN  commonCoin(<<a, b>>) = commonCoin(<<b, a>>) /\ commonCoin(<<a, b, a>>) = commonCoin(<<a, b>>)

(* subUsers returns: no goroutine is left waiting at the channel, and the loop   *)
(* ends for every hash.                                                          *)
SubUsersReturns == hash # none ~> selected # none

-----------------------------------------------------------------------------
(* The inductive invariant behind CDFExact and SelectedExact.              *)

(* The caches of powers hold powers, whoever computed them. *)
PowersIn(ec) ==
  /\ DOMAIN ec = {"pn", "tpn"}
  /\ \A k \in Nat \cap DOMAIN ec["pn"] : ec["pn"][k] = Power(pn, k)
  /\ \A k \in Nat \cap DOMAIN ec["tpn"] : ec["tpn"][k] = Power(pd - pn, k)

CacheInv ==
  /\ heap \in Seq(Nat)
  /\ \A k \in DOMAIN cdfCache : k \in 0 .. N - 1 /\ cdfCache[k] \in 1 .. Len(heap)
  /\ \A k \in DOMAIN probCache : probCache[k] = Probability(k)
  /\ PowersIn(expCache)

(* The arguments whose probabilities are in the sum of the running call. *)
Added == {k \in 0 .. arg : k \in DOMAIN gor => gor[k] = "done"}

(* The place of that sum is its own, and a goroutine that has an answer has it
   from the cache.                                                         *)
CallInv ==
  /\ res = none => DOMAIN gor = {}
  /\ res # none =>
       /\ arg \in 0 .. N - 1
       /\ res \in 1 .. Len(heap) /\ \A k \in DOMAIN cdfCache : cdfCache[k] # res
       /\ heap[res] = SumOver(Added)
  /\ DOMAIN gor \subseteq 0 .. arg
  /\ \A k \in DOMAIN gor : gor[k] \in {"sent", "done"} => k \in DOMAIN probCache

SumInv == CacheInv /\ CallInv /\ CDFExact

(* The search of subUsers: where it is, and that the intervals before it missed
   the hash, which is in one of those to come or below all of them.         *)
Reaches(k) == hash * one >= Cumulative(k) * HashMax

SearchInv ==
  /\ hash = none => selected = none
  /\ hash # none =>
       /\ hash \in Hashes
       /\ selected # none => arg = none /\ res = none
       /\ selected = none /\ lower = none => arg = 0 /\ j = 0
       /\ selected = none /\ lower # none =>
            /\ j \in 0 .. N /\ arg = j + 1
            /\ lower = Cumulative(j) /\ (Reaches(j) \/ ~Reaches(0))

IInv == SumInv /\ SearchInv /\ SelectedExact
=============================================================================
