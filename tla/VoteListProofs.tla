--------------------------- MODULE VoteListProofs ---------------------------
(***************************************************************************)
(* Proofs about the list of votes of a step, for every set of votes, every *)
(* number of calls and every order of the goroutines' critical sections.   *)
(***************************************************************************)
EXTENDS VoteList, SumProofs, TLAPS

(* The heads and tails of Next, so that one action is expanded at a time. *)
LEMMA Cases ==
  ASSUME [Next]_vars
  PROVE  \/ \E v \in Votes : handleLookup(v)
         \/ \E v \in Votes : handleAdd(v)
         \/ \E v \in Votes : handleStore(v)
         \/ iteratorLookup \/ iteratorStore \/ countVote \/ countTimeout
         \/ UNCHANGED vars
BY DEF Next, handle, countVotes

(* There are no lists at first. *)
LEMMA InitInv == Init => TypeOK /\ ListInv
BY VoteListAssumption DEF Init, TypeOK, ListInv, Lists, Calls

(* Appending a vote that is in no list keeps every list free of doubles. *)
LEMMA AppendFacts ==
  ASSUME NEW s \in Seq(Votes), NEW v \in Votes,
         \A i, j \in 1 .. Len(s) : s[i] = s[j] => i = j,
         \A i \in 1 .. Len(s) : s[i] # v
  PROVE  /\ Append(s, v) \in Seq(Votes)
         /\ Len(Append(s, v)) = Len(s) + 1
         /\ \A i \in 1 .. Len(s) : Append(s, v)[i] = s[i]
         /\ Append(s, v)[Len(s) + 1] = v
         /\ \A i, j \in 1 .. Len(s) + 1 : Append(s, v)[i] = Append(s, v)[j] => i = j
<1>1. /\ Append(s, v) \in Seq(Votes)
      /\ Len(Append(s, v)) = Len(s) + 1
      /\ \A i \in 1 .. Len(s) : Append(s, v)[i] = s[i]
      /\ Append(s, v)[Len(s) + 1] = v
  OBVIOUS
<1>2. ASSUME NEW i \in 1 .. Len(s) + 1, NEW j \in 1 .. Len(s) + 1,
             Append(s, v)[i] = Append(s, v)[j]
      PROVE  i = j
  <2>1. CASE i \in 1 .. Len(s) /\ j \in 1 .. Len(s)
    BY <1>1, <1>2, <2>1
  <2>2. CASE i = Len(s) + 1 /\ j \in 1 .. Len(s)
    BY <1>1, <1>2, <2>2
  <2>3. CASE i \in 1 .. Len(s) /\ j = Len(s) + 1
    BY <1>1, <1>2, <2>3
  <2> QED
    BY <2>1, <2>2, <2>3
<1> QED
  BY <1>1, <1>2

(* A vote added to a list. *)
LEMMA AddKeepsInv ==
  ASSUME TypeOK, ListInv, NEW v \in Votes, handleAdd(v)
  PROVE  TypeOK' /\ ListInv'
<1> DEFINE l == hlist[v]
           s == content[l]
<1>1. l \in Lists /\ hpc[v] = "add" /\ s \in Seq(Votes)
  BY DEF handleAdd, ListInv, TypeOK
<1>2. \A i \in 1 .. Len(s) : s[i] # v
  BY <1>1 DEF ListInv
<1>3. \A i, j \in 1 .. Len(s) : s[i] = s[j] => i = j
  BY <1>1 DEF TypeOK
<1>4. /\ content' = [content EXCEPT ![l] = Append(s, v)]
      /\ hpc' = [hpc EXCEPT ![v] = "store"]
      /\ UNCHANGED <<incomingVotes, hlist, cpc, clist, index, voters, counts, returns>>
  BY DEF handleAdd, counterVars
<1> HIDE DEF l, s
<1>5. /\ Append(s, v) \in Seq(Votes)
      /\ Len(Append(s, v)) = Len(s) + 1
      /\ \A i \in 1 .. Len(s) : Append(s, v)[i] = s[i]
      /\ Append(s, v)[Len(s) + 1] = v
      /\ \A i, j \in 1 .. Len(s) + 1 : Append(s, v)[i] = Append(s, v)[j] => i = j
  BY <1>1, <1>2, <1>3, AppendFacts
<1>6. content' \in [Lists -> Seq(Votes)] /\ content'[l] = Append(s, v)
      /\ \A k \in Lists \ {l} : content'[k] = content[k]
  BY <1>1, <1>4, <1>5 DEF TypeOK
<1>7. ASSUME NEW k \in Lists, NEW i \in 1 .. Len(content'[k]), NEW j \in 1 .. Len(content'[k]),
             content'[k][i] = content'[k][j]
      PROVE  i = j
  BY <1>5, <1>6, <1>7 DEF TypeOK
<1>8. TypeOK'
  BY <1>4, <1>6, <1>7 DEF TypeOK
<1>9. ASSUME NEW k \in Lists, NEW i \in 1 .. Len(content'[k])
      PROVE  hpc'[content'[k][i]] \in {"store", "done"}
  <2>1. CASE k # l
    <3>1. content'[k] = content[k] /\ content[k] \in Seq(Votes)
      BY <1>6, <2>1 DEF TypeOK
    <3>2. content[k][i] \in Votes /\ hpc[content[k][i]] \in {"store", "done"}
      BY <1>9, <3>1 DEF ListInv
    <3> QED
      BY <1>1, <1>4, <3>1, <3>2 DEF TypeOK
  <2>2. CASE k = l /\ i \in 1 .. Len(s)
    <3>1. s[i] \in Votes /\ hpc[s[i]] \in {"store", "done"}
      BY <1>1, <2>2 DEF ListInv, s, l
    <3> QED
      BY <1>4, <1>5, <1>6, <2>2, <3>1 DEF TypeOK
  <2>3. CASE k = l /\ i = Len(s) + 1
    BY <1>4, <1>5, <1>6, <2>3 DEF TypeOK
  <2> QED
    BY <1>1, <1>5, <1>6, <2>1, <2>2, <2>3
<1>10. \A w \in Votes : hpc'[w] \in {"add", "store"} => hlist'[w] \in Lists
  BY <1>1, <1>4 DEF ListInv, TypeOK, l
<1>11. ListInv'
  BY <1>4, <1>9, <1>10 DEF ListInv
<1> QED
  BY <1>8, <1>11

(* The other steps of handlers leave the lists alone. *)
LEMMA HandlerKeepsInv ==
  ASSUME TypeOK, ListInv, NEW v \in Votes, handleLookup(v) \/ handleStore(v)
  PROVE  TypeOK' /\ ListInv'
<1>1. CASE handleLookup(v)
  <2>1. /\ hpc[v] = "gossiped"
        /\ hlist' = [hlist EXCEPT ![v] = IF incomingVotes = NoList THEN v ELSE incomingVotes]
        /\ hpc' = [hpc EXCEPT ![v] = "add"]
        /\ UNCHANGED <<incomingVotes, content, cpc, clist, index, voters, counts, returns>>
    BY <1>1 DEF handleLookup, counterVars
  <2>2. hlist' \in [Votes -> Lists \cup {NoList}] /\ hlist'[v] \in Lists
    BY <2>1 DEF TypeOK, Lists
  <2>3. TypeOK'
    BY <2>1, <2>2 DEF TypeOK
  <2>4. \A w \in Votes : hpc'[w] \in {"add", "store"} => hlist'[w] \in Lists
    BY <2>1, <2>2 DEF TypeOK, ListInv
  <2>5. ASSUME NEW l \in Lists, NEW i \in 1 .. Len(content[l])
        PROVE  hpc'[content[l][i]] \in {"store", "done"}
    <3>1. content[l][i] \in Votes /\ hpc[content[l][i]] \in {"store", "done"}
      BY <2>5 DEF TypeOK, ListInv
    <3> QED
      BY <2>1, <3>1 DEF TypeOK
  <2> QED
    BY <2>1, <2>3, <2>4, <2>5 DEF ListInv
<1>2. CASE handleStore(v)
  <2>1. /\ hpc[v] = "store"
        /\ incomingVotes' = hlist[v]
        /\ hpc' = [hpc EXCEPT ![v] = "done"]
        /\ UNCHANGED <<content, hlist, cpc, clist, index, voters, counts, returns>>
    BY <1>2 DEF handleStore, counterVars
  <2>2. TypeOK'
    BY <2>1 DEF TypeOK
  <2>3. \A w \in Votes : hpc'[w] \in {"add", "store"} => hlist'[w] \in Lists
    BY <2>1 DEF TypeOK, ListInv
  <2>4. ASSUME NEW l \in Lists, NEW i \in 1 .. Len(content[l])
        PROVE  hpc'[content[l][i]] \in {"store", "done"}
    <3>1. content[l][i] \in Votes /\ hpc[content[l][i]] \in {"store", "done"}
      BY <2>4 DEF TypeOK, ListInv
    <3> QED
      BY <2>1, <3>1 DEF TypeOK
  <2> QED
    BY <2>1, <2>2, <2>3, <2>4 DEF ListInv
<1> QED
  BY <1>1, <1>2

(* countVotes only reads the lists. *)
LEMMA CounterKeepsInv ==
  ASSUME TypeOK, ListInv, iteratorLookup \/ iteratorStore \/ countVote \/ countTimeout
  PROVE  TypeOK' /\ ListInv'
<1> SUFFICES /\ TypeOK'
             /\ UNCHANGED <<content, hpc, hlist>>
             /\ cpc' \in {"store", "loop"} => clist' \in Lists
  BY DEF ListInv
<1>1. UNCHANGED <<content, hpc, hlist>>
  BY DEF iteratorLookup, iteratorStore, countVote, countTimeout, handlerVars
<1>2. CASE iteratorLookup
  <2>1. call \in Calls
    BY <1>2, VoteListAssumption DEF iteratorLookup, call, Calls, TypeOK
  <2>2. \E l \in Lists : BeginCount(l)
    BY <1>2, <2>1 DEF iteratorLookup, TypeOK, Lists
  <2>3. clist' \in Lists /\ index' = 1 /\ voters' = {} /\ counts' = [h \in Hashes |-> 0]
    BY <2>2 DEF BeginCount
  <2>4. cpc' \in {"store", "loop"} /\ UNCHANGED <<incomingVotes, returns>>
    BY <1>2 DEF iteratorLookup
  <2> QED
    BY <1>1, <2>3, <2>4 DEF TypeOK
<1>3. CASE iteratorStore
  <2>1. incomingVotes' = clist /\ cpc = "store" /\ cpc' = "loop"
        /\ UNCHANGED <<clist, index, voters, counts, returns>>
    BY <1>3 DEF iteratorStore
  <2> QED
    BY <1>1, <2>1 DEF TypeOK, ListInv
<1> DEFINE Outcome == [list : Lists, read : Nat, outcome : Hashes \cup {Timeout}]
<1>4. ASSUME NEW o \in Hashes \cup {Timeout}, Return(o), cpc = "loop", index' \in Nat \ {0}
      PROVE  cpc' = "idle" /\ returns' \in Seq(Outcome)
  <2> DEFINE e == [list |-> clist, read |-> index' - 1, outcome |-> o]
  <2>1. clist \in Lists
    BY <1>4, Zenon DEF ListInv
  <2>2. e \in Outcome
    <3>1. \A k \in Nat \ {0} : k - 1 \in Nat
      OBVIOUS
    <3>2. index' - 1 \in Nat
      BY <1>4, <3>1
    <3> QED
      BY <2>1, <3>2
  <2>3. returns \in Seq(Outcome) /\ returns' = Append(returns, e) /\ cpc' = "idle"
    BY <1>4 DEF Return, TypeOK
  <2> HIDE DEF Outcome, e
  <2> QED
    BY <2>2, <2>3
<1>5. CASE countVote
  <2> DEFINE v == content[clist][index]
             h == HashOf[v]
  <2>1. /\ cpc = "loop" /\ clist \in Lists
        /\ index \in 1 .. Len(content[clist]) /\ index' = index + 1
        /\ UNCHANGED <<incomingVotes, clist>>
    BY <1>5 DEF countVote, hasNext, TypeOK, ListInv
  <2>2. v \in Votes /\ h \in Hashes /\ Voter[v] \in Users /\ Weight[Voter[v]] \in Nat
    BY <2>1, VoteListAssumption DEF TypeOK, Hashes, Users
  <2>3. \/ UNCHANGED <<cpc, voters, counts, returns>>
        \/ /\ voters' = voters \cup {Voter[v]}
           /\ counts' = [counts EXCEPT ![h] = @ + Weight[Voter[v]]]
           /\ Return(h) \/ UNCHANGED <<cpc, returns>>
    BY <1>5 DEF countVote
  <2> HIDE DEF v, h
  <2>4. CASE UNCHANGED <<cpc, voters, counts, returns>>
    BY <1>1, <2>1, <2>4 DEF TypeOK
  <2>5. CASE /\ voters' = voters \cup {Voter[v]}
             /\ counts' = [counts EXCEPT ![h] = @ + Weight[Voter[v]]]
             /\ Return(h) \/ UNCHANGED <<cpc, returns>>
    <3>1. voters' \subseteq Users
      BY <2>2, <2>5 DEF TypeOK
    <3>2. counts' \in [Hashes -> Nat]
      BY <2>2, <2>5 DEF TypeOK
    <3>3. index' \in Nat \ {0}
      BY <2>1
    <3>4. cpc' \in {"idle", "loop"} /\ returns' \in Seq(Outcome)
      <4>1. CASE Return(h)
        BY <1>4, <2>1, <2>2, <3>3, <4>1
      <4>2. CASE UNCHANGED <<cpc, returns>>
        BY <2>1, <4>2 DEF TypeOK
      <4> QED
        BY <2>5, <4>1, <4>2
    <3> QED
      BY <1>1, <2>1, <3>1, <3>2, <3>3, <3>4 DEF TypeOK
  <2> QED
    BY <2>3, <2>4, <2>5
<1>6. CASE countTimeout
  <2>1. /\ cpc = "loop" /\ Return(Timeout)
        /\ UNCHANGED <<incomingVotes, clist, index, voters, counts>>
    BY <1>6 DEF countTimeout
  <2>2. cpc' = "idle" /\ returns' \in Seq(Outcome)
    BY <1>4, <2>1 DEF TypeOK
  <2> QED
    BY <1>1, <2>1, <2>2 DEF TypeOK
<1> QED
  BY <1>2, <1>3, <1>5, <1>6

(* Every step keeps the lists consistent. *)
LEMMA StepKeepsInv == TypeOK /\ ListInv /\ [Next]_vars => TypeOK' /\ ListInv'
<1> SUFFICES ASSUME TypeOK, ListInv, [Next]_vars PROVE TypeOK' /\ ListInv'
  OBVIOUS
<1>1. CASE UNCHANGED vars
  BY <1>1 DEF vars, handlerVars, counterVars, TypeOK, ListInv
<1> QED
  BY <1>1, Cases, AddKeepsInv, HandlerKeepsInv, CounterKeepsInv

(* Type correctness: and however the critical sections of handle, voteIterator
   and countVotes interleave, no vote is put in a list twice.              *)
THEOREM TypeCorrect == Spec => []TypeOK
<1>1. Spec => [](TypeOK /\ ListInv)
  BY InitInv, StepKeepsInv, PTL DEF Spec
<1> QED
  BY <1>1, PTL

(* Votes are lost only while lists are made: from the first moment at which
   every handler and every countVotes call at work holds the list in the map,
   the list stays in the map and all of them hold it.                      *)
THEOREM CalmIsStable == Spec => CalmStays
<1>1. TypeOK /\ [Next]_vars => [Calm => Calm' /\ incomingVotes' = incomingVotes]_vars
  <2> SUFFICES ASSUME TypeOK, [Next]_vars, Calm
               PROVE  Calm' /\ incomingVotes' = incomingVotes
    OBVIOUS
  <2>1. ASSUME NEW v \in Votes, handleLookup(v)
        PROVE  Calm' /\ incomingVotes' = incomingVotes
    BY <2>1 DEF handleLookup, Calm, TypeOK, counterVars
  <2>2. ASSUME NEW v \in Votes, handleAdd(v)
        PROVE  Calm' /\ incomingVotes' = incomingVotes
    BY <2>2 DEF handleAdd, Calm, TypeOK, counterVars
  <2>3. ASSUME NEW v \in Votes, handleStore(v)
        PROVE  Calm' /\ incomingVotes' = incomingVotes
    BY <2>3 DEF handleStore, Calm, TypeOK, counterVars
  <2>4. CASE iteratorLookup
    BY <2>4 DEF iteratorLookup, BeginCount, Calm, handlerVars
  <2>5. CASE iteratorStore
    BY <2>5 DEF iteratorStore, Calm, handlerVars
  <2>6. CASE countVote
    BY <2>6 DEF countVote, Calm, handlerVars, Return
  <2>7. CASE countTimeout
    BY <2>7 DEF countTimeout, Calm, handlerVars, Return
  <2>8. CASE UNCHANGED vars
    BY <2>8 DEF vars, Calm, handlerVars, counterVars
  <2> QED
    BY Cases, <2>1, <2>2, <2>3, <2>4, <2>5, <2>6, <2>7, <2>8
<1> QED
  BY <1>1, TypeCorrect, PTL DEF Spec, CalmStays

-----------------------------------------------------------------------------
(* What countVotes has counted.                                            *)

(* The prefixes of a list. *)
LEMMA Prefix ==
  ASSUME NEW s \in Seq(Votes), NEW n \in -1 .. Len(s)
  PROVE  /\ SubSeq(s, 1, n) \in Seq(Votes)
         /\ Len(SubSeq(s, 1, n)) = IF n = -1 THEN 0 ELSE n
         /\ \A i \in 1 .. n : SubSeq(s, 1, n)[i] = s[i]
OBVIOUS

(* The users with sub-users whose first vote, of the first n in s, is for h. *)
FirstIn(s, n, h) ==
  {u \in Users : /\ Weight[u] # 0
                 /\ \E i \in 1 .. n :
                      /\ Voter[s[i]] = u /\ HashOf[s[i]] = h
                      /\ \A j \in 1 .. i - 1 : Voter[s[j]] # u}

(* The users whose first vote is for h, in the part of a list that was read. *)
LEMMA FirstVotersIn ==
  ASSUME NEW s \in Seq(Votes), NEW n \in -1 .. Len(s), NEW h
  PROVE  FirstVoters(SubSeq(s, 1, n), h) = FirstIn(s, n, h)
<1> DEFINE p == SubSeq(s, 1, n)
<1>1. /\ \A i \in 1 .. n : p[i] = s[i]
      /\ 1 .. Len(p) = 1 .. n
  BY Prefix
<1> HIDE DEF p
<1>2. \A i \in 1 .. n : \A j \in 1 .. i - 1 : j \in 1 .. n
  OBVIOUS
<1>3. ASSUME NEW u, NEW i \in 1 .. n
      PROVE  /\ Voter[p[i]] = u <=> Voter[s[i]] = u
             /\ HashOf[p[i]] = h <=> HashOf[s[i]] = h
             /\ (\A j \in 1 .. i - 1 : Voter[p[j]] # u) <=> (\A j \in 1 .. i - 1 : Voter[s[j]] # u)
  BY <1>1, <1>2
<1> DEFINE InP(u) == \E i \in 1 .. Len(p) : /\ Voter[p[i]] = u /\ HashOf[p[i]] = h
                                            /\ \A j \in 1 .. i - 1 : Voter[p[j]] # u
           InS(u) == \E i \in 1 .. n : /\ Voter[s[i]] = u /\ HashOf[s[i]] = h
                                       /\ \A j \in 1 .. i - 1 : Voter[s[j]] # u
<1>4. \A u : InP(u) <=> InS(u)
  BY <1>1, <1>3
<1>5. /\ FirstVoters(p, h) = {u \in Users : Weight[u] # 0 /\ InP(u)}
      /\ FirstIn(s, n, h) = {u \in Users : Weight[u] # 0 /\ InS(u)}
  BY DEF FirstVoters, FirstIn
<1> HIDE DEF InP, InS
<1>6. FirstVoters(p, h) = FirstIn(s, n, h)
  BY <1>4, <1>5
<1> QED
  BY <1>6 DEF p

(* The users are finitely many, and their sub-users add up. *)
LEMMA UsersFinite == IsFiniteSet(Users)
<1> DEFINE f == [v \in Votes |-> Voter[v]]
<1>1. f \in Surjection(Votes, Users)
  BY DEF Surjection, Users
<1> QED
  BY <1>1, VoteListAssumption, FS_Surjection

(* The sub-users of some users are a number, and a user more adds its own. *)
LEMMA SubUsersFacts ==
  ASSUME NEW S \in SUBSET Users
  PROVE  /\ SubUsers(S) \in Nat
         /\ S = {} => SubUsers(S) = 0
         /\ \A u \in Users \ S : SubUsers(S \cup {u}) = SubUsers(S) + Weight[u]
         /\ \A R \in SUBSET S : SubUsers(R) <= SubUsers(S)
<1>1. IsFiniteSet(S) /\ \A u \in Users : Weight[u] \in Nat
  BY UsersFinite, FS_Subset, VoteListAssumption
<1>2. \A R : SubUsers(R) = Sum(Weight, R)
  BY DEF SubUsers, Sum
<1>3. Sum(Weight, S) \in Nat
  BY <1>1, SumNat
<1>4. S = {} => Sum(Weight, S) = 0
  BY <1>1, SumUnfold
<1>5. ASSUME NEW u \in Users \ S PROVE Sum(Weight, S \cup {u}) = Weight[u] + Sum(Weight, S)
  BY <1>1, SumAdd
<1>6. ASSUME NEW R \in SUBSET S PROVE Sum(Weight, R) <= Sum(Weight, S)
  BY <1>1, SumMono
<1> QED
  BY <1>1, <1>2, <1>3, <1>4, <1>5, <1>6

(* The votes counted for a hash grow with the votes that are read. *)
LEMMA FirstMono ==
  ASSUME NEW s \in Seq(Votes), NEW m \in -1 .. Len(s), NEW n \in -1 .. Len(s), m <= n,
         NEW h, ReachedIn(SubSeq(s, 1, m), h)
  PROVE  ReachedIn(SubSeq(s, 1, n), h)
<1>1. FirstIn(s, m, h) \subseteq FirstIn(s, n, h) /\ FirstIn(s, n, h) \subseteq Users
  BY DEF FirstIn
<1>2. /\ SubUsers(FirstIn(s, m, h)) <= SubUsers(FirstIn(s, n, h))
      /\ SubUsers(FirstIn(s, n, h)) \in Nat /\ SubUsers(FirstIn(s, m, h)) \in Nat
  BY <1>1, SubUsersFacts
<1> QED
  BY <1>2, FirstVotersIn, VoteListAssumption DEF ReachedIn

(* Nothing is reached without a vote. *)
LEMMA NothingReached ==
  ASSUME NEW s \in Seq(Votes), NEW n \in {-1, 0}, NEW h
  PROVE  SubUsers(FirstVoters(SubSeq(s, 1, n), h)) = 0 /\ ~ReachedIn(SubSeq(s, 1, n), h)
<1>1. FirstIn(s, n, h) = {}
  BY DEF FirstIn
<1>2. FirstVoters(SubSeq(s, 1, n), h) = {}
  BY <1>1, FirstVotersIn
<1> QED
  BY <1>2, SubUsersFacts, VoteListAssumption DEF ReachedIn

(* One more vote is read. *)
LEMMA FirstStep ==
  ASSUME NEW s \in Seq(Votes), NEW n \in 1 .. Len(s), NEW h
  PROVE  LET u == Voter[s[n]]
         IN  FirstIn(s, n, h) =
               IF Weight[u] # 0 /\ HashOf[s[n]] = h /\ \A i \in 1 .. n - 1 : Voter[s[i]] # u
                 THEN FirstIn(s, n - 1, h) \cup {u}
                 ELSE FirstIn(s, n - 1, h)
<1> DEFINE u == Voter[s[n]]
           new == HashOf[s[n]] = h /\ \A i \in 1 .. n - 1 : Voter[s[i]] # u
<1>1. s[n] \in Votes /\ u \in Users
  BY DEF Users
<1>2. 1 .. n = (1 .. n - 1) \cup {n}
  OBVIOUS
<1>3. ASSUME NEW x \in Users
      PROVE  (\E i \in 1 .. n : /\ Voter[s[i]] = x /\ HashOf[s[i]] = h
                                /\ \A j \in 1 .. i - 1 : Voter[s[j]] # x)
             <=> \/ \E i \in 1 .. n - 1 : /\ Voter[s[i]] = x /\ HashOf[s[i]] = h
                                          /\ \A j \in 1 .. i - 1 : Voter[s[j]] # x
                 \/ x = u /\ new
  BY <1>2
<1> QED
  BY <1>1, <1>3 DEF FirstIn

(* A list that a vote is appended to keeps its prefixes. *)
LEMMA AppendPrefix ==
  ASSUME NEW s \in Seq(Votes), NEW v \in Votes, NEW n \in -1 .. Len(s)
  PROVE  SubSeq(Append(s, v), 1, n) = SubSeq(s, 1, n)
OBVIOUS

(* What a return holds, and how its list compares with what it has read. *)
LEMMA ReturnFacts ==
  ASSUME IInv, NEW i \in 1 .. Len(returns)
  PROVE  /\ returns[i].list \in Lists /\ returns[i].read \in Nat
         /\ content[returns[i].list] \in Seq(Votes)
         /\ returns[i].read <= Len(content[returns[i].list])
         /\ ExactReturn(returns[i])
<1> DEFINE Outcome == [list : Lists, read : Nat, outcome : Hashes \cup {Timeout}]
<1>1. returns \in Seq(Outcome)
  BY DEF IInv, TypeOK
<1>2. returns[i] \in Outcome
  <2> HIDE DEF Outcome
  <2> QED
    BY <1>1
<1>3. returns[i].list \in Lists /\ returns[i].read \in Nat
  BY <1>2
<1> QED
  BY <1>3 DEF IInv, TypeOK, ReturnInv, CountExact

(* While the lists grow at their ends and countVotes does nothing, what it has
   counted and returned stays exact.                                       *)
LEMMA GrowInv ==
  ASSUME IInv,
         \A l \in Lists : /\ content'[l] \in Seq(Votes) /\ Len(content[l]) <= Len(content'[l])
                          /\ \A n \in -1 .. Len(content[l]) :
                               SubSeq(content'[l], 1, n) = SubSeq(content[l], 1, n),
         UNCHANGED counterVars
  PROVE  CountInv' /\ ReturnInv'
<1>1. /\ UNCHANGED <<cpc, clist, index, voters, counts, returns>>
      /\ TypeOK /\ ListInv /\ CountInv /\ ReturnInv
  BY DEF counterVars, IInv
<1>2. CountInv'
  <2> SUFFICES ASSUME cpc \in {"store", "loop"}
               PROVE  CountInv'
    BY <1>1 DEF CountInv
  <2>1. clist \in Lists /\ index - 1 <= Len(content[clist]) /\ index - 1 \in -1 .. Len(content[clist])
    BY <1>1 DEF ListInv, CountInv, TypeOK
  <2>2. /\ SubSeq(content'[clist], 1, index - 1) = SubSeq(content[clist], 1, index - 1)
        /\ index - 1 <= Len(content'[clist])
    BY <2>1 DEF TypeOK
  <2> QED
    BY <1>1, <2>2 DEF CountInv, ReachedIn
<1>3. ASSUME NEW i \in 1 .. Len(returns)
      PROVE  ExactReturn(returns[i])' /\ returns[i].read <= Len(content'[returns[i].list])
  <2> DEFINE l == returns[i].list
             n == returns[i].read
  <2>1. l \in Lists /\ n \in Nat /\ n <= Len(content[l]) /\ content[l] \in Seq(Votes)
        /\ ExactReturn(returns[i])
    BY ReturnFacts
  <2>2. /\ SubSeq(content'[l], 1, n) = SubSeq(content[l], 1, n)
        /\ SubSeq(content'[l], 1, n - 1) = SubSeq(content[l], 1, n - 1)
        /\ n <= Len(content'[l])
    <3> HIDE DEF n, l
    <3>1. n \in -1 .. Len(content[l]) /\ n - 1 \in -1 .. Len(content[l])
          /\ Len(content[l]) \in Nat
      BY <2>1
    <3>2. /\ content'[l] \in Seq(Votes) /\ Len(content[l]) <= Len(content'[l])
          /\ \A k \in -1 .. Len(content[l]) :
               SubSeq(content'[l], 1, k) = SubSeq(content[l], 1, k)
      BY <2>1
    <3>3. n <= Len(content'[l])
      BY <2>1, <3>1, <3>2
    <3>4. /\ SubSeq(content'[l], 1, n) = SubSeq(content[l], 1, n)
          /\ SubSeq(content'[l], 1, n - 1) = SubSeq(content[l], 1, n - 1)
      BY <3>1, <3>2
    <3> QED
      BY <3>3, <3>4
  <2> QED
    BY <1>1, <2>1, <2>2 DEF ExactReturn, ReachedIn
<1>4. ReturnInv'
  BY <1>1, <1>3 DEF ReturnInv, CountExact
<1> QED
  BY <1>2, <1>4

(* What handlers append does not touch what the calls have counted. *)
LEMMA HandlersCountInv ==
  ASSUME IInv, NEW v \in Votes, handleLookup(v) \/ handleAdd(v) \/ handleStore(v)
  PROVE  CountInv' /\ ReturnInv'
<1>1. TypeOK /\ ListInv
  BY DEF IInv
<1>2. UNCHANGED counterVars
  BY DEF handleLookup, handleAdd, handleStore
<1>3. CASE handleLookup(v) \/ handleStore(v)
  <2>1. content' = content
    BY <1>3 DEF handleLookup, handleStore
  <2> QED
    BY <1>1, <1>2, <2>1, GrowInv DEF TypeOK
<1>4. CASE handleAdd(v)
  <2>1. hlist[v] \in Lists /\ content' = [content EXCEPT ![hlist[v]] = Append(@, v)]
    BY <1>1, <1>4 DEF handleAdd, ListInv
  <2>2. ASSUME NEW l \in Lists
        PROVE  /\ content'[l] \in Seq(Votes) /\ Len(content[l]) <= Len(content'[l])
               /\ \A n \in -1 .. Len(content[l]) : SubSeq(content'[l], 1, n) = SubSeq(content[l], 1, n)
    <3>1. content[l] \in Seq(Votes)
      BY <1>1 DEF TypeOK
    <3>2. content'[l] = content[l] \/ content'[l] = Append(content[l], v)
      BY <1>1, <2>1 DEF TypeOK
    <3> QED
      BY <3>1, <3>2, AppendPrefix
  <2> QED
    BY <1>2, <2>2, GrowInv
<1> QED
  BY <1>3, <1>4

(* A call that begins has counted nothing. *)
LEMMA LookupCountInv ==
  ASSUME IInv, iteratorLookup
  PROVE  CountInv' /\ ReturnInv'
<1>1. TypeOK /\ ListInv /\ ReturnInv
  BY DEF IInv
<1>2. UNCHANGED <<content, returns>>
  BY DEF iteratorLookup
<1>3. ReturnInv'
  BY <1>1, <1>2 DEF ReturnInv, CountExact, ExactReturn
<1>4. call \in Calls
  BY <1>1, VoteListAssumption DEF iteratorLookup, call, Calls, TypeOK
<1>5. PICK l \in Lists : BeginCount(l)
  BY <1>1, <1>4 DEF iteratorLookup, TypeOK, Lists
<1>6. clist' = l /\ index' = 1 /\ voters' = {} /\ counts' = [h \in Hashes |-> 0]
  BY <1>5 DEF BeginCount
<1> DEFINE read == SubSeq(content[l], 1, 0)
<1>7. content[l] \in Seq(Votes)
  BY <1>1 DEF TypeOK
<1>8. \A h \in Hashes : SubUsers(FirstVoters(read, h)) = 0 /\ ~ReachedIn(read, h)
  BY <1>7, NothingReached
<1>9. Len(read) = 0 /\ 0 <= Len(content[l])
  BY <1>7, Prefix
<1>10. read = SubSeq(content'[clist'], 1, index' - 1)
  BY <1>2, <1>6
<1> HIDE DEF read
<1>11. CountInv'
  BY <1>2, <1>6, <1>8, <1>9, <1>10 DEF CountInv, ReachedIn
<1> QED
  BY <1>3, <1>11

(* An iterator that gets its list starts at its head. *)
LEMMA StoreCountInv ==
  ASSUME IInv, iteratorStore
  PROVE  CountInv' /\ ReturnInv'
<1>1. /\ UNCHANGED <<content, clist, index, voters, counts, returns>> /\ cpc = "store"
      /\ CountInv /\ ReturnInv
  BY DEF iteratorStore, IInv
<1>2. ReturnInv'
  BY <1>1 DEF ReturnInv, CountExact, ExactReturn
<1>3. CountInv'
  BY <1>1 DEF CountInv, ReachedIn
<1> QED
  BY <1>2, <1>3

(* An exact return keeps the returns exact. *)
LEMMA ReturnKeepsInv ==
  ASSUME IInv, UNCHANGED content, NEW e \in [list : Lists, read : Nat, outcome : Hashes \cup {Timeout}],
         returns' = Append(returns, e), ExactReturn(e), e.read <= Len(content[e.list]),
         e.outcome = Timeout => e.read = Len(content[e.list])
  PROVE  ReturnInv'
<1> DEFINE Outcome == [list : Lists, read : Nat, outcome : Hashes \cup {Timeout}]
           n == Len(returns)
<1>1. returns \in Seq(Outcome) /\ ReturnInv
  BY DEF IInv, TypeOK
<1>2. ASSUME NEW i \in 1 .. n
      PROVE  /\ ExactReturn(returns[i])
             /\ returns[i].read <= Len(content[returns[i].list])
             /\ returns[i].read \in Nat
  BY ReturnFacts
<1>3. /\ Len(returns') = n + 1 /\ n \in Nat
      /\ \A i \in 1 .. n : returns'[i] = returns[i]
      /\ returns'[n + 1] = e
  <2> HIDE DEF Outcome
  <2> QED
    BY <1>1
<1> HIDE DEF n
<1>4. ASSUME NEW i \in 1 .. n + 1
      PROVE  ExactReturn(returns'[i]) /\ returns'[i].read <= Len(content[returns'[i].list])
  BY <1>2, <1>3
<1>5. ASSUME NEW i \in 1 .. n + 1, NEW j \in 1 .. n + 1, i < j,
             returns'[i].list = returns'[j].list, returns'[j].outcome = Timeout
      PROVE  returns'[i].read <= returns'[j].read
  <2>1. i \in 1 .. n
    BY <1>3, <1>5
  <2>2. CASE j \in 1 .. n
    BY <1>1, <1>3, <1>5, <2>1, <2>2 DEF ReturnInv, n
  <2>3. CASE j = n + 1
    BY <1>2, <1>3, <1>5, <2>1, <2>3
  <2> QED
    BY <1>3, <2>2, <2>3
<1>6. \A i \in 1 .. n + 1 : ExactReturn(returns[i])'
  BY <1>4 DEF ExactReturn, ReachedIn
<1> QED
  BY <1>3, <1>4, <1>5, <1>6 DEF ReturnInv, CountExact

(* What one more vote adds to the counts. *)
LEMMA OneMoreVote ==
  ASSUME IInv, cpc = "loop", hasNext
  PROVE  LET s == content[clist]
             v == s[index]
             new == SubSeq(s, 1, index)
         IN  /\ clist \in Lists /\ s \in Seq(Votes) /\ index \in 1 .. Len(s)
             /\ v \in Votes /\ Voter[v] \in Users /\ HashOf[v] \in Hashes
             /\ {u \in Users : Weight[u] # 0 /\ \E i \in 1 .. Len(new) : Voter[new[i]] = u}
                  = IF Countable(v) THEN voters \cup {Voter[v]} ELSE voters
             /\ \A h \in Hashes :
                  SubUsers(FirstVoters(new, h)) =
                    IF Countable(v) /\ h = HashOf[v] THEN counts[h] + Weight[Voter[v]] ELSE counts[h]
<1> DEFINE s == content[clist]
           v == s[index]
           u == Voter[v]
           old == SubSeq(s, 1, index - 1)
           new == SubSeq(s, 1, index)
<1>1. clist \in Lists /\ s \in Seq(Votes) /\ index \in 1 .. Len(s)
  BY DEF IInv, ListInv, TypeOK, hasNext
<1>2. v \in Votes /\ u \in Users /\ HashOf[v] \in Hashes
  BY <1>1 DEF Users, Hashes
<1>3. /\ voters = {x \in Users : Weight[x] # 0 /\ \E i \in 1 .. Len(old) : Voter[old[i]] = x}
      /\ \A h \in Hashes : counts[h] = SubUsers(FirstVoters(old, h))
  BY DEF IInv, CountInv
<1>4. /\ Len(old) = index - 1 /\ \A i \in 1 .. index - 1 : old[i] = s[i]
      /\ Len(new) = index /\ \A i \in 1 .. index : new[i] = s[i]
      /\ \A h : FirstVoters(old, h) = FirstIn(s, index - 1, h)
      /\ \A h : FirstVoters(new, h) = FirstIn(s, index, h)
  <2>1. index \in -1 .. Len(s) /\ index - 1 \in -1 .. Len(s) /\ index - 1 # -1
    BY <1>1
  <2> HIDE DEF s
  <2> QED
    BY <1>1, <2>1, Prefix, FirstVotersIn
<1> HIDE DEF s, v, u, old, new
<1>5. voters = {x \in Users : Weight[x] # 0 /\ \E i \in 1 .. index - 1 : Voter[s[i]] = x}
  BY <1>3, <1>4
<1>6. Countable(v) <=> Weight[u] # 0 /\ \A i \in 1 .. index - 1 : Voter[s[i]] # u
  BY <1>2, <1>5 DEF Countable, u
<1>7. {x \in Users : Weight[x] # 0 /\ \E i \in 1 .. index : Voter[s[i]] = x}
        = IF Countable(v) THEN voters \cup {u} ELSE voters
  <2>1. 1 .. index = (1 .. index - 1) \cup {index} /\ Voter[s[index]] = u
    BY <1>1 DEF u, v
  <2> QED
    BY <1>2, <1>5, <1>6, <2>1
<1>8. {x \in Users : Weight[x] # 0 /\ \E i \in 1 .. Len(new) : Voter[new[i]] = x}
        = {x \in Users : Weight[x] # 0 /\ \E i \in 1 .. index : Voter[s[i]] = x}
  BY <1>4
<1>9. ASSUME NEW h \in Hashes
      PROVE  SubUsers(FirstVoters(new, h)) =
               IF Countable(v) /\ h = HashOf[v] THEN counts[h] + Weight[u] ELSE counts[h]
  <2>1. FirstIn(s, index, h) =
          IF Weight[u] # 0 /\ HashOf[v] = h /\ \A i \in 1 .. index - 1 : Voter[s[i]] # u
            THEN FirstIn(s, index - 1, h) \cup {u}
            ELSE FirstIn(s, index - 1, h)
    BY <1>1, FirstStep DEF u, v
  <2>2. FirstIn(s, index, h) =
          IF Countable(v) /\ h = HashOf[v] THEN FirstIn(s, index - 1, h) \cup {u}
                                           ELSE FirstIn(s, index - 1, h)
    BY <1>6, <2>1
  <2>3. FirstIn(s, index - 1, h) \subseteq Users /\ (Countable(v) => u \notin FirstIn(s, index - 1, h))
    BY <1>6 DEF FirstIn
  <2>4. counts[h] = SubUsers(FirstIn(s, index - 1, h))
    BY <1>3, <1>4
  <2>5. Countable(v) => SubUsers(FirstIn(s, index - 1, h) \cup {u}) = counts[h] + Weight[u]
    BY <1>2, <2>3, <2>4, SubUsersFacts
  <2> QED
    BY <1>4, <2>2, <2>4, <2>5
<1> QED
  BY <1>1, <1>2, <1>7, <1>8, <1>9 DEF s, v, u, new

(* countVotes returns: what it returns is exact if the votes it has read reach
   the threshold for the outcome only, and did not before the last one.    *)
LEMMA ReturnIsExact ==
  ASSUME IInv, UNCHANGED <<content, clist>>, cpc = "loop", NEW o \in Hashes \cup {Timeout}, Return(o),
         index' - 1 \in Nat, index' - 1 <= Len(content[clist]),
         o = Timeout => index' - 1 = Len(content[clist]),
         \A h \in Hashes : /\ ReachedIn(SubSeq(content[clist], 1, index' - 1), h) <=> h = o
                           /\ ~ReachedIn(SubSeq(content[clist], 1, (index' - 1) - 1), h)
  PROVE  CountInv' /\ ReturnInv'
<1> DEFINE e == [list |-> clist, read |-> index' - 1, outcome |-> o]
<1>1. cpc' = "idle" /\ returns' = Append(returns, e)
  BY DEF Return
<1>2. clist \in Lists
  BY DEF IInv, ListInv
<1>3. e \in [list : Lists, read : Nat, outcome : Hashes \cup {Timeout}]
  BY <1>2
<1>4. ExactReturn(e)
  BY DEF ExactReturn
<1>5. e.list = clist /\ e.read = index' - 1 /\ e.outcome = o
  OBVIOUS
<1> HIDE DEF e
<1>6. ReturnInv'
  BY <1>1, <1>3, <1>4, <1>5, ReturnKeepsInv
<1> QED
  BY <1>1, <1>6 DEF CountInv

(* A vote counted, or passed over. *)
LEMMA VoteCountInv ==
  ASSUME IInv, countVote
  PROVE  CountInv' /\ ReturnInv'
<1> DEFINE s == content[clist]
           v == s[index]
           u == Voter[v]
           k == HashOf[v]
           new == SubSeq(s, 1, index)
<1>1. /\ cpc = "loop" /\ hasNext /\ index' = index + 1 /\ UNCHANGED <<content, clist>>
      /\ TypeOK /\ CountInv /\ ReturnInv
  BY DEF countVote, IInv
<1>2. /\ clist \in Lists /\ s \in Seq(Votes) /\ index \in 1 .. Len(s)
      /\ v \in Votes /\ u \in Users /\ k \in Hashes
      /\ {x \in Users : Weight[x] # 0 /\ \E i \in 1 .. Len(new) : Voter[new[i]] = x}
           = IF Countable(v) THEN voters \cup {u} ELSE voters
      /\ \A h \in Hashes :
           SubUsers(FirstVoters(new, h)) =
             IF Countable(v) /\ h = k THEN counts[h] + Weight[u] ELSE counts[h]
  BY <1>1, OneMoreVote
<1>3. \A h \in Hashes : counts[h] \in Nat /\ ~(counts[h] >= Threshold)
                        /\ ~ReachedIn(SubSeq(s, 1, index - 1), h)
  BY <1>1 DEF TypeOK, CountInv, ReachedIn
<1>4. \/ ~Countable(v) /\ UNCHANGED <<cpc, voters, counts, returns>>
      \/ /\ Countable(v)
         /\ voters' = voters \cup {u}
         /\ counts' = [counts EXCEPT ![k] = @ + Weight[u]]
         /\ IF counts'[k] >= Threshold THEN Return(k) ELSE UNCHANGED <<cpc, returns>>
  BY DEF countVote
<1>5. index' - 1 = index /\ index <= Len(s)
  BY <1>1, <1>2
<1> HIDE DEF s, v, u, k, new
<1>6. /\ voters' = {x \in Users : Weight[x] # 0 /\ \E i \in 1 .. Len(new) : Voter[new[i]] = x}
      /\ \A h \in Hashes : counts'[h] = SubUsers(FirstVoters(new, h))
  <2>1. voters' = IF Countable(v) THEN voters \cup {u} ELSE voters
    BY <1>4
  <2>2. ASSUME NEW h \in Hashes
        PROVE  counts'[h] = IF Countable(v) /\ h = k THEN counts[h] + Weight[u] ELSE counts[h]
    BY <1>1, <1>4 DEF TypeOK
  <2> QED
    BY <1>2, <2>1, <2>2
<1>7. new = SubSeq(content'[clist'], 1, index' - 1)
  BY <1>1, <1>5 DEF new, s
<1>8. CASE UNCHANGED returns /\ \A h \in Hashes : ~(counts'[h] >= Threshold)
  <2>1. ReturnInv'
    BY <1>1, <1>8 DEF ReturnInv, CountExact, ExactReturn
  <2>2. CountInv'
    BY <1>1, <1>5, <1>6, <1>7, <1>8 DEF CountInv, ReachedIn, s
  <2> QED
    BY <2>1, <2>2
<1>9. CASE Return(k) /\ Countable(v) /\ counts'[k] >= Threshold
  <2>1. ASSUME NEW h \in Hashes PROVE ReachedIn(new, h) <=> h = k
    BY <1>2, <1>3, <1>6, <1>9 DEF ReachedIn
  <2>2. k # Timeout /\ k \in Hashes
    BY <1>2, VoteListAssumption
  <2> QED
    BY <1>1, <1>2, <1>3, <1>5, <1>9, <2>1, <2>2, ReturnIsExact DEF new, s
<1>10. \A h \in Hashes : h # k \/ ~Countable(v) => counts'[h] = counts[h]
  BY <1>2, <1>6
<1> QED
  BY <1>3, <1>4, <1>8, <1>9, <1>10

(* A call that gives up. *)
LEMMA TimeoutCountInv ==
  ASSUME IInv, countTimeout
  PROVE  CountInv' /\ ReturnInv'
<1> DEFINE s == content[clist]
           n == index - 1
<1>1. cpc = "loop" /\ ~hasNext /\ Return(Timeout) /\ UNCHANGED <<content, clist, index>>
  BY DEF countTimeout
<1>2. /\ s \in Seq(Votes) /\ n \in Nat /\ n = Len(s)
      /\ \A h \in Hashes : ~ReachedIn(SubSeq(s, 1, n), h)
  BY <1>1 DEF IInv, TypeOK, ListInv, CountInv, hasNext
<1>3. n - 1 \in -1 .. Len(s) /\ n \in -1 .. Len(s) /\ n - 1 <= n
  BY <1>2
<1> HIDE DEF s, n
<1>4. \A h \in Hashes : ~ReachedIn(SubSeq(s, 1, n - 1), h)
  BY <1>2, <1>3, FirstMono
<1>5. \A h \in Hashes : h # Timeout
  BY VoteListAssumption
<1> QED
  BY <1>1, <1>2, <1>4, <1>5, ReturnIsExact DEF s, n

(* Nothing is counted at first. *)
LEMMA IInvInit == Init => IInv
<1> SUFFICES ASSUME Init PROVE IInv
  OBVIOUS
<1>1. TypeOK /\ ListInv
  BY InitInv
<1>2. cpc = "idle" /\ returns = <<>> /\ Len(returns) = 0
  BY DEF Init
<1>3. ReturnInv
  BY <1>2 DEF ReturnInv, CountExact
<1> QED
  BY <1>1, <1>2, <1>3 DEF IInv, CountInv

(* Every step of handlers and calls keeps the counts exact. *)
LEMMA IInvStep == IInv /\ [Next]_vars => IInv'
<1> SUFFICES ASSUME IInv, [Next]_vars PROVE CountInv' /\ ReturnInv'
  BY StepKeepsInv DEF IInv
<1>1. CASE UNCHANGED vars
  BY <1>1, GrowInv DEF vars, IInv, TypeOK
<1> QED
  BY <1>1, Cases, HandlersCountInv, LookupCountInv, StoreCountInv, VoteCountInv, TimeoutCountInv

(* The inductive invariant: consistent lists, and counts of what was read of them. *)
THEOREM Invariance == Spec => []IInv
BY IInvInit, IInvStep, PTL DEF Spec

(* Whatever lists the handlers and the calls got hold of, countVotes returns a
   hash if and only if different users that hold Threshold sub-users have
   their first votes read for it, and stops reading there.                 *)
THEOREM CountsExactly == Spec => []CountExact
<1>1. IInv => CountExact
  BY DEF IInv, ReturnInv
<1> QED
  BY <1>1, Invariance, PTL

(* The first of two calls that return a hash decides what the second one, on
   the same list, returns.                                                 *)
LEMMA RecountIsSame == IInv => RecountSame
<1> SUFFICES ASSUME IInv, NEW i \in 1 .. Len(returns), NEW j \in 1 .. Len(returns), i < j,
                    returns[i].list = returns[j].list, returns[i].outcome # Timeout
             PROVE  returns[j].outcome = returns[i].outcome
  BY DEF RecountSame
<1> DEFINE Outcome == [list : Lists, read : Nat, outcome : Hashes \cup {Timeout}]
           s == content[returns[i].list]
           m == returns[i].read
           n == returns[j].read
           h == returns[i].outcome
           k == returns[j].outcome
<1>1. returns[i] \in Outcome /\ returns[j] \in Outcome
  <2>1. returns \in Seq(Outcome)
    BY DEF IInv, TypeOK
  <2> HIDE DEF Outcome
  <2> QED
    BY <2>1
<1>2. h \in Hashes /\ k \in Hashes \cup {Timeout}
  BY <1>1
<1>3. /\ s \in Seq(Votes) /\ m \in Nat /\ n \in Nat /\ m <= Len(s) /\ n <= Len(s)
      /\ ExactReturn(returns[i]) /\ ExactReturn(returns[j])
  BY ReturnFacts
<1>4. \A x \in Hashes : /\ ReachedIn(SubSeq(s, 1, m), x) <=> x = h
                        /\ ~ReachedIn(SubSeq(s, 1, m - 1), x)
                        /\ ReachedIn(SubSeq(s, 1, n), x) <=> x = k
                        /\ ~ReachedIn(SubSeq(s, 1, n - 1), x)
  BY <1>3 DEF ExactReturn
<1>5. k = Timeout => m <= n
  BY DEF IInv, ReturnInv
<1> HIDE DEF s, m, n, h, k
<1>6. \A a, b \in -1 .. Len(s) : a <= b =>
        \A x \in Hashes : ReachedIn(SubSeq(s, 1, a), x) => ReachedIn(SubSeq(s, 1, b), x)
  BY <1>3, FirstMono
<1>7. /\ m \in -1 .. Len(s) /\ m - 1 \in -1 .. Len(s)
      /\ n \in -1 .. Len(s) /\ n - 1 \in -1 .. Len(s)
  BY <1>3
<1>8. k # Timeout
  BY <1>2, <1>4, <1>5, <1>6, <1>7, VoteListAssumption
<1>9. ~(m <= n - 1) /\ ~(n <= m - 1)
  BY <1>2, <1>4, <1>6, <1>7, <1>8
<1>10. m = n
  BY <1>3, <1>9
<1>11. k = h
  BY <1>2, <1>4, <1>10
<1> QED
  BY <1>11 DEF k, h

(* A step that is counted again on the same list gives the same hash. *)
THEOREM RecountsTheSame == Spec => []RecountSame
BY RecountIsSame, Invariance, PTL

=============================================================================
