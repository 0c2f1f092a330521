---------------------------- MODULE BAStarProofs ----------------------------
(***************************************************************************)
(* Proofs about one round of BA*: for every set of nodes, every assignment *)
(* of weights that satisfies the assumptions of BAStar, every MAXSTEPS and *)
(* every mix of honest and malicious nodes.                                *)
(*                                                                         *)
(* Then: BA* with the lists that countVotes reads implements the BA* in    *)
(* which countVotes may return any hash for which enough votes are on      *)
(* their way.  So whatever is proved about every round of BAStar holds of  *)
(* the network whose liveness is checked, for any period in which it is    *)
(* slow.                                                                   *)
(***************************************************************************)
EXTENDS BAStarSync, SumProofs, TLAPS

(* The named steps are steps, and they are not steps of binaryBA. *)
LEMMA StepFacts ==
  /\ {REDUCTION_ONE, REDUCTION_TWO, FINAL} \subseteq Steps
  /\ BinarySteps \subseteq Steps
  /\ BinarySteps \cap {REDUCTION_ONE, REDUCTION_TWO, FINAL} = {}
  /\ 1 \in BinarySteps
  /\ MAXSTEPS \in Nat
BY ConstantsAssumption DEF Steps, BinarySteps, REDUCTION_ONE, REDUCTION_TWO, FINAL

(* A node's empty hash is a hash and no block's. *)
LEMMA EmptyFacts ==
  ASSUME NEW n \in Nodes
  PROVE  empty(n) \in Hash /\ empty(n) \notin Blocks /\ empty(n) # NoHash
BY ConstantsAssumption, HashAssumption DEF empty, Hash

(* What committeeVote gossips: votes of n for h, in steps of S. *)
LEMMA CommitteeVoteFacts ==
  ASSUME NEW n \in Nodes, NEW S \in SUBSET Steps, NEW h \in Hash
  PROVE  /\ committeeVote(n, S, h) \subseteq Vote
         /\ \A v \in committeeVote(n, S, h) :
              v.voter = n /\ v.step \in S /\ v.hash = h
BY DEF committeeVote, Vote

(* Votes are never taken back, so quorums stay. *)
LEMMA QuorumsStay ==
  ASSUME sent \subseteq sent'
  PROVE  /\ \A s, h : QuorumFor(sent, s, h) => QuorumFor(sent', s, h)
         /\ \A s, n, h : OwnQuorumFor(sent, s, n, h) => OwnQuorumFor(sent', s, n, h)
         /\ \A n, h : FinalQuorumFor(sent, n, h) => FinalQuorumFor(sent', n, h)
BY DEF QuorumFor, OwnQuorumFor, FinalQuorumFor, VotedFor

(* A quorum of users of one chain is a quorum. *)
LEMMA OwnIsQuorum ==
  \A V, s, n, h : OwnQuorumFor(V, s, n, h) => QuorumFor(V, s, h)
BY DEF OwnQuorumFor, QuorumFor

(* A hash that countVotes returns has a quorum in the step it counts, of users
   whose chains end like that of the node.                                 *)
LEMMA CountFacts ==
  ASSUME TypeOK, NEW n \in Nodes, NEW c \in countVotes(n), c # NoHash
  PROVE  /\ c \in Hash
         /\ pc[n] # "final" => OwnQuorumFor(sent, step[n], n, c) /\ QuorumFor(sent, step[n], c)
         /\ pc[n] = "final" /\ step[n] = FINAL => FinalQuorumFor(sent, n, c)
<1> DEFINE Q == Counted(n, c)
<1>1. c \in Hash /\ VotesOf(Q, step[n]) >= threshold(n)
  BY DEF countVotes
<1>2. Q \in SUBSET Nodes /\ \A v \in Q : VotedFor(sent, v, step[n], c) /\ Last[v] = Last[n]
  BY DEF Counted, VotedFor, processMsg
<1> HIDE DEF Q
<1>3. pc[n] # "final" => OwnQuorumFor(sent, step[n], n, c)
  BY <1>1, <1>2 DEF OwnQuorumFor, threshold
<1>4. pc[n] = "final" /\ step[n] = FINAL => FinalQuorumFor(sent, n, c)
  BY <1>1, <1>2 DEF FinalQuorumFor, threshold
<1> QED
  BY <1>1, <1>3, <1>4, OwnIsQuorum

(* Two quorums of one step in which nobody votes twice are for one hash. *)
LEMMA QuorumsAgree ==
  ASSUME VoteOnce, NEW s \in {REDUCTION_TWO, 1}, NEW g, NEW h,
         QuorumFor(sent, s, g), QuorumFor(sent, s, h)
  PROVE  g = h
<1>1. s \in Steps \ {FINAL}
  BY StepFacts DEF REDUCTION_TWO, FINAL
<1>2. PICK G \in SUBSET Nodes : VotesOf(G, s) >= Threshold /\ \A v \in G : VotedFor(sent, v, s, g)
  BY DEF QuorumFor
<1>3. PICK H \in SUBSET Nodes : VotesOf(H, s) >= Threshold /\ \A v \in H : VotedFor(sent, v, s, h)
  BY DEF QuorumFor
<1>4. PICK v \in G \cap H : TRUE
  BY <1>1, <1>2, <1>3, QuorumAssumption
<1> QED
  BY <1>2, <1>3, <1>4 DEF VoteOnce, VotedFor

(* A quorum is not empty: somebody voted. *)
LEMMA QuorumVoter ==
  ASSUME NEW s \in Steps \ {FINAL}, NEW h, QuorumFor(sent, s, h)
  PROVE  \E v \in Nodes : VotedFor(sent, v, s, h)
<1>1. PICK Q \in SUBSET Nodes : VotesOf(Q, s) >= Threshold /\ \A v \in Q : VotedFor(sent, v, s, h)
  BY DEF QuorumFor
<1> QED
  BY <1>1, QuorumAssumption

(* A quorum for a block in binaryBA rests on one of the second reduction
   step, and that on one of the first.                                     *)
LEMMA BlockQuorum ==
  ASSUME BlockVoteInv, NEW s \in BinarySteps \cup {REDUCTION_TWO}, NEW h \in Blocks,
         QuorumFor(sent, s, h)
  PROVE  QuorumFor(sent, REDUCTION_TWO, h) /\ QuorumFor(sent, REDUCTION_ONE, h)
<1>1. ASSUME NEW t \in BinarySteps \cup {REDUCTION_TWO}, QuorumFor(sent, t, h)
      PROVE  \E v \in Nodes : VotedFor(sent, v, t, h)
  <2>1. t \in Steps \ {FINAL}
    BY StepFacts DEF FINAL, REDUCTION_TWO
  <2> QED
    BY <1>1, <2>1, QuorumVoter
<1>2. QuorumFor(sent, REDUCTION_TWO, h)
  <2>1. CASE s \in BinarySteps
    <3>1. PICK v \in Nodes : VotedFor(sent, v, s, h)
      BY <1>1
    <3> QED
      BY <2>1, <3>1 DEF BlockVoteInv, VotedFor
  <2> QED
    BY <2>1
<1>3. QuorumFor(sent, REDUCTION_ONE, h)
  <2>1. PICK v \in Nodes : VotedFor(sent, v, REDUCTION_TWO, h)
    BY <1>1, <1>2
  <2> QED
    BY <2>1 DEF BlockVoteInv, VotedFor
<1> QED
  BY <1>2, <1>3

(* The invariant yields the safety properties.                             *)

(* A block that BA returned has a quorum in both steps of reduction. *)
LEMMA ResultQuorum ==
  ASSUME IInv, NEW n \in Nodes, result[n].hash \in Blocks
  PROVE  /\ QuorumFor(sent, REDUCTION_ONE, result[n].hash)
         /\ QuorumFor(sent, REDUCTION_TWO, result[n].hash)
<1>1. result[n] # NoResult /\ r[n] # NoHash
  BY HashAssumption, EmptyFacts DEF NoResult, IInv, ResultInv, Hash
<1>2. PICK s \in BinarySteps : QuorumFor(sent, s, result[n].hash)
  BY <1>1, OwnIsQuorum DEF IInv, ResultInv, DecisionInv
<1> QED
  BY <1>2, BlockQuorum DEF IInv

(* The votes of a set of users are the sum of their weights. *)
LEMMA VotesOfIsSum ==
  ASSUME NEW S \in SUBSET Nodes, NEW s
  PROVE  VotesOf(S, s) = Sum([v \in Nodes |-> Weight(v, s)], S)
<1> DEFINE w == [v \in Nodes |-> Weight(v, s)]
           F(g) == [t \in SUBSET S |->
                     IF t = {} THEN 0 ELSE Weight(Chosen(t), s) + g[t \ {Chosen(t)}]]
<1>1. VotesOf(S, s) = (CHOOSE g : g = F(g))[S]
  BY DEF VotesOf, MapThenSumSet, MapThenFoldSet, Chosen
<1>2. ASSUME NEW g
      PROVE  F(g) = [t \in SUBSET S |-> IF t = {} THEN 0 ELSE w[Chosen(t)] + g[t \ {Chosen(t)}]]
  <2>1. \A t \in SUBSET S : t # {} => w[Chosen(t)] = Weight(Chosen(t), s)
    BY ChosenIn
  <2> QED
    BY <2>1
<1> HIDE DEF F, w
<1>3. \A g : IsSum(g, S, w) <=> g = F(g)
  BY <1>2 DEF IsSum
<1>4. (CHOOSE g : g = F(g)) = (CHOOSE g : IsSum(g, S, w))
  BY <1>3
<1> QED
  BY <1>1, <1>4, SumIs DEF SumFcn, w

(* The votes of a set of users are a number, and more users have no fewer. *)
LEMMA VotesOfFacts ==
  ASSUME NEW s \in Steps, NEW S \in SUBSET Nodes
  PROVE  /\ VotesOf(S, s) \in Nat
         /\ \A R \in SUBSET S : VotesOf(R, s) <= VotesOf(S, s)
<1> DEFINE w == [v \in Nodes |-> Weight(v, s)]
<1>1. IsFiniteSet(S) /\ \A v \in S : w[v] \in Nat
  BY ConstantsAssumption, FS_Subset
<1> HIDE DEF w
<1>2. Sum(w, S) \in Nat /\ \A R : R \subseteq S => Sum(w, R) <= Sum(w, S)
  BY <1>1, SumNat, SumMono
<1>3. \A R \in SUBSET Nodes : VotesOf(R, s) = Sum(w, R)
  BY VotesOfIsSum DEF w
<1> QED
  BY <1>2, <1>3

(* A quorum of FINAL has a user in it. *)
LEMMA FinalVoter ==
  ASSUME NEW n, NEW h, FinalQuorumFor(sent, n, h)
  PROVE  \E v \in Nodes : VotedFor(sent, v, FINAL, h) /\ Last[v] = Last[n]
<1>1. PICK F \in SUBSET Nodes : /\ VotesOf(F, FINAL) >= FinalThreshold
                                /\ \A v \in F : VotedFor(sent, v, FINAL, h) /\ Last[v] = Last[n]
  BY DEF FinalQuorumFor
<1>2. VotesOf({}, FINAL) = 0
  BY VotesOfIsSum, SumEmpty
<1>3. F # {}
  BY <1>1, <1>2, ConstantsAssumption
<1> QED
  BY <1>1, <1>3

(* A FINAL result is a block that the first binary step decided. *)
LEMMA FinalFromInv ==
  ASSUME IInv, NEW m \in Nodes, result[m].type = "FINAL_CONSENSUS"
  PROVE  result[m].hash \in Blocks /\ QuorumFor(sent, 1, result[m].hash)
<1>1. result[m] # NoResult
  BY DEF NoResult
<1>2. FinalQuorumFor(sent, m, r[m]) /\ result[m].hash = r[m] /\ r[m] \in Blocks \cup {empty(m)}
  BY <1>1 DEF IInv, ResultInv
<1>3. PICK q \in Nodes : VotedFor(sent, q, FINAL, r[m]) /\ Last[q] = Last[m]
  BY <1>2, FinalVoter
<1>4. QuorumFor(sent, 1, r[m]) /\ r[m] # empty(q)
  BY <1>3 DEF IInv, FinalVoteInv, VotedFor
<1> QED
  BY <1>2, <1>3, <1>4 DEF empty

(* What contradicts a FINAL result: an empty block, voted for by users that did
   not vote in FINAL.                                                      *)
LEMMA ApartFromInv ==
  ASSUME IInv, OneBlock, NEW m \in Nodes, NEW n \in Nodes,
         result[m].type = "FINAL_CONSENSUS", result[n] # NoResult,
         result[n].hash # result[m].hash
  PROVE  /\ result[n].hash = empty(n)
         /\ \E s \in BinarySteps \ {1} :
              VotesOf(ApartFor(s, n, result[n].hash), s) >= Threshold
<1> DEFINE b == result[m].hash
           h == result[n].hash
<1>1. b \in Blocks /\ QuorumFor(sent, 1, b)
  BY FinalFromInv
<1>2. h = r[n] /\ pc[n] = "done" /\ r[n] \in Blocks \cup {empty(n)} /\ r[n] # NoHash
  BY EmptyFacts, HashAssumption DEF IInv, ResultInv, Hash
<1>3. h = empty(n)
  BY <1>1, <1>2 DEF OneBlock
<1>4. PICK s \in BinarySteps : OwnQuorumFor(sent, s, n, h)
  BY <1>2 DEF IInv, DecisionInv
<1>5. s # 1
  BY <1>1, <1>4, OwnIsQuorum, QuorumsAgree DEF IInv
<1>6. PICK Q \in SUBSET Nodes : /\ VotesOf(Q, s) >= Threshold
                                /\ \A v \in Q : VotedFor(sent, v, s, h) /\ Last[v] = Last[n]
  BY <1>4 DEF OwnQuorumFor
<1>7. ASSUME NEW v \in Q, NEW w \in sent, w.voter = v, w.step = FINAL
      PROVE  FALSE
  <2>1. QuorumFor(sent, 1, w.hash)
    BY <1>7 DEF IInv, FinalVoteInv
  <2>2. w.hash = b
    BY <1>1, <2>1, QuorumsAgree DEF IInv
  <2>3. h = w.hash
    <3>1. VotedFor(sent, v, s, h)
      BY <1>6
    <3> DEFINE u == [voter |-> v, step |-> s, hash |-> h]
    <3>2. u \in sent /\ u.voter = w.voter /\ u.step \in BinarySteps \ {1} /\ u.hash = h
      BY <1>5, <1>7, <3>1 DEF VotedFor
    <3> HIDE DEF u
    <3> QED
      BY <1>7, <3>2 DEF IInv, FinalVoteInv
  <2> QED
    BY <2>2, <2>3
<1>8. Q \subseteq ApartFor(s, n, h)
  BY <1>6, <1>7 DEF ApartFor
<1>9. VotesOf(ApartFor(s, n, h), s) >= Threshold
  <2>1. ApartFor(s, n, h) \in SUBSET Nodes /\ s \in Steps
    BY StepFacts DEF ApartFor
  <2>2. VotesOf(Q, s) <= VotesOf(ApartFor(s, n, h), s)
        /\ VotesOf(Q, s) \in Nat /\ VotesOf(ApartFor(s, n, h), s) \in Nat
    BY <1>8, <2>1, VotesOfFacts
  <2> QED
    BY <1>6, <2>2, ConstantsAssumption
<1> QED
  BY <1>3, <1>5, <1>9

(* What the invariant is for. *)
LEMMA SafetyFromInv == IInv => OneBlock /\ FinalUnlessApart /\ FinalNotEmpty /\ Validity /\ OwnChain
<1> SUFFICES ASSUME IInv PROVE OneBlock /\ FinalUnlessApart /\ FinalNotEmpty /\ Validity /\ OwnChain
  OBVIOUS
<1>1. OneBlock
  BY ResultQuorum, QuorumsAgree DEF OneBlock, IInv
<1>2. FinalNotEmpty
  BY FinalFromInv DEF FinalNotEmpty
<1>3. Validity
  BY ResultQuorum DEF Validity
<1>4. FinalUnlessApart
  BY <1>1, ApartFromInv DEF FinalUnlessApart
<1>5. OwnChain
  <2> SUFFICES ASSUME NEW n \in Nodes, result[n] # NoResult
               PROVE  \E s \in BinarySteps : OwnQuorumFor(sent, s, n, result[n].hash)
    BY DEF OwnChain
  <2>1. pc[n] = "done" /\ result[n].hash = r[n] /\ r[n] # NoHash
    BY EmptyFacts, HashAssumption DEF IInv, ResultInv, Hash
  <2> QED
    BY <2>1 DEF IInv, DecisionInv
<1> QED
  BY <1>1, <1>2, <1>3, <1>4, <1>5

-----------------------------------------------------------------------------
(* Type correctness.                                                       *)

(* Voting for a hash and counting a step keeps the types. *)
LEMMA VoteAndCountType ==
  ASSUME TypeOK, NEW n \in Nodes, NEW location \in Locations, NEW s \in Steps,
         NEW votes \in SUBSET Vote, VoteAndCount(n, location, s, votes)
  PROVE  /\ pc' \in [Nodes -> Locations]
         /\ step' \in [Nodes -> Steps \cup {0}]
         /\ sent' \subseteq Vote
         /\ pc'[n] = location /\ step'[n] = s
         /\ \A m \in Nodes \ {n} : pc'[m] = pc[m] /\ step'[m] = step[m]
BY DEF TypeOK, VoteAndCount

(* The type of a decision. *)
LEMMA DecideType ==
  ASSUME TypeOK, StepInv, NEW n \in Nodes, NEW h \in Hash, NEW f \in SUBSET {FINAL},
         pc[n] # "idle", step[n] \in 1 .. MAXSTEPS, Decide(n, h, f)
  PROVE  TypeOK' /\ StepInv'
<1>1. (step[n] + 1) .. (step[n] + 3) \in SUBSET Steps /\ f \in SUBSET Steps
  BY StepFacts DEF BinarySteps
<1> DEFINE votes == committeeVote(n, (step[n] + 1) .. (step[n] + 3), h)
                      \cup committeeVote(n, f, h)
<1>2. votes \subseteq Vote
  BY <1>1, CommitteeVoteFacts
<1>3. VoteAndCount(n, "final", FINAL, votes) /\ r' = [r EXCEPT ![n] = h]
      /\ UNCHANGED <<block, hash, result>>
  BY DEF Decide
<1> HIDE DEF votes
<1> QED
  BY <1>2, <1>3, VoteAndCountType, StepFacts DEF TypeOK, StepInv, Locations

(* The type of going on to a step. *)
LEMMA NextStepType ==
  ASSUME TypeOK, StepInv, NEW n \in Nodes, NEW h \in Hash,
         NEW location \in {"binary2", "binary3"}, NextStep(n, location, h),
         pc[n] # "idle",
         location = "binary2" => step[n] \in 1 .. MAXSTEPS - 1,
         location = "binary3" => step[n] \in 2 .. MAXSTEPS
  PROVE  TypeOK' /\ StepInv'
<1>1. step[n] + 1 \in Steps
  BY StepFacts DEF BinarySteps
<1> DEFINE votes == committeeVote(n, {step[n] + 1}, h)
<1>2. votes \subseteq Vote
  BY <1>1, CommitteeVoteFacts
<1>3. VoteAndCount(n, location, step[n] + 1, votes) /\ r' = [r EXCEPT ![n] = h]
      /\ UNCHANGED <<block, hash, result>>
  BY DEF NextStep
<1> HIDE DEF votes
<1> QED
  BY <1>1, <1>2, <1>3, VoteAndCountType, StepFacts DEF TypeOK, StepInv, Locations

(* Every step of a node keeps the types. *)
LEMMA TypeStep ==
  ASSUME TypeOK, StepInv, [Next]_vars
  PROVE  TypeOK' /\ StepInv'
<1>1. CASE UNCHANGED vars
  BY <1>1 DEF vars, TypeOK, StepInv
<1>2. ASSUME NEW n \in Nodes, NEW b \in Blocks \cup {empty(n)}, BA(n, b)
      PROVE  TypeOK' /\ StepInv'
  <2> DEFINE h == IF Kind[n] = "EvilVoteEmpty"
                    THEN emptyHash(IF b \in Blocks THEN ParentOf[b] ELSE Last[n])
                    ELSE b
             votes == committeeVote(n, {REDUCTION_ONE}, h)
  <2>1. h \in Hash /\ b \in Hash
    BY ConstantsAssumption, EmptyFacts DEF Hash
  <2>2. votes \subseteq Vote
    BY <2>1, StepFacts, CommitteeVoteFacts
  <2>3. /\ VoteAndCount(n, "reduction1", REDUCTION_ONE, votes)
        /\ block' = [block EXCEPT ![n] = b] /\ hash' = [hash EXCEPT ![n] = h]
        /\ UNCHANGED <<r, result>>
    BY <1>2 DEF BA
  <2> HIDE DEF votes, h
  <2> QED
    BY <2>1, <2>2, <2>3, VoteAndCountType, StepFacts DEF TypeOK, StepInv, Locations
<1>3. ASSUME NEW n \in Nodes, NEW c \in countVotes(n), reduction1(n, c)
      PROVE  TypeOK' /\ StepInv'
  <2> DEFINE h == IF c = NoHash THEN empty(n) ELSE c
             votes == committeeVote(n, {REDUCTION_TWO}, h)
  <2>1. h \in Hash
    BY EmptyFacts, CountFacts
  <2>2. votes \subseteq Vote
    BY <2>1, StepFacts, CommitteeVoteFacts
  <2>3. /\ VoteAndCount(n, "reduction2", REDUCTION_TWO, votes) /\ pc[n] = "reduction1"
        /\ UNCHANGED <<block, hash, r, result>>
    BY <1>3 DEF reduction1
  <2> HIDE DEF votes, h
  <2> QED
    BY <2>1, <2>2, <2>3, VoteAndCountType, StepFacts DEF TypeOK, StepInv, Locations
<1>4. ASSUME NEW n \in Nodes, NEW c \in countVotes(n), reduction2(n, c)
      PROVE  TypeOK' /\ StepInv'
  <2> DEFINE h == IF Kind[n] = "EvilVoteEmpty" THEN hash[n]
                  ELSE IF c = NoHash THEN empty(n) ELSE c
             votes == committeeVote(n, {1}, h)
  <2>1. /\ VoteAndCount(n, "binary1", 1, votes) /\ pc[n] = "reduction2"
        /\ hash' = [hash EXCEPT ![n] = h] /\ r' = [r EXCEPT ![n] = h]
        /\ UNCHANGED <<block, result>>
    BY <1>4 DEF reduction2
  <2>2. h \in Hash
    BY <2>1, EmptyFacts, CountFacts DEF StepInv
  <2>3. votes \subseteq Vote
    BY <2>2, StepFacts, CommitteeVoteFacts
  <2> HIDE DEF votes, h
  <2> QED
    BY <2>1, <2>2, <2>3, VoteAndCountType, StepFacts, ConstantsAssumption
    DEF TypeOK, StepInv, Locations
<1>5. ASSUME NEW n \in Nodes, NEW c \in countVotes(n), binaryBA1(n, c)
      PROVE  TypeOK' /\ StepInv'
  <2>1. step[n] \in 1 .. MAXSTEPS - 1 /\ hash[n] \in Hash /\ pc[n] # "idle"
    BY <1>5 DEF binaryBA1, StepInv
  <2>2. c = NoHash \/ c \in Hash
    BY CountFacts
  <2> QED
    BY <1>5, <2>1, <2>2, DecideType, NextStepType, EmptyFacts, StepFacts DEF binaryBA1
<1>6. ASSUME NEW n \in Nodes, NEW c \in countVotes(n), binaryBA2(n, c)
      PROVE  TypeOK' /\ StepInv'
  <2>1. step[n] \in 2 .. MAXSTEPS /\ hash[n] \in Hash /\ pc[n] # "idle"
    BY <1>6 DEF binaryBA2, StepInv
  <2>2. c = NoHash \/ c \in Hash
    BY CountFacts
  <2> QED
    BY <1>6, <2>1, <2>2, DecideType, NextStepType, EmptyFacts, StepFacts DEF binaryBA2
<1>7. ASSUME NEW n \in Nodes, NEW c \in countVotes(n), binaryBA3(n, c)
      PROVE  TypeOK' /\ StepInv'
  <2>1. PICK h \in Hash :
          /\ r' = [r EXCEPT ![n] = h]
          /\ \/ /\ step[n] < MAXSTEPS
                /\ VoteAndCount(n, "binary1", step[n], committeeVote(n, {step[n]}, h))
             \/ /\ pc' = [pc EXCEPT ![n] = "hang"]
                /\ UNCHANGED <<step, sent>>
    BY <1>7, CountFacts, EmptyFacts DEF binaryBA3, StepInv
  <2>2. /\ pc[n] = "binary3" /\ step[n] \in 3 .. MAXSTEPS + 1
        /\ UNCHANGED <<block, hash, result>>
    BY <1>7 DEF binaryBA3, StepInv
  <2> DEFINE votes == committeeVote(n, {step[n]}, h)
  <2>3. step[n] \in Steps /\ votes \subseteq Vote
    BY <2>2, StepFacts, CommitteeVoteFacts DEF BinarySteps
  <2> HIDE DEF votes
  <2>4. CASE step[n] < MAXSTEPS /\ VoteAndCount(n, "binary1", step[n], votes)
    BY <2>1, <2>2, <2>3, <2>4, VoteAndCountType, StepFacts DEF TypeOK, StepInv, Locations
  <2>5. CASE pc' = [pc EXCEPT ![n] = "hang"] /\ UNCHANGED <<step, sent>>
    BY <2>1, <2>2, <2>5, StepFacts DEF TypeOK, StepInv, Locations
  <2> QED
    BY <2>1, <2>4, <2>5 DEF votes
<1>8. ASSUME NEW n \in Nodes, closeHangForever(n)
      PROVE  TypeOK' /\ StepInv'
  BY <1>8, VoteAndCountType, StepFacts DEF closeHangForever, TypeOK, StepInv, Locations
<1>9. ASSUME NEW n \in Nodes, NEW c \in countVotes(n), BAReturn(n, c)
      PROVE  TypeOK' /\ StepInv'
  BY <1>9, EmptyFacts DEF BAReturn, TypeOK, StepInv, Locations, Result, Hash
<1>10. ASSUME NEW n \in Nodes, BAPanic(n)
       PROVE  TypeOK' /\ StepInv'
  BY <1>10 DEF BAPanic, TypeOK, StepInv, Locations
<1> QED
  BY <1>1, <1>2, <1>3, <1>4, <1>5, <1>6, <1>7, <1>8, <1>9, <1>10 DEF Next, Step, OnCount

-----------------------------------------------------------------------------
(* The votes.  Node n, still in reduction or binaryBA, votes for h.        *)

(* Such a vote keeps the invariant. *)
LEMMA CastInv ==
  ASSUME IInv, NEW n \in Nodes, NEW h \in Hash, NEW votes \in SUBSET Vote,
         pc' \in [Nodes -> Locations],
         sent' = sent \cup votes,
         \A v \in votes : v.voter = n /\ v.hash = h,
         \A m \in Nodes \ {n} : pc'[m] = pc[m] /\ step'[m] = step[m],
         pc[n] \notin {"final", "done", "panic"},
         \* n moves forward
         pc'[n] # "idle",
         pc'[n] = "reduction1" => pc[n] = "idle",
         pc'[n] = "reduction2" => pc[n] = "reduction1",
         pc'[n] = "binary1" /\ step'[n] = 1 => pc[n] = "reduction2",
         \* and votes no further ahead
         \A v \in votes :
           /\ v.step = REDUCTION_TWO => pc[n] = "reduction1" /\ pc'[n] = "reduction2"
           /\ v.step = 1 => pc[n] = "reduction2" /\ pc'[n] = "binary1"
           /\ v.step \in BinarySteps \ {1} =>
                /\ pc'[n] \notin {"reduction1", "reduction2"}
                /\ ~(pc'[n] = "binary1" /\ step'[n] = 1)
           /\ v.step = REDUCTION_TWO /\ h \in Blocks => QuorumFor(sent, REDUCTION_ONE, h)
           /\ v.step \in BinarySteps /\ h \in Blocks => QuorumFor(sent, REDUCTION_TWO, h)
           /\ v.step = FINAL => /\ pc[n] = "binary1" /\ step[n] = 1 /\ pc'[n] = "final"
                                /\ QuorumFor(sent, 1, h) /\ h # empty(n)
                                /\ \A w \in votes : w.step # 1
  PROVE  NoFutureVote' /\ VoteOnce' /\ BlockVoteInv' /\ FinalVoteInv'
<1>1. \A s, g : QuorumFor(sent, s, g) => QuorumFor(sent', s, g)
  BY QuorumsStay
<1>2. \A v \in sent : v.voter \in Nodes /\ v.step \in Steps
  BY DEF IInv, TypeOK, Vote
<1>3. NoFutureVote'
  <2> SUFFICES ASSUME NEW v \in sent'
               PROVE  /\ v.step = REDUCTION_TWO => pc'[v.voter] \notin {"idle", "reduction1"}
                      /\ v.step \in BinarySteps =>
                           pc'[v.voter] \notin {"idle", "reduction1", "reduction2"}
                      /\ v.step \in BinarySteps \ {1} =>
                           ~(pc'[v.voter] = "binary1" /\ step'[v.voter] = 1)
    BY DEF NoFutureVote
  <2>1. CASE v \in votes
    BY <2>1
  <2>2. CASE v \in sent
    BY <2>2, <1>2 DEF IInv, NoFutureVote
  <2> QED
    BY <2>1, <2>2
<1>4. VoteOnce'
  <2> SUFFICES ASSUME NEW v \in sent', NEW w \in sent', v.voter = w.voter,
                      v.step = w.step, v.step \in {REDUCTION_TWO, 1}
               PROVE  v.hash = w.hash
    BY DEF VoteOnce
  <2>1. \A x \in votes, y \in sent :
          x.voter = y.voter /\ x.step = y.step => x.step \notin {REDUCTION_TWO, 1}
    BY StepFacts DEF IInv, NoFutureVote
  <2> QED
    BY <2>1 DEF IInv, VoteOnce
<1>5. BlockVoteInv'
  BY <1>1 DEF IInv, BlockVoteInv
<1>6. FinalVoteInv'
  <2> SUFFICES ASSUME NEW v \in sent', v.step = FINAL
               PROVE  /\ pc'[v.voter] \in {"final", "done", "panic"}
                      /\ QuorumFor(sent', 1, v.hash)
                      /\ v.hash # empty(v.voter)
                      /\ \A w \in sent' : w.voter = v.voter /\ w.step \in BinarySteps \ {1}
                                          => w.hash = v.hash
    BY DEF FinalVoteInv, empty
  <2>1. CASE v \in sent
    <3>1. v.voter # n /\ v.voter \in Nodes
      BY <1>2, <2>1 DEF IInv, FinalVoteInv
    <3> QED
      BY <1>1, <2>1, <3>1 DEF IInv, FinalVoteInv
  <2>2. CASE v \in votes
    <3>1. \A w \in sent : w.voter = n => w.step \notin BinarySteps \ {1}
      BY <2>2 DEF IInv, NoFutureVote
    <3> QED
      BY <1>1, <2>2, <3>1
  <2> QED
    BY <2>1, <2>2
<1> QED
  BY <1>3, <1>4, <1>5, <1>6

(* The step of node n leaves what it holds for the other nodes. *)
LEMMA OthersInv ==
  ASSUME IInv, NEW n \in Nodes, sent \subseteq sent',
         \A m \in Nodes \ {n} : pc'[m] = pc[m] /\ hash'[m] = hash[m]
                                /\ r'[m] = r[m] /\ result'[m] = result[m],
         Kind[n] = "EvilVoteEmpty" => hash'[n] \notin Blocks,
         Reduced(n)' /\ hash'[n] \in Blocks => QuorumFor(sent', REDUCTION_TWO, hash'[n]),
         pc'[n] \in {"final", "done"} =>
           r'[n] = NoHash \/ \E s \in BinarySteps : OwnQuorumFor(sent', s, n, r'[n]),
         result'[n] # NoResult =>
           /\ pc'[n] = "done" /\ result'[n].hash = r'[n]
           /\ r'[n] \in Blocks \cup {empty(n)}
           /\ result'[n].type = "FINAL_CONSENSUS" => FinalQuorumFor(sent', n, r'[n])
  PROVE  HashInv' /\ DecisionInv' /\ ResultInv'
<1>1. /\ \A s, g : QuorumFor(sent, s, g) => QuorumFor(sent', s, g)
      /\ \A s, m, g : OwnQuorumFor(sent, s, m, g) => OwnQuorumFor(sent', s, m, g)
      /\ \A m, g : FinalQuorumFor(sent, m, g) => FinalQuorumFor(sent', m, g)
  BY QuorumsStay
<1>2. HashInv'
  BY <1>1 DEF IInv, HashInv, Reduced
<1>3. DecisionInv'
  BY <1>1 DEF IInv, DecisionInv
<1>4. ResultInv'
  BY <1>1 DEF IInv, ResultInv, empty
<1> QED
  BY <1>2, <1>3, <1>4

-----------------------------------------------------------------------------
(* The invariant is inductive.                                             *)

(* The invariant holds before the first vote. *)
LEMMA InitInv == Init => IInv
BY HashAssumption
   DEF Init, IInv, TypeOK, StepInv, NoFutureVote, VoteOnce, BlockVoteInv, HashInv, Reduced,
       FinalVoteInv, DecisionInv, ResultInv, NoResult, Locations, Hash

(* binaryBA returns h, for which the step n counts has a quorum. *)
LEMMA DecideInv ==
  ASSUME IInv, NEW n \in Nodes, NEW h \in Hash, NEW f \in SUBSET {FINAL},
         Decide(n, h, f), pc[n] \in {"binary1", "binary2"},
         OwnQuorumFor(sent, step[n], n, h),
         f # {} => pc[n] = "binary1" /\ step[n] = 1 /\ h # empty(n)
  PROVE  IInv'
<1>1. TypeOK /\ StepInv /\ HashInv /\ BlockVoteInv /\ QuorumFor(sent, step[n], h)
  BY OwnIsQuorum DEF IInv
<1>2. step[n] \in 1 .. MAXSTEPS
  BY <1>1, StepFacts DEF StepInv
<1>3. step[n] \in BinarySteps /\ (step[n] + 1) .. (step[n] + 3) \in SUBSET (BinarySteps \ {1})
  BY <1>2, StepFacts DEF BinarySteps
<1> DEFINE votes == committeeVote(n, (step[n] + 1) .. (step[n] + 3), h)
                      \cup committeeVote(n, f, h)
<1>4. /\ votes \subseteq Vote
      /\ \A v \in votes : /\ v.voter = n /\ v.hash = h
                          /\ v.step \in BinarySteps \ {1} \/ (v.step = FINAL /\ f # {})
  <2> DEFINE S == (step[n] + 1) .. (step[n] + 3)
  <2>1. S \in SUBSET Steps /\ f \in SUBSET Steps
    BY <1>3, StepFacts
  <2>2. S \subseteq BinarySteps \ {1}
    BY <1>3
  <2> HIDE DEF S
  <2>3. /\ committeeVote(n, S, h) \subseteq Vote
        /\ \A v \in committeeVote(n, S, h) : v.voter = n /\ v.step \in S /\ v.hash = h
    BY <2>1, CommitteeVoteFacts
  <2>4. /\ committeeVote(n, f, h) \subseteq Vote
        /\ \A v \in committeeVote(n, f, h) : v.voter = n /\ v.step \in f /\ v.hash = h
    BY <2>1, CommitteeVoteFacts
  <2>5. votes = committeeVote(n, S, h) \cup committeeVote(n, f, h)
    BY DEF S
  <2> QED
    BY ONLY <2>2, <2>3, <2>4, <2>5, f \in SUBSET {FINAL}
<1>5. /\ VoteAndCount(n, "final", FINAL, votes) /\ r' = [r EXCEPT ![n] = h]
      /\ UNCHANGED <<block, hash, result>>
  BY DEF Decide
<1> HIDE DEF votes
<1>6. TypeOK' /\ StepInv'
  BY <1>1, <1>2, DecideType
<1>7. h \in Blocks => QuorumFor(sent, REDUCTION_TWO, h)
  BY <1>1, <1>3, BlockQuorum
<1>8. /\ pc'[n] = "final" /\ sent' = sent \cup votes
      /\ \A m \in Nodes \ {n} : pc'[m] = pc[m] /\ step'[m] = step[m]
  BY <1>1, <1>5 DEF TypeOK, VoteAndCount
<1>9. NoFutureVote' /\ VoteOnce' /\ BlockVoteInv' /\ FinalVoteInv'
  <2>1. pc' \in [Nodes -> Locations]
    BY <1>6 DEF TypeOK
  <2>2. \A v \in votes : v.step \notin {REDUCTION_TWO, 1}
    BY <1>4, StepFacts DEF FINAL, REDUCTION_TWO
  <2>3. f # {} => pc[n] = "binary1" /\ step[n] = 1 /\ QuorumFor(sent, 1, h) /\ h # empty(n)
    BY <1>1
  <2>4. votes \in SUBSET Vote /\ pc[n] \notin {"final", "done", "panic"}
    BY <1>4
  <2> HIDE DEF votes
  <2>5. \A v \in votes : v.step = FINAL => f # {}
    BY <1>4, StepFacts
  <2> QED
    BY ONLY <1>4, <1>7, <1>8, <2>1, <2>2, <2>3, <2>4, <2>5, CastInv, IInv, n \in Nodes, h \in Hash
<1>10. HashInv' /\ DecisionInv' /\ ResultInv'
  <2>1. /\ r'[n] = h /\ hash' = hash /\ result' = result
        /\ \A m \in Nodes \ {n} : r'[m] = r[m]
    BY <1>1, <1>5 DEF TypeOK
  <2>2. /\ \A s, g : QuorumFor(sent, s, g) => QuorumFor(sent', s, g)
        /\ \A s, m, g : OwnQuorumFor(sent, s, m, g) => OwnQuorumFor(sent', s, m, g)
    BY <1>8, QuorumsStay
  <2>3. result[n] = NoResult
    BY DEF IInv, ResultInv
  <2>4. hash[n] \in Blocks => QuorumFor(sent, REDUCTION_TWO, hash[n])
    BY <1>1 DEF HashInv, Reduced
  <2>5. Kind[n] = "EvilVoteEmpty" => hash[n] \notin Blocks
    BY <1>1 DEF HashInv
  <2>6. \E s \in BinarySteps : OwnQuorumFor(sent', s, n, h)
    BY <1>3, <2>2
  <2> QED
    BY <1>8, <2>1, <2>2, <2>3, <2>4, <2>5, <2>6, OthersInv
<1> QED
  BY <1>6, <1>9, <1>10 DEF IInv

(* Node n goes on voting for h, in one step, and decides nothing. *)
LEMMA VoteOnInv ==
  ASSUME IInv, TypeOK', StepInv', NEW n \in Nodes, NEW h \in Hash, NEW s \in Steps \ {FINAL},
         NEW location \in Locations \ {"idle", "hang", "final", "done", "panic"},
         VoteAndCount(n, location, s, committeeVote(n, {s}, h)),
         pc[n] \notin {"hang", "final", "done", "panic"},
         result' = result, \A m \in Nodes \ {n} : hash'[m] = hash[m] /\ r'[m] = r[m],
         Kind[n] = "EvilVoteEmpty" => hash'[n] \notin Blocks,
         Reduced(n)' /\ hash'[n] \in Blocks => QuorumFor(sent, REDUCTION_TWO, hash'[n]),
         s = REDUCTION_TWO /\ h \in Blocks => QuorumFor(sent, REDUCTION_ONE, h),
         s \in BinarySteps /\ h \in Blocks => QuorumFor(sent, REDUCTION_TWO, h),
         location = "reduction1" => pc[n] = "idle" /\ s = REDUCTION_ONE,
         location = "reduction2" => pc[n] = "reduction1" /\ s = REDUCTION_TWO,
         location \notin {"reduction1", "reduction2"} => s \in BinarySteps,
         s = 1 => location = "binary1" /\ pc[n] = "reduction2"
  PROVE  IInv'
<1> DEFINE votes == committeeVote(n, {s}, h)
<1>1. /\ votes \in SUBSET Vote
      /\ \A v \in votes : v.voter = n /\ v.step = s /\ v.hash = h
  BY CommitteeVoteFacts
<1>2. VoteAndCount(n, location, s, votes)
  OBVIOUS
<1> HIDE DEF votes
<1>3. /\ pc'[n] = location /\ step'[n] = s /\ sent' = sent \cup votes
      /\ pc' \in [Nodes -> Locations]
      /\ \A m \in Nodes \ {n} : pc'[m] = pc[m] /\ step'[m] = step[m]
  BY <1>2 DEF IInv, TypeOK, VoteAndCount
<1>4. s \notin {FINAL} /\ (location = "reduction1" => s # REDUCTION_TWO /\ s \notin BinarySteps)
      /\ (location = "reduction2" => s \notin BinarySteps)
      /\ (s \in BinarySteps => s # REDUCTION_TWO)
  BY StepFacts DEF REDUCTION_ONE, REDUCTION_TWO
<1>5. NoFutureVote' /\ VoteOnce' /\ BlockVoteInv' /\ FinalVoteInv'
  <2>1. \A v \in votes :
           /\ v.step = REDUCTION_TWO => pc[n] = "reduction1" /\ pc'[n] = "reduction2"
           /\ v.step = 1 => pc[n] = "reduction2" /\ pc'[n] = "binary1"
           /\ v.step \in BinarySteps \ {1} =>
                /\ pc'[n] \notin {"reduction1", "reduction2"}
                /\ ~(pc'[n] = "binary1" /\ step'[n] = 1)
           /\ v.step = REDUCTION_TWO /\ h \in Blocks => QuorumFor(sent, REDUCTION_ONE, h)
           /\ v.step \in BinarySteps /\ h \in Blocks => QuorumFor(sent, REDUCTION_TWO, h)
           /\ v.step # FINAL
    BY <1>1, <1>3, <1>4
  <2>2. /\ pc'[n] # "idle"
        /\ pc'[n] = "reduction1" => pc[n] = "idle"
        /\ pc'[n] = "reduction2" => pc[n] = "reduction1"
        /\ pc'[n] = "binary1" /\ step'[n] = 1 => pc[n] = "reduction2"
    BY <1>3
  <2> QED
    BY ONLY IInv, n \in Nodes, h \in Hash, <1>1, <1>3, <2>1, <2>2, CastInv,
            pc[n] \notin {"hang", "final", "done", "panic"}
<1>6. HashInv' /\ DecisionInv' /\ ResultInv'
  <2>1. \A t, g : QuorumFor(sent, t, g) => QuorumFor(sent', t, g)
    BY <1>3, QuorumsStay
  <2>2. result'[n] = NoResult
    BY DEF IInv, ResultInv
  <2>3. Reduced(n)' /\ hash'[n] \in Blocks => QuorumFor(sent', REDUCTION_TWO, hash'[n])
    BY <2>1
  <2> QED
    BY <1>3, <2>2, <2>3, OthersInv
<1> QED
  BY <1>5, <1>6 DEF IInv

(* binaryBA votes for h in its next step. *)
LEMMA NextStepInv ==
  ASSUME IInv, TypeOK', StepInv', NEW n \in Nodes, NEW h \in Hash,
         NEW location \in {"binary2", "binary3"}, NextStep(n, location, h),
         pc[n] \in {"binary1", "binary2"},
         h \in Blocks => QuorumFor(sent, REDUCTION_TWO, h)
  PROVE  IInv'
<1>1. /\ VoteAndCount(n, location, step[n] + 1, committeeVote(n, {step[n] + 1}, h))
      /\ r' = [r EXCEPT ![n] = h] /\ UNCHANGED <<hash, result>>
  BY DEF NextStep
<1>2. step[n] + 1 \in BinarySteps \ {1}
  BY StepFacts DEF IInv, StepInv, BinarySteps
<1>3. step[n] + 1 \in Steps \ {FINAL, REDUCTION_ONE, REDUCTION_TWO}
  BY <1>2, StepFacts
<1>4. /\ Kind[n] = "EvilVoteEmpty" => hash[n] \notin Blocks
      /\ hash[n] \in Blocks => QuorumFor(sent, REDUCTION_TWO, hash[n])
  BY DEF IInv, HashInv, Reduced
<1>5. \A m \in Nodes \ {n} : hash'[m] = hash[m] /\ r'[m] = r[m]
  BY <1>1 DEF IInv, TypeOK
<1>6. location \in Locations \ {"idle", "hang", "final", "done", "panic"}
  BY DEF Locations
<1> QED
  BY <1>1, <1>2, <1>3, <1>4, <1>5, <1>6, VoteOnInv

(* Every step of a node, and stuttering, keeps it. *)
LEMMA InvStep == IInv /\ [Next]_vars => IInv'
<1> SUFFICES ASSUME IInv, [Next]_vars PROVE IInv'
  OBVIOUS
<1>1. TypeOK /\ StepInv /\ HashInv /\ BlockVoteInv /\ TypeOK' /\ StepInv'
  BY TypeStep DEF IInv
<1>2. ASSUME NEW n \in Nodes, hash[n] \in Blocks, Reduced(n)
      PROVE  QuorumFor(sent, REDUCTION_TWO, hash[n])
  BY <1>1, <1>2 DEF HashInv
<1>3. ASSUME NEW n \in Nodes, NEW c \in countVotes(n), c \in Blocks
      PROVE  /\ pc[n] = "reduction1" => QuorumFor(sent, REDUCTION_ONE, c)
             /\ pc[n] \in {"reduction2", "binary1", "binary2", "binary3"} =>
                  QuorumFor(sent, REDUCTION_TWO, c)
  <2>1. pc[n] # "final" => QuorumFor(sent, step[n], c)
    BY <1>1, <1>3, CountFacts, HashAssumption DEF Hash
  <2>2. /\ pc[n] = "reduction1" => step[n] = REDUCTION_ONE
        /\ pc[n] \in {"reduction2", "binary1", "binary2", "binary3"} =>
             step[n] \in BinarySteps \cup {REDUCTION_TWO}
    BY <1>1, StepFacts DEF StepInv, BinarySteps
  <2> QED
    BY <1>1, <1>3, <2>1, <2>2, BlockQuorum
<1>4. CASE UNCHANGED vars
  BY <1>4 DEF vars, IInv, TypeOK, StepInv, NoFutureVote, VoteOnce, BlockVoteInv, HashInv,
              FinalVoteInv, DecisionInv, ResultInv, Reduced, empty
<1>5. ASSUME NEW n \in Nodes, NEW b \in Blocks \cup {empty(n)}, BA(n, b)
      PROVE  IInv'
  <2> DEFINE h == IF Kind[n] = "EvilVoteEmpty"
                    THEN emptyHash(IF b \in Blocks THEN ParentOf[b] ELSE Last[n])
                    ELSE b
  <2>1. h \in Hash /\ (Kind[n] = "EvilVoteEmpty" => h \notin Blocks)
    BY ConstantsAssumption, HashAssumption, EmptyFacts DEF Hash
  <2>2. /\ VoteAndCount(n, "reduction1", REDUCTION_ONE, committeeVote(n, {REDUCTION_ONE}, h))
        /\ pc[n] = "idle" /\ hash' = [hash EXCEPT ![n] = h] /\ UNCHANGED <<r, result>>
    BY <1>5 DEF BA
  <2> HIDE DEF h
  <2>3. hash'[n] = h /\ \A m \in Nodes \ {n} : hash'[m] = hash[m]
    BY <1>1, <2>2 DEF TypeOK
  <2>4. pc'[n] = "reduction1"
    BY <1>1, <2>2 DEF TypeOK, VoteAndCount
  <2>5. /\ REDUCTION_ONE \in Steps \ {FINAL, REDUCTION_TWO, 1}
        /\ REDUCTION_ONE \notin BinarySteps
        /\ "reduction1" \in Locations \ {"idle", "hang", "final", "done", "panic"}
    BY StepFacts DEF REDUCTION_ONE, REDUCTION_TWO, FINAL, Locations
  <2>6. ~Reduced(n)'
    BY <2>4 DEF Reduced
  <2> QED
    BY <1>1, <2>1, <2>2, <2>3, <2>5, <2>6, VoteOnInv
<1>6. ASSUME NEW n \in Nodes, NEW c \in countVotes(n), reduction1(n, c)
      PROVE  IInv'
  <2> DEFINE h == IF c = NoHash THEN empty(n) ELSE c
  <2>1. /\ VoteAndCount(n, "reduction2", REDUCTION_TWO, committeeVote(n, {REDUCTION_TWO}, h))
        /\ pc[n] = "reduction1" /\ UNCHANGED <<hash, r, result>>
    BY <1>6 DEF reduction1
  <2>2. h \in Hash /\ (h \in Blocks => QuorumFor(sent, REDUCTION_ONE, h))
    BY <1>1, <1>3, <2>1, EmptyFacts, CountFacts
  <2> HIDE DEF h
  <2>3. pc'[n] = "reduction2"
    BY <1>1, <2>1 DEF TypeOK, VoteAndCount
  <2>4. /\ REDUCTION_TWO \in Steps \ {FINAL, REDUCTION_ONE, 1}
        /\ REDUCTION_TWO \notin BinarySteps
        /\ "reduction2" \in Locations \ {"idle", "hang", "final", "done", "panic"}
    BY StepFacts DEF REDUCTION_ONE, REDUCTION_TWO, FINAL, Locations
  <2>5. ~Reduced(n)' /\ (Kind[n] = "EvilVoteEmpty" => hash[n] \notin Blocks)
    BY <1>1, <2>3 DEF Reduced, HashInv
  <2> QED
    BY <1>1, <2>1, <2>2, <2>4, <2>5, VoteOnInv
<1>7. ASSUME NEW n \in Nodes, NEW c \in countVotes(n), reduction2(n, c)
      PROVE  IInv'
  <2> DEFINE h == IF Kind[n] = "EvilVoteEmpty" THEN hash[n]
                  ELSE IF c = NoHash THEN empty(n) ELSE c
  <2>1. /\ VoteAndCount(n, "binary1", 1, committeeVote(n, {1}, h)) /\ pc[n] = "reduction2"
        /\ hash' = [hash EXCEPT ![n] = h] /\ r' = [r EXCEPT ![n] = h] /\ result' = result
    BY <1>7 DEF reduction2
  <2>2. h \in Hash /\ (h \in Blocks => h = c /\ c # NoHash)
        /\ (Kind[n] = "EvilVoteEmpty" => h \notin Blocks)
    BY <1>1, <2>1, EmptyFacts, CountFacts, HashAssumption DEF StepInv, HashInv, Hash
  <2> HIDE DEF h
  <2>3. h \in Blocks => QuorumFor(sent, REDUCTION_TWO, h)
    BY <1>3, <2>1, <2>2
  <2>4. /\ hash'[n] = h
        /\ \A m \in Nodes \ {n} : hash'[m] = hash[m] /\ r'[m] = r[m]
    BY <1>1, <2>1 DEF TypeOK
  <2>5. /\ 1 \in Steps \ {FINAL, REDUCTION_TWO}
        /\ "binary1" \in Locations \ {"idle", "hang", "final", "done", "panic"}
    BY StepFacts DEF REDUCTION_TWO, FINAL, Locations
  <2> QED
    BY <1>1, <2>1, <2>2, <2>3, <2>4, <2>5, StepFacts, VoteOnInv
<1>8. ASSUME NEW n \in Nodes, NEW c \in countVotes(n), binaryBA1(n, c)
      PROVE  IInv'
  <2>1. /\ pc[n] = "binary1" /\ hash[n] \in Hash /\ Reduced(n)
        /\ c # NoHash => c \in Hash /\ OwnQuorumFor(sent, step[n], n, c)
    BY <1>1, <1>8, CountFacts DEF binaryBA1, StepInv, Reduced
  <2>2. CASE c \notin {NoHash, empty(n)} /\ Decide(n, c, IF step[n] = 1 THEN {FINAL} ELSE {})
    BY <2>1, <2>2, DecideInv
  <2>3. CASE c = empty(n) /\ NextStep(n, "binary2", c)
    BY <1>1, <2>1, <2>3, EmptyFacts, NextStepInv
  <2>4. CASE c = NoHash /\ NextStep(n, "binary2", hash[n])
    BY <1>1, <1>2, <2>1, <2>4, NextStepInv
  <2> QED
    BY <1>8, <2>2, <2>3, <2>4 DEF binaryBA1
<1>9. ASSUME NEW n \in Nodes, NEW c \in countVotes(n), binaryBA2(n, c)
      PROVE  IInv'
  <2>1. pc[n] = "binary2" /\ (c # NoHash => c \in Hash /\ OwnQuorumFor(sent, step[n], n, c))
    BY <1>1, <1>9, CountFacts DEF binaryBA2
  <2>2. CASE c = empty(n) /\ Decide(n, c, {})
    BY <2>1, <2>2, EmptyFacts, DecideInv
  <2>3. CASE c \notin {NoHash, empty(n)} /\ NextStep(n, "binary3", c)
    BY <1>1, <1>3, <2>1, <2>3, NextStepInv
  <2>4. CASE c = NoHash /\ NextStep(n, "binary3", empty(n))
    BY <1>1, <2>1, <2>4, EmptyFacts, NextStepInv
  <2> QED
    BY <1>9, <2>2, <2>3, <2>4 DEF binaryBA2
<1>10. ASSUME NEW n \in Nodes, NEW c \in countVotes(n), binaryBA3(n, c)
       PROVE  IInv'
  <2>1. /\ pc[n] = "binary3" /\ hash[n] \in Hash /\ Reduced(n) /\ step[n] \in 3 .. MAXSTEPS + 1
        /\ UNCHANGED <<hash, result>> /\ (c # NoHash => c \in Hash)
    BY <1>1, <1>10, CountFacts DEF binaryBA3, StepInv, Reduced
  <2>2. PICK h \in {c, hash[n], empty(n)} \ {NoHash} :
          /\ r' = [r EXCEPT ![n] = h]
          /\ \/ VoteAndCount(n, "binary1", step[n], committeeVote(n, {step[n]}, h))
             \/ pc' = [pc EXCEPT ![n] = "hang"] /\ UNCHANGED <<step, sent>>
    BY <1>10, <2>1, EmptyFacts, HashAssumption DEF binaryBA3
  <2>3. h \in Hash /\ (h \in Blocks => QuorumFor(sent, REDUCTION_TWO, h))
    BY <1>2, <1>3, <2>1, <2>2, EmptyFacts
  <2>4. step[n] \in BinarySteps \ {1} /\ step[n] \in Steps \ {FINAL, REDUCTION_TWO}
    BY <2>1, StepFacts DEF BinarySteps
  <2>5. /\ Kind[n] = "EvilVoteEmpty" => hash[n] \notin Blocks
        /\ hash[n] \in Blocks => QuorumFor(sent, REDUCTION_TWO, hash[n])
        /\ \A m \in Nodes \ {n} : r'[m] = r[m]
    BY <1>1, <2>1, <2>2 DEF HashInv, TypeOK
  <2>6. CASE VoteAndCount(n, "binary1", step[n], committeeVote(n, {step[n]}, h))
    <3>1. "binary1" \in Locations \ {"idle", "hang", "final", "done", "panic"}
      BY DEF Locations
    <3> QED
      BY <1>1, <2>1, <2>3, <2>4, <2>5, <2>6, <3>1, VoteOnInv
  <2>7. CASE pc' = [pc EXCEPT ![n] = "hang"] /\ UNCHANGED <<step, sent>>
    <3>1. /\ pc'[n] = "hang" /\ sent' = sent /\ step' = step
          /\ \A m \in Nodes \ {n} : pc'[m] = pc[m]
      BY <1>1, <2>7 DEF TypeOK
    <3>2. NoFutureVote' /\ VoteOnce' /\ BlockVoteInv'
      BY <3>1, <1>1 DEF IInv, NoFutureVote, VoteOnce, BlockVoteInv, TypeOK, Vote
    <3>3. FinalVoteInv'
      BY <3>1, <2>1, <1>1 DEF IInv, FinalVoteInv, TypeOK, Vote, empty
    <3>4. result[n] = NoResult
      BY <2>1 DEF IInv, ResultInv
    <3>5. HashInv' /\ DecisionInv' /\ ResultInv'
      BY <2>1, <2>5, <3>1, <3>4, OthersInv
    <3> QED
      BY <1>1, <3>2, <3>3, <3>5 DEF IInv
  <2> QED
    BY <2>2, <2>6, <2>7
<1>11. ASSUME NEW n \in Nodes, closeHangForever(n)
       PROVE  IInv'
  <2>1. /\ pc[n] = "hang" /\ pc'[n] = "final" /\ r'[n] = NoHash /\ sent' = sent
        /\ UNCHANGED <<hash, result>>
        /\ \A m \in Nodes \ {n} : pc'[m] = pc[m] /\ step'[m] = step[m] /\ r'[m] = r[m]
    BY <1>1, <1>11 DEF closeHangForever, VoteAndCount, TypeOK
  <2>2. NoFutureVote' /\ VoteOnce' /\ BlockVoteInv'
    BY <2>1, <1>1 DEF IInv, NoFutureVote, VoteOnce, BlockVoteInv, TypeOK, Vote
  <2>3. FinalVoteInv'
    BY <2>1, <1>1 DEF IInv, FinalVoteInv, TypeOK, Vote, empty
  <2>4. /\ result[n] = NoResult /\ (Kind[n] = "EvilVoteEmpty" => hash[n] \notin Blocks)
        /\ hash[n] \in Blocks => QuorumFor(sent, REDUCTION_TWO, hash[n])
    BY <2>1, <1>1 DEF IInv, ResultInv, HashInv, Reduced
  <2>5. HashInv' /\ DecisionInv' /\ ResultInv'
    BY <2>1, <2>4, OthersInv
  <2> QED
    BY <1>1, <2>2, <2>3, <2>5 DEF IInv
<1>12. ASSUME NEW n \in Nodes, NEW c \in countVotes(n), BAReturn(n, c)
       PROVE  IInv'
  <2>1. /\ pc[n] = "final" /\ pc'[n] = "done" /\ UNCHANGED <<step, hash, r, sent>>
        /\ r[n] \in Blocks \cup {empty(n)} /\ r[n] # NoHash
        /\ result'[n].hash = r[n] /\ (result'[n].type = "FINAL_CONSENSUS" => c = r[n])
        /\ \A m \in Nodes \ {n} : pc'[m] = pc[m] /\ result'[m] = result[m]
    BY <1>1, <1>12, EmptyFacts, HashAssumption DEF BAReturn, TypeOK, Hash
  <2>2. NoFutureVote' /\ VoteOnce' /\ BlockVoteInv'
    BY <2>1, <1>1 DEF IInv, NoFutureVote, VoteOnce, BlockVoteInv, TypeOK, Vote
  <2>3. FinalVoteInv'
    BY <2>1, <1>1 DEF IInv, FinalVoteInv, TypeOK, Vote, empty
  <2>4. c = r[n] => FinalQuorumFor(sent, n, r[n])
    BY <1>1, <2>1, CountFacts DEF StepInv
  <2>5. /\ Kind[n] = "EvilVoteEmpty" => hash[n] \notin Blocks
        /\ hash[n] \in Blocks => QuorumFor(sent, REDUCTION_TWO, hash[n])
        /\ \E s \in BinarySteps : OwnQuorumFor(sent, s, n, r[n])
    BY <1>1, <2>1 DEF IInv, HashInv, Reduced, DecisionInv
  <2>6. HashInv' /\ DecisionInv' /\ ResultInv'
    BY <2>1, <2>4, <2>5, OthersInv
  <2> QED
    BY <1>1, <2>2, <2>3, <2>6 DEF IInv
<1>13. ASSUME NEW n \in Nodes, BAPanic(n)
       PROVE  IInv'
  <2>1. /\ pc[n] = "final" /\ pc'[n] = "panic" /\ UNCHANGED <<step, hash, r, sent, result>>
        /\ \A m \in Nodes \ {n} : pc'[m] = pc[m]
    BY <1>1, <1>13 DEF BAPanic, TypeOK
  <2>2. NoFutureVote' /\ VoteOnce' /\ BlockVoteInv'
    BY <2>1, <1>1 DEF IInv, NoFutureVote, VoteOnce, BlockVoteInv, TypeOK, Vote
  <2>3. FinalVoteInv'
    BY <2>1, <1>1 DEF IInv, FinalVoteInv, TypeOK, Vote, empty
  <2>4. result[n] = NoResult /\ (Kind[n] = "EvilVoteEmpty" => hash[n] \notin Blocks)
    BY <2>1, <1>1 DEF IInv, ResultInv, HashInv
  <2>5. HashInv' /\ DecisionInv' /\ ResultInv'
    <3>1. ~Reduced(n)'
      BY <2>1 DEF Reduced
    <3> QED
      BY <2>1, <2>4, <3>1, OthersInv
  <2> QED
    BY <1>1, <2>2, <2>3, <2>5 DEF IInv
<1> QED
  BY <1>4, <1>5, <1>6, <1>7, <1>8, <1>9, <1>10, <1>11, <1>12, <1>13 DEF Next, Step, OnCount

-----------------------------------------------------------------------------
(* The theorems.                                                           *)

(* The inductive invariant holds throughout the round. *)
THEOREM Invariance == Spec => []IInv
BY InitInv, InvStep, PTL DEF Spec

(* Every variable of the round keeps its type: in particular the votes that
   binaryBA casts three steps ahead never reach the steps from 1000 on.    *)
THEOREM TypeCorrect == Spec => []TypeOK
<1>1. IInv => TypeOK
  BY DEF IInv
<1> QED
  BY <1>1, Invariance, PTL

(* A round yields at most one non-empty block. *)
THEOREM RoundYieldsOneBlock == Spec => []OneBlock
<1>1. IInv => OneBlock
  BY SafetyFromInv
<1> QED
  BY <1>1, Invariance, PTL

(* A FINAL result is contradicted only by the empty block, and only by users
   that hold a quorum of a later step and took no part in FINAL.           *)
THEOREM FinalBindsItsVoters == Spec => []FinalUnlessApart
<1>1. IInv => FinalUnlessApart
  BY SafetyFromInv
<1> QED
  BY <1>1, Invariance, PTL

(* FINAL consensus is never reached on the empty block. *)
THEOREM FinalIsNotEmpty == Spec => []FinalNotEmpty
<1>1. IInv => FinalNotEmpty
  BY SafetyFromInv
<1> QED
  BY <1>1, Invariance, PTL

(* A block that BA returns was proposed to a quorum of the first reduction
   step.                                                                   *)
THEOREM BlocksAreProposed == Spec => []Validity
<1>1. IInv => Validity
  BY SafetyFromInv
<1> QED
  BY <1>1, Invariance, PTL

(* Users of different chains do not decide for each other: a node leaves the
   round with what a quorum of the users of its own chain voted for.       *)
THEOREM OwnChainDecides == Spec => []OwnChain
<1>1. IInv => OwnChain
  BY SafetyFromInv
<1> QED
  BY <1>1, Invariance, PTL

(* Every step of BA* is a step of RoundConsensus or leaves the results alone:
   what BA returns to processMain is what a round promises.                *)
LEMMA RoundStep == IInv /\ IInv' /\ [Next]_vars => [Round!Next]_result
<1> SUFFICES ASSUME IInv, IInv', [Next]_vars PROVE [Round!Next]_result
  OBVIOUS
<1>1. ASSUME NEW n \in Nodes, NEW c \in countVotes(n), BAReturn(n, c)
      PROVE  Round!Next
  <2> DEFINE Empties == {emptyHash(p) : p \in Parents}
  <2>1. /\ pc[n] = "final" /\ r[n] \in Blocks \cup {empty(n)}
        /\ result' = [result EXCEPT ![n] =
             [type |-> IF c = r[n] THEN "FINAL_CONSENSUS" ELSE "TENTATIVE_CONSENSUS",
              hash |-> r[n]]]
    BY <1>1 DEF BAReturn
  <2>2. result[n] = NoResult /\ result \in [Nodes -> Result \cup {NoResult}]
    BY <2>1 DEF IInv, ResultInv, TypeOK
  <2>3. r[n] \in Blocks \cup Empties
    BY <2>1, ConstantsAssumption DEF empty
  <2>4. OneBlock' /\ FinalNotEmpty'
    BY SafetyFromInv, PTL
  <2>5. /\ result'[n].hash = r[n] /\ result'[n] # NoResult
        /\ result'[n].type = IF c = r[n] THEN "FINAL_CONSENSUS" ELSE "TENTATIVE_CONSENSUS"
        /\ \A m \in Nodes : result[m] # NoResult => result'[m] = result[m]
    BY <2>1, <2>2 DEF NoResult
  <2>6. \A m \in Nodes : result[m] # NoResult =>
          (result[m].hash \in Blocks /\ r[n] \in Blocks => result[m].hash = r[n])
    BY <2>4, <2>5 DEF OneBlock
  <2>7. c = r[n] => r[n] \in Blocks
    BY <2>4, <2>5 DEF FinalNotEmpty
  <2>8. c = r[n] => Round!Final(n, r[n])
    BY <2>1, <2>2, <2>6, <2>7 DEF Round!Final, Round!Agrees, Round!Given, Round!NoResult, NoResult
  <2>9. c # r[n] => Round!Tentative(n, r[n])
    BY <2>1, <2>2, <2>6 DEF Round!Tentative, Round!Agrees, Round!Given, Round!NoResult, NoResult
  <2> QED
    BY <2>3, <2>8, <2>9 DEF Round!Next
<1>2. ASSUME NEW n \in Nodes, Step(n), \A c \in countVotes(n) : ~BAReturn(n, c)
      PROVE  result' = result
  BY <1>2 DEF Step, OnCount, BA, reduction1, reduction2, binaryBA1, binaryBA2, binaryBA3,
              Decide, NextStep, closeHangForever, BAPanic
<1> QED
  BY <1>1, <1>2 DEF Next, vars

(* BA* implements the consensus of a round. *)
THEOREM ImplementsRound == Spec => RoundSpec
<1>1. Init => Round!Init
  BY DEF Init, Round!Init, Round!NoResult, NoResult
<1> QED
  BY <1>1, RoundStep, Invariance, PTL DEF Spec, RoundSpec, Round!Spec

-----------------------------------------------------------------------------

(* Where QuorumAssumption comes from: when sortition selects less than twice
   the threshold of sub-users for a step, any two sets of users that reach
   the threshold share one.                                                *)
THEOREM QuorumsMeet ==
  ASSUME NEW s \in Steps, VotesOf(Nodes, s) < 2 * Threshold,
         NEW P \in SUBSET Nodes, NEW Q \in SUBSET Nodes,
         VotesOf(P, s) >= Threshold, VotesOf(Q, s) >= Threshold
  PROVE  P \cap Q # {}
<1> SUFFICES ASSUME P \cap Q = {} PROVE FALSE
  OBVIOUS
<1> DEFINE w == [v \in Nodes |-> Weight(v, s)]
<1>1. IsFiniteSet(P) /\ IsFiniteSet(Q) /\ \A v \in P \cup Q : w[v] \in Nat
  BY ConstantsAssumption, FS_Subset
<1> HIDE DEF w
<1>2. Sum(w, P \cup Q) = Sum(w, P) + Sum(w, Q)
  BY <1>1, SumDisjoint
<1>3. VotesOf(P \cup Q, s) = VotesOf(P, s) + VotesOf(Q, s)
  BY <1>2, VotesOfIsSum DEF w
<1>4. /\ VotesOf(P \cup Q, s) <= VotesOf(Nodes, s) /\ VotesOf(P, s) \in Nat
      /\ VotesOf(Q, s) \in Nat /\ VotesOf(Nodes, s) \in Nat /\ VotesOf(P \cup Q, s) \in Nat
  BY VotesOfFacts
<1> QED
  BY <1>3, <1>4, ConstantsAssumption

(* The votes a node may have read when countVotes returns are as ReadInv says. *)
LEMMA ReadFacts ==
  ASSUME SyncInv, NEW n \in Nodes, NEW l \in voteIterator(n)
  PROVE  /\ l \in SUBSET Vote
         /\ \A v \in l : /\ v \in sent /\ v.step = step[n] /\ v.voter # n
                         /\ processMsg(n, v.voter, v.step) # 0
         /\ \A v, w \in l : v.voter = w.voter => v = w
<1> DEFINE incoming == {v \in sent : /\ v.step = step[n]
                                     /\ v.voter # n
                                     /\ processMsg(n, v.voter, v.step) # 0
                                     /\ \A w \in list[n] : w.voter # v.voter}
<1>1. PICK S \in SUBSET incoming : /\ l = list[n] \cup S
                                   /\ \A v, w \in S : v.voter = w.voter => v = w
  BY DEF voteIterator
<1>2. sent \subseteq Vote /\ list[n] \in SUBSET Vote
  BY DEF SyncInv, IInv, TypeOK, ReadInv
<1>3. \A v \in list[n] : /\ v \in sent /\ v.step = step[n] /\ v.voter # n
                         /\ processMsg(n, v.voter, v.step) # 0
  BY DEF SyncInv, ReadInv
<1>4. \A v, w \in list[n] : v.voter = w.voter => v = w
  BY DEF SyncInv, ReadInv
<1> QED
  BY <1>1, <1>2, <1>3, <1>4

(* A hash that the votes read call for is one that countVotes of BAStar may
   return: they are part of the votes on their way.                        *)
LEMMA ReachedIsCounted ==
  ASSUME SyncInv, NEW n \in Nodes, NEW l \in voteIterator(n), NEW c \in Reached(n, l)
  PROVE  c \in countVotes(n)
<1> DEFINE S == {v.voter : v \in {v \in l : v.hash = c}}
<1>1. c \in Hash /\ VotesOf(S, step[n]) >= threshold(n)
  BY DEF Reached
<1>2. S \subseteq Counted(n, c) /\ Counted(n, c) \subseteq Nodes
  <2>1. ASSUME NEW v \in l, v.hash = c
        PROVE  v.voter \in Counted(n, c)
    <3>1. v \in Vote /\ v \in sent /\ v.step = step[n] /\ v.voter # n
          /\ processMsg(n, v.voter, v.step) # 0
      BY ReadFacts
    <3>2. v = [voter |-> v.voter, step |-> step[n], hash |-> c] /\ v.voter \in Nodes
      BY <2>1, <3>1 DEF Vote
    <3> QED
      BY <3>1, <3>2 DEF Counted
  <2> QED
    BY <2>1 DEF Counted
<1>3. CASE step[n] \in Steps
  <2>1. /\ VotesOf(S, step[n]) <= VotesOf(Counted(n, c), step[n])
        /\ VotesOf(S, step[n]) \in Nat /\ VotesOf(Counted(n, c), step[n]) \in Nat
    BY <1>2, <1>3, VotesOfFacts
  <2>2. threshold(n) \in Nat
    BY ConstantsAssumption DEF threshold
  <2> QED
    BY <1>1, <2>1, <2>2 DEF countVotes
<1>4. CASE step[n] \notin Steps
  <2>1. Counted(n, c) = {}
    BY <1>4 DEF SyncInv, IInv, TypeOK, Vote, Counted
  <2>2. S = Counted(n, c)
    BY <1>2, <2>1
  <2> QED
    BY <1>1, <2>2 DEF countVotes
<1> QED
  BY <1>3, <1>4

(* Every step is a step of BAStar. *)
LEMMA SyncStepIsStep ==
  ASSUME SyncInv, [SyncNext]_syncVars
  PROVE  [Next]_vars
<1>1. CASE UNCHANGED syncVars
  BY <1>1 DEF syncVars
<1>2. ASSUME NEW n \in Nodes, SyncStep(n)
      PROVE  Step(n)
  <2>1. CASE \E b \in Blocks \cup {empty(n)} : BA(n, b)
    BY <2>1 DEF Step
  <2>2. ASSUME NEW l \in voteIterator(n), SyncCount(n, l)
        PROVE  Step(n)
    <3>1. NoHash \in countVotes(n) /\ \A c \in Reached(n, l) : c \in countVotes(n)
      BY ReachedIsCounted DEF countVotes
    <3>2. \E c \in countVotes(n) : OnCount(n, c)
      BY <2>2, <3>1 DEF SyncCount
    <3> QED
      BY <3>2 DEF Step
  <2> QED
    BY <1>2, <2>1, <2>2 DEF SyncStep
<1> QED
  BY <1>1, <1>2 DEF SyncNext, Next, SyncInv

(* What a step of node n does to the votes and to the other nodes. *)
LEMMA StepMoves ==
  ASSUME TypeOK, NEW n \in Nodes,
         (\E b : BA(n, b)) \/ (\E c : OnCount(n, c))
  PROVE  /\ sent \subseteq sent'
         /\ pc'[n] \notin {"idle", "panic"}
         /\ \A m \in Nodes \ {n} : pc'[m] = pc[m] /\ step'[m] = step[m]
<1>1. PICK location \in Locations \ {"idle", "panic"} :
        /\ pc' = [pc EXCEPT ![n] = location]
        /\ step' = step \/ \E s : step' = [step EXCEPT ![n] = s]
        /\ sent \subseteq sent'
  <2>1. ASSUME NEW location \in Locations \ {"idle", "panic"}, NEW s, NEW votes,
               VoteAndCount(n, location, s, votes)
        PROVE  \E x \in Locations \ {"idle", "panic"} :
                 /\ pc' = [pc EXCEPT ![n] = x]
                 /\ step' = step \/ \E y : step' = [step EXCEPT ![n] = y]
                 /\ sent \subseteq sent'
    BY <2>1 DEF VoteAndCount
  <2>2. {"reduction1", "reduction2", "binary1", "binary2", "binary3", "hang", "final", "done"}
          = Locations \ {"idle", "panic"}
    BY DEF Locations
  <2>3. ASSUME NEW b, BA(n, b) PROVE VoteAndCount(n, "reduction1", REDUCTION_ONE, sent' \ sent)
    BY <2>3 DEF BA, VoteAndCount
  <2>4. ASSUME NEW c, OnCount(n, c)
        PROVE  \/ \E location \in Locations \ {"idle", "panic"} : \E s, votes :
                    VoteAndCount(n, location, s, votes)
               \/ /\ pc' = [pc EXCEPT ![n] = "hang"] \/ pc' = [pc EXCEPT ![n] = "done"]
                  /\ UNCHANGED <<step, sent>>
    <3>1. CASE reduction1(n, c)
      BY <2>2, <3>1 DEF reduction1
    <3>2. CASE reduction2(n, c)
      BY <2>2, <3>2 DEF reduction2
    <3>3. CASE binaryBA1(n, c)
      BY <2>2, <3>3 DEF binaryBA1, Decide, NextStep
    <3>4. CASE binaryBA2(n, c)
      BY <2>2, <3>4 DEF binaryBA2, Decide, NextStep
    <3>5. CASE binaryBA3(n, c)
      BY <2>2, <3>5 DEF binaryBA3
    <3>6. CASE BAReturn(n, c)
      BY <3>6 DEF BAReturn
    <3> QED
      BY <2>4, <3>1, <3>2, <3>3, <3>4, <3>5, <3>6 DEF OnCount
  <2> QED
    BY <2>1, <2>2, <2>3, <2>4
<1>2. pc'[n] = location /\ \A m \in Nodes \ {n} : pc'[m] = pc[m] /\ step'[m] = step[m]
  BY <1>1 DEF TypeOK
<1> QED
  BY <1>1, <1>2

(* Nothing is read before the round. *)
LEMMA SyncInitInv == SyncInit => SyncInv
<1> SUFFICES ASSUME SyncInit PROVE SyncInv
  OBVIOUS
<1>1. IInv
  BY InitInv DEF SyncInit
<1> QED
  BY <1>1 DEF SyncInit, Init, SyncInv, Running, ReadInv

(* Every step keeps what has been read among what was sent. *)
LEMMA SyncInvStep == SyncInv /\ [SyncNext]_syncVars => SyncInv'
<1> SUFFICES ASSUME SyncInv, [SyncNext]_syncVars PROVE SyncInv'
  OBVIOUS
<1>1. IInv' /\ TypeOK /\ TypeOK'
  BY SyncStepIsStep, InvStep DEF SyncInv, IInv
<1>2. CASE UNCHANGED syncVars
  BY <1>1, <1>2 DEF syncVars, vars, SyncInv, Running, ReadInv, processMsg
<1>3. ASSUME NEW n \in Nodes, SyncStep(n)
      PROVE  Running' /\ ReadInv'
  <2>1. /\ sent \subseteq sent'
        /\ pc'[n] \notin {"idle", "panic"}
        /\ \A m \in Nodes \ {n} : pc'[m] = pc[m] /\ step'[m] = step[m]
    <3>1. (\E b : BA(n, b)) \/ (\E c : OnCount(n, c))
      BY <1>3 DEF SyncStep, SyncCount
    <3> QED
      BY <1>1, <3>1, StepMoves
  <2>2. Running'
    BY <2>1 DEF SyncInv, Running
  <2>3. PICK l \in SUBSET Vote :
          /\ list' = [list EXCEPT ![n] = l]
          /\ \A v \in l : /\ v \in sent /\ v.step = step'[n] /\ v.voter # n
                          /\ processMsg(n, v.voter, v.step) # 0
          /\ \A v, w \in l : v.voter = w.voter => v = w
    <3>1. CASE (\E b \in Blocks \cup {empty(n)} : BA(n, b)) /\ UNCHANGED list
      <4>1. pc[n] = "idle"
        BY <3>1 DEF BA
      <4>2. list[n] = {} /\ list' = [list EXCEPT ![n] = {}]
        BY <3>1, <4>1 DEF SyncInv, ReadInv
      <4> QED
        BY <4>2
    <3>2. ASSUME NEW l \in voteIterator(n),
                 list' = [list EXCEPT ![n] = IF step'[n] = step[n] THEN l ELSE {}]
          PROVE  \E k \in SUBSET Vote :
                   /\ list' = [list EXCEPT ![n] = k]
                   /\ \A v \in k : /\ v \in sent /\ v.step = step'[n] /\ v.voter # n
                                   /\ processMsg(n, v.voter, v.step) # 0
                   /\ \A v, w \in k : v.voter = w.voter => v = w
      <4>1. CASE step'[n] = step[n]
        BY <3>2, <4>1, ReadFacts
      <4>2. CASE step'[n] # step[n]
        <5>1. list' = [list EXCEPT ![n] = {}] /\ {} \in SUBSET Vote
          BY <3>2, <4>2
        <5> QED
          BY <5>1
      <4> QED
        BY <4>1, <4>2
    <3> QED
      BY <1>3, <3>1, <3>2 DEF SyncStep
  <2>4. list' \in [Nodes -> SUBSET Vote] /\ list'[n] = l
        /\ \A m \in Nodes \ {n} : list'[m] = list[m]
    BY <2>3 DEF SyncInv, ReadInv
  <2>5. ASSUME NEW m \in Nodes
        PROVE  /\ pc'[m] = "idle" => list'[m] = {}
               /\ \A v \in list'[m] : /\ v \in sent' /\ v.step = step'[m] /\ v.voter # m
                                      /\ processMsg(m, v.voter, v.step) # 0
               /\ \A v, w \in list'[m] : v.voter = w.voter => v = w
    <3>1. CASE m = n
      BY <2>1, <2>3, <2>4, <3>1
    <3>2. CASE m # n
      <4>1. pc'[m] = pc[m] /\ step'[m] = step[m] /\ list'[m] = list[m]
        BY <2>1, <2>4, <3>2
      <4> QED
        BY <2>1, <4>1 DEF SyncInv, ReadInv
    <3> QED
      BY <3>1, <3>2
  <2>6. ReadInv'
    BY <2>4, <2>5 DEF ReadInv, processMsg
  <2> QED
    BY <2>2, <2>6
<1> QED
  BY <1>1, <1>2, <1>3 DEF SyncNext, SyncInv

(* The votes that countVotes of a node has gone through are votes that were sent. *)
THEOREM SyncInvariance == SyncSpec => []SyncInv
BY SyncInitInv, SyncInvStep, PTL DEF SyncSpec

(* The BA* that reads lists of votes implements the one that counts the votes
   on their way, for any period in which the network is slow.              *)
THEOREM SyncRefines == SyncSpec => Spec
<1>1. SyncInit => Init
  BY DEF SyncInit
<1>2. SyncInv /\ [SyncNext]_syncVars => [Next]_vars
  BY SyncStepIsStep
<1> QED
  BY <1>1, <1>2, SyncInvariance, PTL DEF SyncSpec, Spec

(* So what is proved about BAStar holds of it: in particular the network on
   which BA* is shown to terminate is also one on which it is safe.        *)
THEOREM SyncIsSafe == SyncSpec => RoundSpec /\ [](OneBlock /\ FinalUnlessApart /\ Validity /\ OwnChain)
BY SyncRefines, ImplementsRound, RoundYieldsOneBlock, FinalBindsItsVoters, BlocksAreProposed, OwnChainDecides, PTL

=============================================================================
