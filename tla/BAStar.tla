------------------------------- MODULE BAStar -------------------------------
(***************************************************************************)
(* BA*, the Byzantine agreement every node runs once per round             *)
(* (algorand.go: BA, reduction, binaryBA, countVotes, processMsg,          *)
(* commonCoin, committeeVote).  One round is modelled: every node calls BA *)
(* once, with the block that blockProposal handed to it, and leaves with a *)
(* FINAL or a TENTATIVE block, hangs after MAXSTEPS, or panics.            *)
(*                                                                         *)
(* The network is asynchronous.  A vote is gossiped by a goroutine per     *)
(* receiver, so votes are delayed and reordered at will, and the peer may  *)
(* lose some (see VoteList).  A node reads the list of a step only in the  *)
(* countVotes call of that step, so the arrival of votes is folded into    *)
(* the step in which that call returns.                                    *)
(*                                                                         *)
(* Hashes are injective: a block hash is a member of Blocks, the hash of   *)
(* the empty block on top of p is emptyHash(p), and NoHash is the zero     *)
(* value common.Hash{}.                                                    *)
(***************************************************************************)
EXTENDS Integers, FiniteSets, FiniteSetsExt

CONSTANTS
  Nodes,        \* the users taking part
  Blocks,       \* the hashes of the non-empty blocks proposed in this round
  Parents,      \* the hashes of the blocks the nodes' chains may end with
  Last,         \* Last[n]: hash of node n's chain.last during the round
  ParentOf,     \* ParentOf[b]: the ParentHash field of block b
  Kind,         \* Kind[n]: node n's maliciousType
  Weight(_, _), \* Weight(n, s): the sub-users sortition selects for n in step s
  Threshold,    \* uint64(expectedCommitteeMembers * thresholdOfBAStep)
  FinalThreshold, \* uint64(expectedFinalCommitteeMembers * finalThreshold)
  MAXSTEPS,     \* bound on the steps of binaryBA
  NoHash        \* common.Hash{}: no hash

REDUCTION_ONE == 1001
REDUCTION_TWO == 1002
FINAL == 1003

Kinds == {"Honest", "EvilBlockProposal", "EvilVoteEmpty", "EvilVoteNothing"}

emptyHash(p) == <<"empty", p>>
Hash == Blocks \cup {emptyHash(p) : p \in Parents}

(* The steps votes are cast for.  binaryBA enters its loop with an odd step
   below MAXSTEPS, ends it two steps later and votes three steps ahead.    *)
BinarySteps == 1 .. (MAXSTEPS + 3)
Steps == BinarySteps \cup {REDUCTION_ONE, REDUCTION_TWO, FINAL}

ASSUME ConstantsAssumption ==
  /\ IsFiniteSet(Nodes)
  /\ Last \in [Nodes -> Parents]
  /\ ParentOf \in [Blocks -> Parents]
  /\ Kind \in [Nodes -> Kinds]
  /\ \A n \in Nodes, s \in Steps : Weight(n, s) \in Nat
  /\ Threshold \in Nat \ {0}
  /\ FinalThreshold \in Nat \ {0}
  /\ MAXSTEPS \in 2 .. 990

ASSUME HashAssumption ==
  /\ NoHash \notin Hash
  /\ \A p \in Parents : emptyHash(p) \notin Blocks

(* The votes a set S of committee members casts in step s. *)
VotesOf(S, s) == MapThenSumSet(LAMBDA v : Weight(v, s), S)

(* What sortition has to provide for BA* to be safe: two sets of users that
   reach the threshold of one step share a user.  Nothing is assumed of the
   committees of different steps: sortition draws each on its own.         *)
ASSUME QuorumAssumption ==
  \A s \in Steps \ {FINAL} : \A Q1, Q2 \in SUBSET Nodes :
    VotesOf(Q1, s) >= Threshold /\ VotesOf(Q2, s) >= Threshold => Q1 \cap Q2 # {}

VARIABLES
  pc,     \* pc[n]: where node n is: the countVotes call it waits in
  step,   \* step[n]: the step that call counts
  block,  \* block[n]: hash of the block BA was called with
  hash,   \* hash[n]: BA's local hash, then binaryBA's parameter
  r,      \* r[n]: binaryBA's local r, then its return value
  sent,   \* the votes gossiped so far
  result  \* result[n]: what BA returned

vars == <<pc, step, block, hash, r, sent, result>>

Locations == {"idle", "reduction1", "reduction2", "binary1", "binary2",
              "binary3", "hang", "final", "done", "panic"}

Vote == [voter : Nodes, step : Steps, hash : Hash]
NoResult == [type |-> "none", hash |-> NoHash]
Result == [type : {"FINAL_CONSENSUS", "TENTATIVE_CONSENSUS"}, hash : Hash]

empty(n) == emptyHash(Last[n])

-----------------------------------------------------------------------------
(* Votes: committeeVote sends, handle receives, countVotes counts.          *)

(* The votes node n gossips for h in the steps of S: it votes only in the
   steps whose sortition selects it, and never if it is EvilVoteNothing.   *)
committeeVote(n, S, h) ==
  {[voter |-> n, step |-> s, hash |-> h] :
     s \in {s \in S : Kind[n] # "EvilVoteNothing" /\ Weight(n, s) > 0}}

(* Mutant: votes that do not extend the node's chain are not discarded. *)
MutProcessMsg(n, v, s) == Weight(v, s)

(* The sub-users that processMsg finds in a vote of v in step s at node n;
   a vote that does not extend n's chain has none.                         *)
processMsg(n, v, s) == IF Last[v] = Last[n] THEN Weight(v, s) ELSE 0

(* The others whose votes for h in its step node n may come to count: gossip
   does not deliver to the sender.                                         *)
Counted(n, h) ==
  {v \in Nodes \ {n} : /\ [voter |-> v, step |-> step[n], hash |-> h] \in sent
                       /\ processMsg(n, v, step[n]) # 0}

(* Mutant: the threshold is missed by one vote. *)
MutThreshold(n) == (IF pc[n] = "final" THEN FinalThreshold ELSE Threshold) - 1

(* The votes that end the countVotes call of node n. *)
threshold(n) == IF pc[n] = "final" THEN FinalThreshold ELSE Threshold

(* What the countVotes call of node n may return: a hash for which enough
   votes are on their way, or the timeout, as any of them may be late.     *)
countVotes(n) ==
  {NoHash} \cup {h \in Hash : VotesOf(Counted(n, h), step[n]) >= threshold(n)}

(* Node n gossips votes and calls countVotes for step s. *)
VoteAndCount(n, location, s, votes) ==
  /\ pc' = [pc EXCEPT ![n] = location]
  /\ step' = [step EXCEPT ![n] = s]
  /\ sent' = sent \cup votes

-----------------------------------------------------------------------------
(* The rounds of BA, one action per return of countVotes.                  *)

(* BA is called with block b (or the empty block) and reduction votes. *)
BA(n, b) ==
  LET h == IF Kind[n] = "EvilVoteEmpty"
             THEN emptyHash(IF b \in Blocks THEN ParentOf[b] ELSE Last[n])
             ELSE b
  IN  /\ pc[n] = "idle"
      /\ block' = [block EXCEPT ![n] = b]
      /\ hash' = [hash EXCEPT ![n] = h]
      /\ VoteAndCount(n, "reduction1", REDUCTION_ONE,
                      committeeVote(n, {REDUCTION_ONE}, h))
      /\ UNCHANGED <<r, result>>

(* First step of reduction: re-gossip the popular hash, or the empty one. *)
reduction1(n, c) ==
  LET h == IF c = NoHash THEN empty(n) ELSE c
  IN  /\ pc[n] = "reduction1"
      /\ VoteAndCount(n, "reduction2", REDUCTION_TWO,
                      committeeVote(n, {REDUCTION_TWO}, h))
      /\ UNCHANGED <<block, hash, r, result>>

(* Second step of reduction.  Its value goes to binaryBA, except that an
   EvilVoteEmpty node keeps the hash it started from; binaryBA votes.      *)
reduction2(n, c) ==
  LET h == IF Kind[n] = "EvilVoteEmpty" THEN hash[n]
           ELSE IF c = NoHash THEN empty(n) ELSE c
  IN  /\ pc[n] = "reduction2"
      /\ hash' = [hash EXCEPT ![n] = h]
      /\ r' = [r EXCEPT ![n] = h]
      /\ VoteAndCount(n, "binary1", 1, committeeVote(n, {1}, h))
      /\ UNCHANGED <<block, result>>

(* Mutant: the votes ahead are cast for the empty block. *)
MutDecideEmpty(n, h, final) ==
  /\ r' = [r EXCEPT ![n] = h]
  /\ VoteAndCount(n, "final", FINAL,
                  committeeVote(n, (step[n] + 1) .. (step[n] + 3), empty(n))
                    \cup committeeVote(n, final, h))
  /\ UNCHANGED <<block, hash, result>>

(* Mutant: every decision votes in FINAL. *)
MutDecideFinal(n, h, final) ==
  /\ r' = [r EXCEPT ![n] = h]
  /\ VoteAndCount(n, "final", FINAL,
                  committeeVote(n, (step[n] + 1) .. (step[n] + 3), h)
                    \cup committeeVote(n, {FINAL}, h))
  /\ UNCHANGED <<block, hash, result>>

(* Mutant: a decision leaves the nodes that are behind without votes. *)
MutDecideSilent(n, h, final) ==
  /\ r' = [r EXCEPT ![n] = h]
  /\ VoteAndCount(n, "final", FINAL, committeeVote(n, final, h))
  /\ UNCHANGED <<block, hash, result>>

(* binaryBA returns h: vote for h three steps ahead, and in FINAL if the
   first step decided; BA then counts the votes of FINAL.                  *)
Decide(n, h, final) ==
  /\ r' = [r EXCEPT ![n] = h]
  /\ VoteAndCount(n, "final", FINAL,
                  committeeVote(n, (step[n] + 1) .. (step[n] + 3), h)
                    \cup committeeVote(n, final, h))
  /\ UNCHANGED <<block, hash, result>>

(* binaryBA goes on to the next step with h. *)
NextStep(n, location, h) ==
  /\ r' = [r EXCEPT ![n] = h]
  /\ VoteAndCount(n, location, step[n] + 1,
                  committeeVote(n, {step[n] + 1}, h))
  /\ UNCHANGED <<block, hash, result>>

(* First count of an iteration: any hash but the empty one decides. *)
binaryBA1(n, c) ==
  /\ pc[n] = "binary1"
  /\ \/ /\ c \notin {NoHash, empty(n)}
        /\ Decide(n, c, IF step[n] = 1 THEN {FINAL} ELSE {})
     \/ /\ c = empty(n)
        /\ NextStep(n, "binary2", c)
     \/ /\ c = NoHash
        /\ NextStep(n, "binary2", hash[n])

(* Second count: the empty hash decides. *)
binaryBA2(n, c) ==
  /\ pc[n] = "binary2"
  /\ \/ /\ c = empty(n)
        /\ Decide(n, c, {})
     \/ /\ c \notin {NoHash, empty(n)}
        /\ NextStep(n, "binary3", c)
     \/ /\ c = NoHash
        /\ NextStep(n, "binary3", empty(n))

(* The coin is the low bit of the least hash of the votes at hand: either
   value, and each node may have other votes at hand.                      *)
commonCoin == {0, 1}

(* Mutant: the loop does not stop at MAXSTEPS. *)
MutBinaryBA3(n, c) ==
  /\ pc[n] = "binary3"
  /\ r' = [r EXCEPT ![n] = IF c # NoHash THEN c ELSE hash[n]]
  /\ VoteAndCount(n, "binary1", step[n], committeeVote(n, {step[n]}, r'[n]))
  /\ UNCHANGED <<block, hash, result>>

(* Third count: a timeout is settled by the coin.  The loop condition is
   evaluated next, and the step is the same in the next iteration.         *)
binaryBA3(n, c) ==
  /\ pc[n] = "binary3"
  /\ \E coin \in commonCoin :
       LET h == IF c # NoHash THEN c
                ELSE IF coin = 0 THEN hash[n] ELSE empty(n)
       IN  /\ r' = [r EXCEPT ![n] = h]
           /\ \/ /\ step[n] < MAXSTEPS
                 /\ VoteAndCount(n, "binary1", step[n],
                                 committeeVote(n, {step[n]}, h))
              \/ /\ step[n] >= MAXSTEPS
                 /\ pc' = [pc EXCEPT ![n] = "hang"]
                 /\ UNCHANGED <<step, sent>>
  /\ UNCHANGED <<block, hash, result>>

(* processForkResolve or Stop closes hangForever: binaryBA returns the zero
   hash and BA counts the votes of FINAL.                                  *)
closeHangForever(n) ==
  /\ pc[n] = "hang"
  /\ r' = [r EXCEPT ![n] = NoHash]
  /\ VoteAndCount(n, "final", FINAL, {})
  /\ UNCHANGED <<block, hash, result>>

(* BA returns.  The empty block is made on the spot; any other one must
   have arrived by now in peer.blocks.                                     *)
BAReturn(n, c) ==
  /\ pc[n] = "final"
  /\ r[n] \in Blocks \cup {empty(n)}
  /\ result' = [result EXCEPT ![n] =
       [type |-> IF c = r[n] THEN "FINAL_CONSENSUS" ELSE "TENTATIVE_CONSENSUS",
        hash |-> r[n]]]
  /\ pc' = [pc EXCEPT ![n] = "done"]
  /\ UNCHANGED <<step, block, hash, r, sent>>

(* peer.getBlock returns nil, the assignment to newBlk.Type panics and ends
   the process: the block of the zero hash never exists, another one may
   still be on its way unless it is the one BA was called with.            *)
BAPanic(n) ==
  /\ pc[n] = "final"
  /\ r[n] \notin {empty(n), block[n]}
  /\ pc' = [pc EXCEPT ![n] = "panic"]
  /\ UNCHANGED <<step, block, hash, r, sent, result>>

-----------------------------------------------------------------------------
Init ==
  /\ pc = [n \in Nodes |-> "idle"]
  /\ step = [n \in Nodes |-> 0]
  /\ block = [n \in Nodes |-> NoHash]
  /\ hash = [n \in Nodes |-> NoHash]
  /\ r = [n \in Nodes |-> NoHash]
  /\ sent = {}
  /\ result = [n \in Nodes |-> NoResult]

Running == \A n \in Nodes : pc[n] # "panic"

(* What node n does when countVotes returns c. *)
OnCount(n, c) ==
  \/ reduction1(n, c)
  \/ reduction2(n, c)
  \/ binaryBA1(n, c)
  \/ binaryBA2(n, c)
  \/ binaryBA3(n, c)
  \/ BAReturn(n, c)

Step(n) ==
  \/ \E b \in Blocks \cup {empty(n)} : BA(n, b)
  \/ \E c \in countVotes(n) : OnCount(n, c)
  \/ closeHangForever(n)
  \/ BAPanic(n)

Next == Running /\ \E n \in Nodes : Step(n)

Spec == Init /\ [][Next]_vars

-----------------------------------------------------------------------------
(* Every variable stays in its type. *)
TypeOK ==
  /\ pc \in [Nodes -> Locations]
  /\ step \in [Nodes -> Steps \cup {0}]
  /\ block \in [Nodes -> Hash \cup {NoHash}]
  /\ hash \in [Nodes -> Hash \cup {NoHash}]
  /\ r \in [Nodes -> Hash \cup {NoHash}]
  /\ sent \subseteq Vote
  /\ result \in [Nodes -> Result \cup {NoResult}]

(* At most one non-empty block comes out of a round, TENTATIVE results
   included: when nodes part, they part between this block and an empty
   one, whatever step each of them decided in.                             *)
OneBlock ==
  \A m, n \in Nodes :
    result[m].hash \in Blocks /\ result[n].hash \in Blocks
      => result[m].hash = result[n].hash

(* FINAL consensus is reached on a proposed block, never on an empty one. *)
FinalNotEmpty ==
  \A n \in Nodes : result[n].type = "FINAL_CONSENSUS" => result[n].hash \in Blocks

VotedFor(V, v, s, h) == [voter |-> v, step |-> s, hash |-> h] \in V

(* In the votes V, users that reach the threshold of step s vote for h. *)
QuorumFor(V, s, h) ==
  \E Q \in SUBSET Nodes : /\ VotesOf(Q, s) >= Threshold
                          /\ \A v \in Q : VotedFor(V, v, s, h)

(* The same, by users whose chains end like that of n. *)
OwnQuorumFor(V, s, n, h) ==
  \E Q \in SUBSET Nodes : /\ VotesOf(Q, s) >= Threshold
                          /\ \A v \in Q : VotedFor(V, v, s, h) /\ Last[v] = Last[n]

(* And for FINAL. *)
FinalQuorumFor(V, n, h) ==
  \E F \in SUBSET Nodes : /\ VotesOf(F, FINAL) >= FinalThreshold
                          /\ \A v \in F : VotedFor(V, v, FINAL, h) /\ Last[v] = Last[n]

(* The users of n's chain that voted for h in step s, but not in FINAL. *)
ApartFor(s, n, h) ==
  {v \in Nodes : /\ VotedFor(sent, v, s, h)
                 /\ Last[v] = Last[n]
                 /\ \A w \in sent : w.voter = v => w.step # FINAL}

(* How far FINAL binds the network.  Once BA returned a FINAL block to some
   node, another node gets that block too, or else the empty one, and the
   latter only if users none of whom took part in FINAL hold a quorum of a
   later step: whoever voted in FINAL never votes for anything else again,
   however late the votes of others arrive.                                *)
FinalUnlessApart ==
  \A m, n \in Nodes :
    /\ result[m].type = "FINAL_CONSENSUS"
    /\ result[n] # NoResult
    /\ result[n].hash # result[m].hash
    => /\ result[n].hash = empty(n)
       /\ \E s \in BinarySteps \ {1} :
            VotesOf(ApartFor(s, n, result[n].hash), s) >= Threshold

(* A block enters the chain only if committee members holding Threshold
   votes found it to be the best proposal: reduction and binaryBA may fall
   back on the empty block but never invent or revive another one.         *)
Validity ==
  \A n \in Nodes :
    result[n].hash \in Blocks => QuorumFor(sent, REDUCTION_ONE, result[n].hash)

(* BA* implements the consensus of a round: every step gives no result or one
   that RoundConsensus allows.                                             *)
Round == INSTANCE RoundConsensus WITH Empties <- {emptyHash(p) : p \in Parents}
RoundSpec == Round!Spec

(* Users of different chains do not decide for each other: what BA returns to
   a node was voted for, in one step of binaryBA, by enough users whose
   chains end with the block its own chain ends with.                      *)
OwnChain ==
  \A n \in Nodes :
    result[n] # NoResult => \E s \in BinarySteps : OwnQuorumFor(sent, s, n, result[n].hash)

-----------------------------------------------------------------------------
(* The inductive invariant behind these properties.                        *)

(* The step a node counts follows from where it is, and once BA has begun the
   node has a hash to vote for.                                            *)
StepInv ==
  \A n \in Nodes :
    /\ pc[n] # "idle" => hash[n] \in Hash
    /\ pc[n] = "reduction1" => step[n] = REDUCTION_ONE
    /\ pc[n] = "reduction2" => step[n] = REDUCTION_TWO
    /\ pc[n] = "binary1" => step[n] \in 1 .. MAXSTEPS - 1
    /\ pc[n] = "binary2" => step[n] \in 2 .. MAXSTEPS
    /\ pc[n] = "binary3" => step[n] \in 3 .. MAXSTEPS + 1
    /\ pc[n] \in {"final", "done"} => step[n] = FINAL

(* No node has voted ahead of where it is. *)
NoFutureVote ==
  \A v \in sent :
    /\ v.step = REDUCTION_TWO => pc[v.voter] \notin {"idle", "reduction1"}
    /\ v.step \in BinarySteps => pc[v.voter] \notin {"idle", "reduction1", "reduction2"}
    /\ v.step \in BinarySteps \ {1} =>
         ~(pc[v.voter] = "binary1" /\ step[v.voter] = 1)

(* Nobody votes twice in the second reduction step or the first binary one;
   in the later odd steps the code does.                                   *)
VoteOnce ==
  \A v, w \in sent :
    /\ v.voter = w.voter
    /\ v.step = w.step
    /\ v.step \in {REDUCTION_TWO, 1}
    => v.hash = w.hash

(* A vote for a block in the second reduction step rests on a quorum of the
   first one, and a vote in binaryBA on a quorum of the second one.        *)
BlockVoteInv ==
  \A v \in sent :
    v.hash \in Blocks =>
      /\ v.step = REDUCTION_TWO => QuorumFor(sent, REDUCTION_ONE, v.hash)
      /\ v.step \in BinarySteps => QuorumFor(sent, REDUCTION_TWO, v.hash)

(* Node n is past reduction. *)
Reduced(n) == pc[n] \in {"binary1", "binary2", "binary3", "hang", "final", "done"}

(* So does a block that a node takes into binaryBA. *)
HashInv ==
  \A n \in Nodes :
    /\ Kind[n] = "EvilVoteEmpty" => hash[n] \notin Blocks
    /\ Reduced(n) /\ hash[n] \in Blocks => QuorumFor(sent, REDUCTION_TWO, hash[n])

(* A node that votes in FINAL has seen the first binary step decide, is out
   of binaryBA, and has voted for nothing else after that step.            *)
FinalVoteInv ==
  \A v \in sent :
    v.step = FINAL =>
      /\ pc[v.voter] \in {"final", "done", "panic"}
      /\ QuorumFor(sent, 1, v.hash)
      /\ v.hash # empty(v.voter)
      /\ \A w \in sent : w.voter = v.voter /\ w.step \in BinarySteps \ {1}
                         => w.hash = v.hash

(* binaryBA returns what a quorum of some step voted for, of users whose chains
   end like that of the node, or the zero hash.                            *)
DecisionInv ==
  \A n \in Nodes :
    pc[n] \in {"final", "done"} =>
      r[n] = NoHash \/ \E s \in BinarySteps : OwnQuorumFor(sent, s, n, r[n])

(* BA returns that value, as FINAL only with a quorum of FINAL. *)
ResultInv ==
  \A n \in Nodes :
    result[n] # NoResult =>
      /\ pc[n] = "done"
      /\ result[n].hash = r[n]
      /\ r[n] \in Blocks \cup {empty(n)}
      /\ result[n].type = "FINAL_CONSENSUS" => FinalQuorumFor(sent, n, r[n])

IInv ==
  /\ TypeOK
  /\ StepInv
  /\ NoFutureVote
  /\ VoteOnce
  /\ BlockVoteInv
  /\ HashInv
  /\ FinalVoteInv
  /\ DecisionInv
  /\ ResultInv

=============================================================================
